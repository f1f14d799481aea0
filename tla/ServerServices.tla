--------------------------- MODULE ServerServices ---------------------------
(***************************************************************************)
(* One service of the system server (src/System/Server.c). Workers start,    *)
(* stop and restart it for clients, and the worker that shuts the server     *)
(* down stops it, all without a lock; every start makes a new instance and a *)
(* thread for it, which calls the start method some time later.             *)
(*                                                                         *)
(* An instance is "broken" when its start or its stop has thrown: whether it *)
(* does its work then is not known.                                         *)
(***************************************************************************)
EXTENDS Naturals, FiniteSets

CONSTANTS
  Workers,
  MaxInstance     (* bound: instances made                                  *)

(* Assumed of the constants; the modules that instantiate this one check it. *)
ServiceAssumption == MaxInstance \in Nat

VARIABLES
  status,         (* service.status                                         *)
  instance,       (* service.instance; 0 for null                           *)
  thread,         (* service.thread, by its instance; 0 for null            *)
  work,           (* of each instance: "none" (not made), "new", "up",       *)
                  (* "broken", "down"                                       *)
  threads,        (* of each instance's thread: "none", "new", "started" and *)
                  (* not at its call of start yet, "ran"                     *)
  pc,             (* where each worker is                                   *)
  todo,           (* the calls its request still has to make                *)
  new,            (* the instance a worker has just made                    *)
  server,         (* "up", or "ended" by System.exit                        *)
  raced           (* history: two starts or two stops have overlapped, or a  *)
                  (* stop has overtaken the thread of the start before it    *)

vars == <<status, instance, thread, work, threads, pc, todo, new, server, raced>>

Instances == 1 .. MaxInstance
Made == {i \in Instances : work[i] # "none"}
Pending == {i \in Instances : threads[i] = "started"}

(* The places of startService after its test, and of stopService.            *)
InStart == {"make", "thread", "launch", "mark"}
InStop == {"stop", "join"}
Within(P) == {w \in Workers : pc[w] \in P}

(* registerService.                                                         *)
Init ==
  /\ status = "stopped"
  /\ instance = 0
  /\ thread = 0
  /\ work = [i \in Instances |-> "none"]
  /\ threads = [i \in Instances |-> "none"]
  /\ pc = [w \in Workers |-> "idle"]
  /\ todo = [w \in Workers |-> {}]
  /\ new = [w \in Workers |-> 0]
  /\ server = "up"
  /\ raced = FALSE

Goto(w, from, to) ==
  /\ server = "up"
  /\ pc[w] = from
  /\ pc' = [pc EXCEPT ![w] = to]

(* A request arrives: start, stop, restart (a stop and then a start), or the *)
(* shutdown of the server (a stop and then the exit).                       *)
Request(w) ==
  /\ todo[w] = {}
  /\ \E calls \in {{"start"}, {"stop"}, {"stop", "start"}, {"stop", "exit"}} :
       todo' = [todo EXCEPT ![w] = calls]
  /\ Goto(w, "idle", "idle")
  /\ UNCHANGED <<status, instance, thread, work, threads, new, server, raced>>

Called(w, call) == todo' = [todo EXCEPT ![w] = @ \ {call}]

(* startService: nothing to do for a running service; otherwise go on, on    *)
(* the strength of a status that another worker may change.                 *)
StartTest(w) ==
  /\ "start" \in todo[w] /\ "stop" \notin todo[w]
  /\ \/ status = "running" /\ Goto(w, "idle", "idle") /\ UNCHANGED raced
     \/ /\ status # "running"
        /\ Goto(w, "idle", "make")
        /\ raced' = (raced \/ Within(InStart) # {})
  /\ Called(w, "start")
  /\ UNCHANGED <<status, instance, thread, work, threads, new, server>>

(* newInstance, or an exception that makes the status "error".              *)
StartMake(w) ==
  /\ \/ \E i \in Instances \ Made :
          /\ \A j \in Instances \ Made : i <= j
          /\ Goto(w, "make", "thread")
          /\ work' = [work EXCEPT ![i] = "new"]
          /\ instance' = i
          /\ new' = [new EXCEPT ![w] = i]
          /\ UNCHANGED status
     \/ /\ Goto(w, "make", "idle")
        /\ status' = "error"
        /\ UNCHANGED <<work, instance, new>>
  /\ UNCHANGED <<thread, threads, todo, server, raced>>

StartThread(w) ==
  /\ Goto(w, "thread", "launch")
  /\ thread' = new[w]
  /\ threads' = [threads EXCEPT ![new[w]] = "new"]
  /\ UNCHANGED <<status, instance, work, todo, new, server, raced>>

(* service.thread.start() starts the thread that is in the field by now, and *)
(* throws when that one has been started already.                           *)
StartLaunch(w) ==
  /\ \/ /\ Goto(w, "launch", "mark")
        /\ threads[thread] = "new"
        /\ threads' = [threads EXCEPT ![thread] = "started"]
        /\ UNCHANGED status
     \/ /\ Goto(w, "launch", "idle")
        /\ threads[thread] # "new"
        /\ status' = "error"
        /\ UNCHANGED threads
  /\ UNCHANGED <<instance, thread, work, todo, new, server, raced>>

StartMark(w) ==
  /\ Goto(w, "mark", "idle")
  /\ status' = "running"
  /\ UNCHANGED <<instance, thread, work, threads, todo, new, server, raced>>

(* The thread calls start on what service.instance is when it runs. What     *)
(* start throws is logged and the status stays what it is.                  *)
ThreadRuns(i) ==
  /\ server = "up"
  /\ i \in Pending
  /\ threads' = [threads EXCEPT ![i] = "ran"]
  /\ \E how \in {"up", "broken"} : work' = [work EXCEPT ![instance] = how]
  /\ UNCHANGED <<status, instance, thread, pc, todo, new, server, raced>>

(* stopService: only for a running service.                                 *)
StopTest(w) ==
  /\ "stop" \in todo[w]
  /\ \/ status # "running" /\ Goto(w, "idle", "idle") /\ UNCHANGED raced
     \/ /\ status = "running"
        /\ Goto(w, "idle", "stop")
        /\ raced' = (raced \/ Within(InStop) # {})
  /\ Called(w, "stop")
  /\ UNCHANGED <<status, instance, thread, work, threads, new, server>>

(* The stop method of the instance, then interrupt and join of the thread    *)
(* (for five seconds at most), then the status. An exception leaves it.     *)
StopInstance(w) ==
  /\ \/ /\ Goto(w, "stop", "join")
        /\ work' = [work EXCEPT ![instance] = "down"]
     \/ /\ Goto(w, "stop", "idle")
        /\ work' = [work EXCEPT ![instance] = "broken"]
  /\ raced' = (raced \/ Pending # {})
  /\ UNCHANGED <<status, instance, thread, threads, todo, new, server>>

StopMark(w) ==
  /\ Goto(w, "join", "idle")
  /\ status' = "stopped"
  /\ UNCHANGED <<instance, thread, work, threads, todo, new, server, raced>>

(* The end of handleShutdown.                                               *)
Exit(w) ==
  /\ todo[w] = {"exit"}
  /\ Goto(w, "idle", "idle")
  /\ server' = "ended"
  /\ UNCHANGED <<status, instance, thread, work, threads, todo, new, raced>>

Serve(w) ==
  \/ StartTest(w) \/ StartMake(w) \/ StartThread(w) \/ StartLaunch(w) \/ StartMark(w)
  \/ StopTest(w) \/ StopInstance(w) \/ StopMark(w) \/ Exit(w)

Next ==
  \/ \E w \in Workers : Request(w) \/ Serve(w)
  \/ \E i \in Instances : ThreadRuns(i)

Spec == Init /\ [][Next]_vars
-----------------------------------------------------------------------------
Up == {i \in Instances : work[i] = "up"}

TypeOK ==
  /\ status \in {"running", "stopped", "error"}
  /\ instance \in Made \union {0}
  /\ thread \in Made \union {0}
  /\ work \in [Instances -> {"none", "new", "up", "broken", "down"}]
  /\ threads \in [Instances -> {"none", "new", "started", "ran"}]
  /\ new \in [Workers -> Made \union {0}]
  /\ server \in {"up", "ended"}
  /\ raced \in BOOLEAN

(* Only three overlaps harm a service, of all that requests of several        *)
(* workers can come to: a start in a start, a stop in a stop, and a stop that *)
(* overtakes the thread of the start. Until one of them has happened, an      *)
(* instance that is up is the one that a stop will reach; a service shown as  *)
(* running is up, about to be, just being stopped, or its start or stop has   *)
(* thrown, which the status does not tell (lines 941-945, 965); and one that  *)
(* is not shown as running is not up, unless a start is about to show it.    *)
RunningBacked ==
  ~ raced =>
    /\ Up \subseteq {instance}
    /\ status = "running" =>
         \/ Pending # {} \/ Within({"join"}) # {}
         \/ instance # 0 /\ work[instance] \in {"up", "broken"}
    /\ status # "running" => Up = {} \/ Within({"mark"}) # {}

=============================================================================
