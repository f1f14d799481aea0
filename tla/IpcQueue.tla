------------------------------- MODULE IpcQueue -------------------------------
(***************************************************************************)
(* A message queue of Kernel/Ipc/Ipc_Soiav.c: soiav_ipc_send and            *)
(* soiav_ipc_receive by several threads, step by step between the locks,    *)
(* together with the life of the queue's object (IpcObject).               *)
(***************************************************************************)
EXTENDS IpcObject, Sequences

CONSTANTS
  Msgs,              (* the messages threads send                          *)
  MAX_QUEUE_DEPTH,   (* queue->max_depth                                   *)
  NoMsg

(* The queue is closed by its owner, so at most once (IpcTable has the      *)
(* other case), and nobody attaches to a queue.                            *)
ASSUME QueueAssumption ==
  /\ MAX_QUEUE_DEPTH \in Nat \ {0}
  /\ MaxCloses \in {0, 1}
  /\ NoMsg \notin Msgs

VARIABLES
  messages,   (* the list queue->messages                                  *)
  count,      (* queue->count                                              *)
  pc,         (* where each thread is in send or receive                   *)
  msg         (* each thread's local variable msg                          *)

queue == <<messages, count>>
vars == <<objVars, queue, pc, msg>>

Init ==
  /\ ObjInit
  /\ messages = <<>>
  /\ count = 0
  /\ pc = [p \in Procs |-> "idle"]
  /\ msg = [p \in Procs |-> NoMsg]

Goto(p, from, to) ==
  /\ pc[p] \in from
  /\ pc' = [pc EXCEPT ![p] = to]

-----------------------------------------------------------------------------
Create == Install /\ UNCHANGED <<queue, pc, msg>>

(* A call on a queue that does not exist: -EINVAL.                         *)
Refuse(p) ==
  /\ pc[p] = "idle" /\ stage # "mapped"
  /\ UNCHANGED vars

(* The atomic_dec every path out of send and receive ends with.            *)
Leave(p) ==
  /\ Goto(p, {"leave"}, "idle")
  /\ Release(p)
  /\ msg' = [msg EXCEPT ![p] = NoMsg]
  /\ UNCHANGED queue

SendEnter(p, m) ==
  /\ Goto(p, {"idle"}, "send")
  /\ Acquire(p)
  /\ msg' = [msg EXCEPT ![p] = m]
  /\ UNCHANGED queue

(* The message is too long, or there is no memory for it.                  *)
SendFail(p) ==
  /\ Goto(p, {"send"}, "leave")
  /\ UNCHANGED <<objVars, queue, msg>>

(* Mutant: -EAGAIN returned without the atomic_dec.                        *)
SendFullLeak(p) ==
  /\ Goto(p, {"send"}, "idle")
  /\ count >= MAX_QUEUE_DEPTH
  /\ msg' = [msg EXCEPT ![p] = NoMsg]
  /\ holders' = holders \ {p}
  /\ UNCHANGED <<stage, refcount, pinned, closes, queue>>

(* -EAGAIN, under queue->lock: the queue is full.                          *)
SendFull(p) ==
  /\ Goto(p, {"send"}, "leave")
  /\ count >= MAX_QUEUE_DEPTH
  /\ UNCHANGED <<objVars, queue, msg>>

(* Mutant: the depth is compared with > instead of >=.                     *)
SendPutDeep(p) ==
  /\ Goto(p, {"send"}, "wake")
  /\ count <= MAX_QUEUE_DEPTH
  /\ messages' = Append(messages, msg[p])
  /\ count' = count + 1
  /\ UNCHANGED <<objVars, msg>>

SendPut(p) ==
  /\ Goto(p, {"send"}, "wake")
  /\ count < MAX_QUEUE_DEPTH
  /\ messages' = Append(messages, msg[p])
  /\ count' = count + 1
  /\ UNCHANGED <<objVars, msg>>

(* Mutant: a wake-up that rouses one sleeper of several.                   *)
SendWakeOne(p) ==
  /\ pc[p] = "wake"
  /\ \/ \E q \in Procs :
          /\ pc[q] = "asleep"
          /\ pc' = [pc EXCEPT ![p] = "leave", ![q] = "wait"]
     \/ /\ \A q \in Procs : pc[q] # "asleep"
        /\ pc' = [pc EXCEPT ![p] = "leave"]
  /\ UNCHANGED <<objVars, queue, msg>>

(* wake_up_interruptible rouses every thread that sleeps on queue->wait.   *)
SendWake(p) ==
  /\ pc[p] = "wake"
  /\ pc' = [q \in Procs |-> IF q = p THEN "leave"
                            ELSE IF pc[q] = "asleep" THEN "wait" ELSE pc[q]]
  /\ UNCHANGED <<objVars, queue, msg>>

RecvEnter(p) ==
  /\ Goto(p, {"idle"}, "receive")
  /\ Acquire(p)
  /\ UNCHANGED <<queue, msg>>

(* The list is not empty, under queue->lock: the first message is taken and *)
(* copied out.  (With a NULL buffer it is taken and freed, -ENOSPC.)        *)
RecvTake(p) ==
  /\ Goto(p, {"receive", "recheck"}, "leave")
  /\ messages # <<>>
  /\ msg' = [msg EXCEPT ![p] = Head(messages)]
  /\ messages' = Tail(messages)
  /\ count' = count - 1
  /\ UNCHANGED objVars

(* The list is empty: -EAGAIN with IPC_NOWAIT, else into the wait.  Only    *)
(* the first test can meet IPC_NOWAIT.                                     *)
RecvNoWait(p) ==
  /\ Goto(p, {"receive"}, "leave")
  /\ messages = <<>>
  /\ UNCHANGED <<objVars, queue, msg>>

RecvBlock(p) ==
  /\ Goto(p, {"receive", "recheck"}, "wait")
  /\ messages = <<>>
  /\ UNCHANGED <<objVars, queue, msg>>

(* wait_event_interruptible: on the wait queue already, test the list       *)
(* without the lock; go on, or sleep.                                      *)
RecvTestWait(p) ==
  /\ Goto(p, {"wait"}, IF messages # <<>> THEN "recheck" ELSE "asleep")
  /\ UNCHANGED <<objVars, queue, msg>>

(* -ERESTARTSYS: a signal while the list is empty.                         *)
RecvSignal(p) ==
  /\ Goto(p, {"wait", "asleep"}, "leave")
  /\ messages = <<>>
  /\ UNCHANGED <<objVars, queue, msg>>

(* Mutant: the object is freed although threads are inside.                *)
CloseQueueAnyway ==
  /\ stage = "mapped" /\ closes < MaxCloses
  /\ stage' = "freed"
  /\ closes' = closes + 1
  /\ messages' = <<>> /\ count' = 0
  /\ UNCHANGED <<refcount, holders, pinned, pc, msg>>

(* soiav_ipc_close; the last reference frees what is still queued.         *)
CloseQueue ==
  /\ \/ CloseDrop /\ UNCHANGED queue
     \/ CloseLast /\ messages' = <<>> /\ count' = 0
  /\ UNCHANGED <<pc, msg>>

(* The steps a thread that entered takes by itself.                        *)
Advance(p) ==
  \/ SendFail(p) \/ SendFull(p) \/ SendPut(p) \/ SendWake(p)
  \/ RecvTake(p) \/ RecvNoWait(p) \/ RecvBlock(p) \/ RecvTestWait(p)
  \/ Leave(p)

Next ==
  \/ Create
  \/ CloseQueue
  \/ \E p \in Procs :
       \/ Advance(p)
       \/ RecvEnter(p) \/ RecvSignal(p) \/ Refuse(p)
       \/ \E m \in Msgs : SendEnter(p, m)

Spec == Init /\ [][Next]_vars

-----------------------------------------------------------------------------
TypeOK ==
  /\ ObjTypeOK
  /\ messages \in Seq(Msgs)
  /\ count \in 0 .. MAX_QUEUE_DEPTH
  /\ pc \in [Procs -> {"idle", "send", "wake", "receive", "recheck", "wait",
                       "asleep", "leave"}]
  /\ msg \in [Procs -> Msgs \cup {NoMsg}]

(* Each of the nine ways out of send and receive gives back exactly the     *)
(* reference its lookup took: the reference count of the mapped object      *)
(* counts the threads inside, and those threads hold it.                   *)
RefcountBalanced ==
  stage = "mapped" =>
    /\ refcount = 1 + Cardinality({p \in Procs : pc[p] # "idle"}) - closes
    /\ holders = {p \in Procs : pc[p] # "idle"}

(* The types and the references together, between any two steps.              *)
QueueConsistent == TypeOK /\ RefcountBalanced

(* A thread inside send or receive, asleep in the wait included, never has  *)
(* the queue freed under it by a concurrent close.                         *)
QueueOutlivesCalls == (\E p \in Procs : pc[p] # "idle") => stage = "mapped"

(* While a message is queued, a sleeping receiver is about to be roused: a  *)
(* sender stands between list_add_tail and wake_up_interruptible.          *)
WakeupPending ==
  messages # <<>> /\ (\E p \in Procs : pc[p] = "asleep")
    => \E q \in Procs : pc[q] = "wake"

(* Receivers get the messages in the order the senders queued them, each    *)
(* once, and at most max_depth are held: queue->count agrees with the list. *)
Channel == INSTANCE BoundedFifo WITH
  Items <- Msgs, Capacity <- MAX_QUEUE_DEPTH, Policy <- "reject",
  fifo <- messages

ImplementsFifo == Channel!ClosableSpec

=============================================================================
