-------------------------------- MODULE IpcPipe --------------------------------
(***************************************************************************)
(* A pipe of Kernel/Ipc/Ipc_Soiav.c: soiav_ipc_write_pipe and               *)
(* soiav_ipc_read_pipe over a ring buffer, on an object that lives as in    *)
(* IpcObject.  A byte is its number in the stream of all bytes written, so  *)
(* that losses, repetitions and reorderings show.                          *)
(***************************************************************************)
EXTENDS IpcObject

CONSTANTS
  Sizes,       (* the argument of soiav_ipc_create_pipe                    *)
  Lengths,     (* the argument size of a read or a write                   *)
  MaxWritten   (* bound: the bytes all writers ask to write                *)

(* Assumed of the constants; the modules that instantiate this one check it. *)
PipeAssumption ==
  /\ Sizes \subseteq Nat /\ Lengths \subseteq Nat
  /\ MaxWritten \in Nat
  /\ MaxCloses \in {0, 1}

VARIABLES
  size, buffer, read_pos, write_pos,     (* struct soiav_ipc_pipe          *)
  pc,         (* where each thread is                                      *)
  todo,       (* per thread: the bytes its loop has still to move          *)
  seen,       (* per thread: its local free_space or available             *)
  asked,      (* history: the bytes writers asked to write                 *)
  written,    (* history: the bytes written                                *)
  consumed,   (* history: the bytes read                                   *)
  last        (* history: the number of the byte read last                 *)

pipe == <<size, buffer, read_pos, write_pos>>
history == <<asked, written, consumed, last>>
vars == <<objVars, pipe, history, pc, todo, seen>>

Init ==
  /\ ObjInit
  /\ size = 0 /\ buffer = <<>>
  /\ read_pos = 0 /\ write_pos = 0
  /\ pc = [p \in Procs |-> "idle"]
  /\ todo = [p \in Procs |-> 0]
  /\ seen = [p \in Procs |-> 0]
  /\ asked = 0 /\ written = 0 /\ consumed = 0 /\ last = 0

-----------------------------------------------------------------------------
Slots == 0 .. size - 1
Smaller(a, b) == IF a < b THEN a ELSE b

FreeSpace ==
  IF write_pos >= read_pos THEN size - write_pos + read_pos
                           ELSE read_pos - write_pos

(* Mutant: equal positions mean a full buffer here.                        *)
AvailableFull ==
  IF write_pos > read_pos THEN write_pos - read_pos
                          ELSE size - read_pos + write_pos

Available ==
  IF write_pos >= read_pos THEN write_pos - read_pos
                           ELSE size - read_pos + write_pos

(* Mutant: the rest that went to the start of the buffer is not counted.    *)
MoveToStart(pos, n) == IF pos + n >= size THEN 0 ELSE pos + n

(* A position after n bytes, n <= size, with the wrap to the start.        *)
Move(pos, n) == IF pos + n >= size THEN pos + n - size ELSE pos + n

(* The buffer after n bytes more: the part up to the end of the buffer, and *)
(* the rest at its start.                                                  *)
Filled(n) ==
  [s \in Slots |->
     IF s >= write_pos /\ s < write_pos + n THEN written + 1 + (s - write_pos)
     ELSE IF s + size < write_pos + n THEN written + 1 + (s + size - write_pos)
     ELSE buffer[s]]

Goto(p, from, to) ==
  /\ pc[p] \in from
  /\ pc' = [pc EXCEPT ![p] = to]

Create ==
  /\ Install
  /\ size' \in Sizes
  /\ buffer' = [s \in 0 .. size' - 1 |-> 0]
  /\ UNCHANGED <<read_pos, write_pos, history, pc, todo, seen>>

(* A call on a pipe that does not exist: -EINVAL.                          *)
Refuse(p) ==
  /\ pc[p] = "idle" /\ stage # "mapped"
  /\ UNCHANGED vars

Enter(p, n, loop) ==
  /\ Goto(p, {"idle"}, IF n > 0 THEN loop ELSE "leave")
  /\ Acquire(p)
  /\ todo' = [todo EXCEPT ![p] = n]
  /\ asked' = IF loop = "write" THEN asked + n ELSE asked
  /\ asked' <= MaxWritten
  /\ UNCHANGED <<pipe, written, consumed, last, seen>>

Leave(p) ==
  /\ Goto(p, {"leave"}, "idle")
  /\ Release(p)
  /\ todo' = [todo EXCEPT ![p] = 0]
  /\ UNCHANGED <<pipe, history, seen>>

(* One round of the loop of write_pipe, under pipe->lock.                  *)
WriteChunk(p) ==
  LET n == Smaller(todo[p], FreeSpace)
  IN /\ Goto(p, {"write"}, "wrote")
     /\ FreeSpace > 0
     /\ buffer' = Filled(n)
     /\ write_pos' = Move(write_pos, n)
     /\ written' = written + n
     /\ todo' = [todo EXCEPT ![p] = @ - n]
     /\ UNCHANGED <<objVars, size, read_pos, asked, consumed, last, seen>>

(* One round of the loop of read_pipe: n bytes leave, the last of which     *)
(* stood in the slot before the new position.                              *)
ReadChunk(p) ==
  LET n == Smaller(todo[p], Available)
  IN /\ Goto(p, {"read"}, "got")
     /\ Available > 0
     /\ last' = buffer[Move(read_pos, n - 1)]
     /\ read_pos' = Move(read_pos, n)
     /\ consumed' = consumed + n
     /\ todo' = [todo EXCEPT ![p] = @ - n]
     /\ UNCHANGED <<objVars, size, buffer, write_pos, asked, written, seen>>

(* wake_up_interruptible of the other side.  A sleeper that is roused       *)
(* evaluates its condition, which is about its own local variable.         *)
Rouse(p, from, loop, sleep) ==
  /\ pc[p] = from
  /\ pc' = [q \in Procs |->
              IF q = p THEN IF todo[p] > 0 THEN loop ELSE "leave"
              ELSE IF pc[q] = sleep /\ seen[q] > 0
                   THEN IF sleep = "wsleep" THEN "write" ELSE "read"
              ELSE pc[q]]
  /\ UNCHANGED <<objVars, pipe, history, todo, seen>>

WriteWake(p) == Rouse(p, "wrote", "write", "rsleep")
ReadWake(p) == Rouse(p, "got", "read", "wsleep")

(* Nothing to move: out with IPC_NOWAIT, else asleep with the local         *)
(* variable that was just computed.                                        *)
Block(p, loop, sleep, amount) ==
  /\ amount = 0
  /\ Goto(p, {loop}, sleep) \/ Goto(p, {loop}, "leave")
  /\ seen' = [seen EXCEPT ![p] = amount]
  /\ UNCHANGED <<objVars, pipe, history, todo>>

WriteBlock(p) == Block(p, "write", "wsleep", FreeSpace)
ReadBlock(p) == Block(p, "read", "rsleep", Available)

(* A signal ends the wait.                                                 *)
Signal(p) ==
  /\ Goto(p, {"wsleep", "rsleep"}, "leave")
  /\ UNCHANGED <<objVars, pipe, history, todo, seen>>

ClosePipe == Close /\ UNCHANGED <<pipe, history, pc, todo, seen>>

Advance(p) ==
  \/ WriteChunk(p) \/ WriteWake(p) \/ WriteBlock(p)
  \/ ReadChunk(p) \/ ReadWake(p) \/ ReadBlock(p)
  \/ Leave(p)

Next ==
  \/ Create
  \/ ClosePipe
  \/ \E p \in Procs :
       \/ Advance(p) \/ Signal(p) \/ Refuse(p)
       \/ \E n \in Lengths : Enter(p, n, "write") \/ Enter(p, n, "read")

Spec == Init /\ [][Next]_vars

(* The kernel runs every thread that can run.                              *)
FairSpec == Spec /\ \A p \in Procs : WF_vars(Advance(p))

-----------------------------------------------------------------------------
TypeOK ==
  /\ ObjTypeOK
  /\ size \in Nat
  /\ buffer \in [Slots -> 0 .. MaxWritten]
  /\ \A pos \in {read_pos, write_pos} : pos \in Nat /\ (pos < size \/ pos = 0)
  /\ pc \in [Procs -> {"idle", "write", "wrote", "wsleep", "read", "got",
                       "rsleep", "leave"}]
  /\ todo \in [Procs -> Nat]
  /\ seen \in [Procs -> Nat]
  /\ asked \in 0 .. MaxWritten /\ written \in 0 .. asked
  /\ consumed \in Nat
  /\ last \in 0 .. MaxWritten

(* What lies between the positions is the newest part of the stream, in     *)
(* order, wherever the buffer wraps and however the chunks of several       *)
(* writers and readers interleave.                                         *)
HoldsNewest ==
  \A k \in 0 .. Available - 1 :
    buffer[Move(read_pos, k)] = written - Available + 1 + k

(* Readers together get no byte twice and none after a later one.          *)
DeliveredForward ==
  [][\A p \in Procs : ReadChunk(p) => buffer[read_pos] > last /\ last' > last]_vars

(* Bytes are lost only by the bufferful: a write that fills the buffer to   *)
(* the last byte makes it look empty.                                      *)
LossIsWholeBuffers ==
  size > 0 => (written - consumed - Available) % size = 0

(* What the test of the wait says: a reader sleeps until there is data.     *)
ReaderResumes ==
  \A p \in Procs :
    pc[p] = "rsleep" /\ Available > 0 ~> pc[p] # "rsleep" \/ Available = 0
=============================================================================
