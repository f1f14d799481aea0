---------------------------- MODULE MCIpcSemPipe ----------------------------
(***************************************************************************)
(* One IPC object, which is created as a semaphore or as a pipe and used as  *)
(* what it is.  Reference count, threads and closing are those of the object *)
(* (IpcObject); what belongs to the other type stays as it was.             *)
(***************************************************************************)
EXTENDS IpcSem

CONSTANTS
  Sizes, Lengths, MaxWritten,
  Quiet       (* bound: the threads that do not call into a pipe *)

VARIABLES
  type,       (* obj->type *)
  size, buffer, read_pos, write_pos, todo, seen, asked, written, consumed, last

Pipe == INSTANCE IpcPipe
ASSUME PipeAssumed == Pipe!PipeAssumption

onlySem == <<value, op, held, rogue>>
onlyPipe ==
  <<size, buffer, read_pos, write_pos, todo, seen, asked, written, consumed, last>>
typedVars == <<vars, onlyPipe, type>>

(* The arguments op: both signs, 0, and more than one unit at a time.      *)
MCOps == {-2, -1, 0, 1}

TypedInit ==
  /\ type \in {"sem", "pipe"}
  /\ Init
  /\ Pipe!Init

TypedNext ==
  \/ type = "sem" /\ Next /\ UNCHANGED <<type, onlyPipe>>
  \/ /\ type = "pipe" /\ Pipe!Next /\ UNCHANGED <<type, onlySem>>
     /\ \A p \in Quiet : pc'[p] = "idle"

TypedSpec ==
  /\ TypedInit /\ [][TypedNext]_typedVars
  /\ \A p \in Procs :
       WF_typedVars(type = "sem" /\ Advance(p) /\ UNCHANGED <<type, onlyPipe>>)

-----------------------------------------------------------------------------
(* The value of a semaphore stays within an int and, with sane arguments,       *)
(* between 0 and max_val; whoever sleeps or fails, the value and the units held  *)
(* add up to what there were (soiav_ipc_sem_op).                              *)
SemAccounts == type = "sem" => TypeOK /\ ValueInRange /\ UnitsConserved

(* However the chunks of several writers and readers interleave, the ring of    *)
(* a pipe holds the newest part of the stream, in order, and it loses bytes only *)
(* by the bufferful (soiav_ipc_write_pipe fills the buffer to the last byte,     *)
(* after which it looks empty).                                              *)
PipeContents ==
  type = "pipe" => Pipe!TypeOK /\ Pipe!HoldsNewest /\ Pipe!LossIsWholeBuffers

(* Readers of a pipe together get no byte twice and none after a later one.  *)
DeliveredForward ==
  [][\A p \in Procs :
       type = "pipe" /\ Pipe!ReadChunk(p) => buffer[read_pos] > last /\ last' > last
    ]_typedVars
=============================================================================
