------------------------------ MODULE IpcObject ------------------------------
(***************************************************************************)
(* The life of one struct soiav_ipc_object (Kernel/Ipc/Ipc_Soiav.c): what   *)
(* its reference count counts, and when its memory goes away.              *)
(*                                                                         *)
(* Every operation on a queue, a semaphore, a pipe or a shared memory       *)
(* segment starts by taking a reference under ipc_table_lock and ends by    *)
(* a plain atomic_dec, which never frees; only soiav_ipc_close tests the    *)
(* count.  IpcTable, IpcQueue, IpcSem and IpcPipe implement this module.    *)
(***************************************************************************)
EXTENDS Integers, FiniteSets

CONSTANTS
  Procs,       (* the kernel threads that call into the IPC subsystem      *)
  MaxCloses,   (* bound: how often soiav_ipc_close is called on the object *)
  MaxPins      (* bound: how often soiav_ipc_attach succeeds on the object *)

ASSUME ObjectAssumption ==
  /\ IsFiniteSet(Procs)
  /\ MaxCloses \in Nat
  /\ MaxPins \in Nat

VARIABLES
  stage,      (* "new", "mapped" (reachable through the table) or "freed"  *)
  refcount,   (* obj->refcount                                             *)
  holders,    (* the threads between their atomic_inc and their atomic_dec *)
  pinned,     (* references soiav_ipc_attach took and never gives back     *)
  closes      (* how often soiav_ipc_close reached the object              *)

objVars == <<stage, refcount, holders, pinned, closes>>

ObjInit ==
  /\ stage = "new"
  /\ refcount = 0
  /\ holders = {}
  /\ pinned = 0
  /\ closes = 0

(* A create call enters the object in the table: atomic_set(&refcount, 1). *)
Install ==
  /\ stage = "new"
  /\ stage' = "mapped"
  /\ refcount' = 1
  /\ UNCHANGED <<holders, pinned, closes>>

(* A create call finds no free id and frees what it allocated.             *)
Discard ==
  /\ stage = "new"
  /\ stage' = "freed"
  /\ UNCHANGED <<refcount, holders, pinned, closes>>

(* The lookup every operation starts with.                                 *)
Acquire(p) ==
  /\ stage = "mapped"
  /\ p \notin holders
  /\ refcount' = refcount + 1
  /\ holders' = holders \cup {p}
  /\ UNCHANGED <<stage, pinned, closes>>

(* The atomic_dec every operation but attach ends with.                    *)
Release(p) ==
  /\ p \in holders
  /\ refcount' = refcount - 1
  /\ holders' = holders \ {p}
  /\ UNCHANGED <<stage, pinned, closes>>

(* soiav_ipc_attach returns with its reference still counted.              *)
Pin(p) ==
  /\ p \in holders
  /\ pinned < MaxPins
  /\ holders' = holders \ {p}
  /\ pinned' = pinned + 1
  /\ UNCHANGED <<stage, refcount, closes>>

(* soiav_ipc_close when atomic_dec_and_test does not reach zero.           *)
CloseDrop ==
  /\ stage = "mapped"
  /\ closes < MaxCloses
  /\ refcount # 1
  /\ refcount' = refcount - 1
  /\ closes' = closes + 1
  /\ UNCHANGED <<stage, holders, pinned>>

(* soiav_ipc_close when it does: the object is freed and unmapped.         *)
CloseLast ==
  /\ stage = "mapped"
  /\ closes < MaxCloses
  /\ refcount = 1
  /\ refcount' = 0
  /\ stage' = "freed"
  /\ closes' = closes + 1
  /\ UNCHANGED <<holders, pinned>>

Close == CloseDrop \/ CloseLast

ObjNext ==
  \/ Install
  \/ Discard
  \/ Close
  \/ \E p \in Procs : Acquire(p) \/ Release(p) \/ Pin(p)

ObjSpec == ObjInit /\ [][ObjNext]_objVars

-----------------------------------------------------------------------------
ObjTypeOK ==
  /\ stage \in {"new", "mapped", "freed"}
  /\ refcount \in Int
  /\ holders \subseteq Procs
  /\ pinned \in 0 .. MaxPins
  /\ closes \in 0 .. MaxCloses

(* The reference count of a reachable object is the creator's reference,   *)
(* plus the operations in flight, plus the attachments, minus the calls of *)
(* soiav_ipc_close: no path through an operation, its early returns        *)
(* included, drops a reference twice or forgets it.                        *)
RefcountAccounting ==
  stage = "mapped" => refcount = 1 + Cardinality(holders) + pinned - closes

(* An operation in flight never has its object freed under it, as long as  *)
(* soiav_ipc_close was called at most once more often than the object was  *)
(* attached.  (A close beyond that takes the reference of an operation.)   *)
NoUseAfterFree ==
  stage = "freed" /\ closes <= 1 + pinned => holders = {}

(* What the comments of soiav_ipc_close say of it: closing an object       *)
(* releases it.  Once a close succeeded, nobody uses the object and nobody *)
(* attached it, its memory is released.                                    *)
CloseReleases ==
  closes > 0 /\ holders = {} /\ pinned = 0 => stage = "freed"
=============================================================================
