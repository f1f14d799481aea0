------------------------------- MODULE IpcTable -------------------------------
(***************************************************************************)
(* The global object table of Kernel/Ipc/Ipc_Soiav.c: ipc_objects[],        *)
(* next_ipc_id and the life of several objects of several types under       *)
(* concurrent create, operate, attach, close and module exit.  What an      *)
(* operation does to its object between the lookup and the release is in    *)
(* IpcQueue, IpcSem and IpcPipe.                                            *)
(***************************************************************************)
EXTENDS Integers, FiniteSets

CONSTANTS
  Procs,             (* the kernel threads                                 *)
  Objs,              (* the allocations kzalloc can return, each used once *)
  MAX_IPC_OBJECTS,   (* length of ipc_objects[]                            *)
  MaxCloses, MaxPins,(* bounds on the calls per object, as in IpcObject    *)
  NULL

ASSUME TableAssumption ==
  /\ IsFiniteSet(Procs)
  /\ MAX_IPC_OBJECTS \in Nat \ {0}
  /\ MaxCloses \in Nat
  /\ MaxPins \in Nat
  /\ NULL \notin Objs

VARIABLES
  ipc_objects,   (* the table, indexed by id                               *)
  next_ipc_id,   (* where the search for a free id starts                  *)
  stage,         (* per allocation: "free", "new", "mapped" or "freed"     *)
  type,          (* obj->type: shared memory or one of the others          *)
  refcount, pinned, closes,  (* per allocation, as in IpcObject            *)
  pc, ptr,       (* per thread: where it is, and its local variable obj    *)
  unload         (* soiav_ipc_exit: its loop index, -1 before the unload   *)

vars == <<ipc_objects, next_ipc_id, stage, type, refcount, pinned, closes,
          pc, ptr, unload>>
objects == <<stage, type, refcount, pinned, closes>>

Ids == 0 .. MAX_IPC_OBJECTS - 1
Types == {"SHM", "QUEUE"}   (* QUEUE stands for queue, semaphore and pipe  *)
Holders(o) == {p \in Procs : pc[p] = "op" /\ ptr[p] = o}

Init ==
  /\ ipc_objects = [id \in Ids |-> NULL]
  /\ next_ipc_id = 1
  /\ stage = [o \in Objs |-> "free"]
  /\ type = [o \in Objs |-> "QUEUE"]
  /\ refcount = [o \in Objs |-> 0]
  /\ pinned = [o \in Objs |-> 0]
  /\ closes = [o \in Objs |-> 0]
  /\ pc = [p \in Procs |-> "idle"]
  /\ ptr = [p \in Procs |-> NULL]
  /\ unload = -1

-----------------------------------------------------------------------------
(* Mutant: the search does not test ipc_objects[id].                       *)
FreeIdsUnchecked == {id \in Ids : id >= next_ipc_id}

(* The ids the search of a create call may take.                           *)
FreeIds == {id \in Ids : id >= next_ipc_id /\ ipc_objects[id] = NULL}

Goto(p, where, o) ==
  /\ pc' = [pc EXCEPT ![p] = where]
  /\ ptr' = [ptr EXCEPT ![p] = o]

(* The allocations of a create call, made before it takes the lock.        *)
CreateAlloc(p) ==
  /\ pc[p] = "idle" /\ unload = -1
  /\ \E o \in Objs, t \in Types :
       /\ stage[o] = "free"
       /\ stage' = [stage EXCEPT ![o] = "new"]
       /\ type' = [type EXCEPT ![o] = t]
       /\ Goto(p, "create", o)
  /\ UNCHANGED <<ipc_objects, next_ipc_id, refcount, pinned, closes, unload>>

(* The first free id from next_ipc_id on, and the object's first reference.*)
CreateInstall(p) ==
  /\ pc[p] = "create"
  /\ \E id \in FreeIds :
       /\ \A other \in FreeIds : id <= other
       /\ ipc_objects' = [ipc_objects EXCEPT ![id] = ptr[p]]
       /\ next_ipc_id' = id + 1
  /\ stage' = [stage EXCEPT ![ptr[p]] = "mapped"]
  /\ refcount' = [refcount EXCEPT ![ptr[p]] = 1]
  /\ Goto(p, "idle", NULL)
  /\ UNCHANGED <<type, pinned, closes, unload>>

(* -ENOSPC: what was allocated is freed again.                             *)
CreateNoSpace(p) ==
  /\ pc[p] = "create"
  /\ FreeIds = {}
  /\ stage' = [stage EXCEPT ![ptr[p]] = "freed"]
  /\ Goto(p, "idle", NULL)
  /\ UNCHANGED <<ipc_objects, next_ipc_id, type, refcount, pinned, closes,
                 unload>>

(* Mutant: the reference is not taken.                                     *)
LookupBorrow(p, id) ==
  /\ pc[p] = "idle" /\ unload = -1
  /\ ipc_objects[id] # NULL
  /\ Goto(p, "op", ipc_objects[id])
  /\ UNCHANGED <<ipc_objects, next_ipc_id, objects, unload>>

(* Every operation: look up the id under the lock and take a reference.    *)
(* (An id that is not mapped, or of the wrong type, is -EINVAL and changes *)
(* nothing.)                                                               *)
Lookup(p, id) ==
  /\ pc[p] = "idle" /\ unload = -1
  /\ ipc_objects[id] # NULL
  /\ refcount' = [refcount EXCEPT ![ipc_objects[id]] = @ + 1]
  /\ Goto(p, "op", ipc_objects[id])
  /\ UNCHANGED <<ipc_objects, next_ipc_id, stage, type, pinned, closes, unload>>

(* Mutant: an early return without the atomic_dec.                         *)
FinishLeak(p) ==
  /\ pc[p] = "op" /\ type[ptr[p]] = "QUEUE"
  /\ Goto(p, "idle", NULL)
  /\ UNCHANGED <<ipc_objects, next_ipc_id, objects, unload>>

(* A queue, semaphore or pipe operation ends: atomic_dec.                  *)
Finish(p) ==
  /\ pc[p] = "op" /\ type[ptr[p]] = "QUEUE"
  /\ refcount' = [refcount EXCEPT ![ptr[p]] = @ - 1]
  /\ Goto(p, "idle", NULL)
  /\ UNCHANGED <<ipc_objects, next_ipc_id, stage, type, pinned, closes, unload>>

(* soiav_ipc_attach ends: it returns the address and keeps its reference;  *)
(* soiav_ipc_detach gives nothing back.                                    *)
AttachFinish(p) ==
  /\ pc[p] = "op" /\ type[ptr[p]] = "SHM"
  /\ pinned[ptr[p]] < MaxPins
  /\ pinned' = [pinned EXCEPT ![ptr[p]] = @ + 1]
  /\ Goto(p, "idle", NULL)
  /\ UNCHANGED <<ipc_objects, next_ipc_id, stage, type, refcount, closes,
                 unload>>

(* Mutant: next_ipc_id moves up to the freed id as well as down to it.     *)
CloseRaisesNext(id) ==
  LET o == ipc_objects[id]
      last == refcount[o] = 1
  IN /\ o # NULL
     /\ closes' = [closes EXCEPT ![o] = @ + 1]
     /\ refcount' = [refcount EXCEPT ![o] = @ - 1]
     /\ stage' = IF last THEN [stage EXCEPT ![o] = "freed"] ELSE stage
     /\ ipc_objects' = IF last THEN [ipc_objects EXCEPT ![id] = NULL]
                               ELSE ipc_objects
     /\ next_ipc_id' = IF last THEN id ELSE next_ipc_id
     /\ UNCHANGED <<type, pinned, pc, ptr>>

(* soiav_ipc_close of a mapped id, all of it under ipc_table_lock.         *)
Close(id) ==
  LET o == ipc_objects[id]
      last == refcount[o] = 1
  IN /\ o # NULL
     /\ closes' = [closes EXCEPT ![o] = @ + 1]
     /\ refcount' = [refcount EXCEPT ![o] = @ - 1]
     /\ stage' = IF last THEN [stage EXCEPT ![o] = "freed"] ELSE stage
     /\ ipc_objects' = IF last THEN [ipc_objects EXCEPT ![id] = NULL]
                               ELSE ipc_objects
     /\ next_ipc_id' = IF last /\ id < next_ipc_id THEN id ELSE next_ipc_id
     /\ UNCHANGED <<type, pinned, pc, ptr>>

CloseCall(p, id) ==
  /\ pc[p] = "idle" /\ unload = -1
  /\ ipc_objects[id] # NULL => closes[ipc_objects[id]] < MaxCloses
  /\ Close(id)
  /\ UNCHANGED unload

(* module_exit.  The module loader runs it once no caller is left inside.  *)
ExitBegin ==
  /\ unload = -1
  /\ \A p \in Procs : pc[p] = "idle"
  /\ unload' = 0
  /\ UNCHANGED <<ipc_objects, next_ipc_id, objects, pc, ptr>>

ExitStep ==
  /\ unload \in Ids
  /\ unload' = unload + 1
  /\ IF ipc_objects[unload] = NULL
       THEN UNCHANGED <<ipc_objects, next_ipc_id, objects, pc, ptr>>
       ELSE Close(unload)

Next ==
  \/ ExitBegin
  \/ ExitStep
  \/ \E p \in Procs :
       \/ CreateAlloc(p) \/ CreateInstall(p) \/ CreateNoSpace(p)
       \/ Finish(p) \/ AttachFinish(p)
       \/ \E id \in Ids : Lookup(p, id) \/ CloseCall(p, id)

Spec == Init /\ [][Next]_vars

-----------------------------------------------------------------------------
TypeOK ==
  /\ ipc_objects \in [Ids -> Objs \cup {NULL}]
  /\ next_ipc_id \in 1 .. MAX_IPC_OBJECTS
  /\ stage \in [Objs -> {"free", "new", "mapped", "freed"}]
  /\ type \in [Objs -> Types]
  /\ refcount \in [Objs -> Int]
  /\ pinned \in [Objs -> 0 .. MaxPins]
  /\ closes \in [Objs -> 0 .. MaxCloses + 1]
  /\ pc \in [Procs -> {"idle", "create", "op"}]
  /\ ptr \in [Procs -> Objs \cup {NULL}]
  /\ \A p \in Procs : pc[p] = "idle" <=> ptr[p] = NULL
  /\ unload \in -1 .. MAX_IPC_OBJECTS

(* The table maps exactly the live objects, each under one id: no entry is  *)
(* left pointing to freed memory and no create overwrites an entry, however *)
(* the search for an id, close and exit interleave.                         *)
TableSound ==
  /\ \A id \in Ids : ipc_objects[id] # NULL => stage[ipc_objects[id]] = "mapped"
  /\ \A i, j \in Ids : ipc_objects[i] # NULL /\ ipc_objects[i] = ipc_objects[j]
                        => i = j
  /\ \A o \in Objs : stage[o] = "mapped" => \E id \in Ids : ipc_objects[id] = o

(* The types and the table together, as every call finds them.               *)
TableConsistent == TypeOK /\ TableSound

(* next_ipc_id is a hint and never hides a free id: when the search of a    *)
(* create call fails with -ENOSPC, every id from 1 on is in use.            *)
EnospcOnlyWhenFull ==
  FreeIds = {} => \A id \in Ids \ {0} : ipc_objects[id] # NULL

(* Each allocation lives the life of an IpcObject.  The exit routine may    *)
(* close an object once more than the callers did.                          *)
Obj(o) == INSTANCE IpcObject WITH
  stage <- IF stage[o] = "free" THEN "new" ELSE stage[o],
  refcount <- refcount[o], pinned <- pinned[o], closes <- closes[o],
  holders <- Holders(o), MaxCloses <- MaxCloses + 1

(* Every step of the table is, for every object, a step of its life or     *)
(* leaves it alone.                                                        *)
ImplementsObject ==
  /\ \A o \in Objs : Obj(o)!ObjInit
  /\ [][\A o \in Objs : [Obj(o)!ObjNext]_(Obj(o)!objVars)]_vars

(* IpcObject!RefcountAccounting, of every object in the table: the creator, *)
(* the operations in flight and the attachments, less the closes.          *)
RefcountsRight ==
  \A o \in Objs : stage[o] = "mapped" =>
    refcount[o] = 1 + Cardinality(Holders(o)) + pinned[o] - closes[o]

(* IpcObject!NoUseAfterFree, of every object: with concurrent lookups,     *)
(* attaches and closes through any id, and the module exit.                *)
NoUseAfterFree == \A o \in Objs : Obj(o)!NoUseAfterFree

(* What the comments of soiav_ipc_close say: closing an object releases it. *)
CloseReleases == \A o \in Objs : stage[o] # "free" => Obj(o)!CloseReleases
=============================================================================
