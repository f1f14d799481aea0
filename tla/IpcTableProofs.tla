---------------------------- MODULE IpcTableProofs ----------------------------
(***************************************************************************)
(* Theorems about IpcTable, for tables of any length and any number of      *)
(* threads and objects: the table maps exactly the live objects, -ENOSPC    *)
(* means full, and every object lives as IpcObject says.                   *)
(***************************************************************************)
EXTENDS IpcTable, FiniteSetTheorems, TLAPS

(* The inductive invariant.  Below next_ipc_id no id but 0 is free; what a  *)
(* create call allocated is its own until it is installed; and the bound on *)
(* the calls of soiav_ipc_close leaves room for the one of the unload.      *)
IdsDense ==
  /\ ipc_objects[0] = NULL
  /\ \A id \in Ids : 0 < id /\ id < next_ipc_id => ipc_objects[id] # NULL

CreatesApart ==
  /\ \A p \in Procs : pc[p] = "create" => stage[ptr[p]] = "new"
  /\ \A p, q \in Procs :
       pc[p] = "create" /\ pc[q] = "create" /\ ptr[p] = ptr[q] => p = q

ClosesBounded ==
  /\ \A id \in Ids : ipc_objects[id] # NULL /\ id >= unload
                       => closes[ipc_objects[id]] <= MaxCloses
  /\ \A o \in Objs : stage[o] \in {"free", "new"} => closes[o] = 0
  /\ unload >= 0 => \A p \in Procs : pc[p] = "idle"

TableInv == TypeOK /\ TableSound /\ IdsDense /\ CreatesApart /\ ClosesBounded

LEMMA TableInvInit == Init => TableInv
BY TableAssumption
DEF Init, TableInv, TypeOK, TableSound, IdsDense, CreatesApart, ClosesBounded,
    Ids, Types

(* Removing or keeping an object: the shared part of a call of              *)
(* soiav_ipc_close and of a step of the unload.                            *)
LEMMA CloseKeeps ==
  ASSUME TableInv, NEW id \in Ids, Close(id),
         \/ closes[ipc_objects[id]] < MaxCloses /\ unload' = unload
         \/ unload = id /\ unload' = id + 1,
         unload' >= 0 => \A p \in Procs : pc[p] = "idle"
  PROVE  TableInv'
<1> DEFINE o == ipc_objects[id]
<1> USE TableAssumption
<1>1. o \in Objs /\ stage[o] = "mapped"
  BY DEF Close, TableInv, TypeOK, TableSound
<1>2. TypeOK'
  <2>1. closes[o] \in 0 .. MaxCloses
    BY <1>1 DEF TableInv, TypeOK, ClosesBounded, Ids
  <2>2. closes' \in [Objs -> 0 .. MaxCloses + 1]
    BY <1>1, <2>1 DEF Close, TableInv, TypeOK
  <2>3. id # 0
    BY <1>1 DEF Close, TableInv, IdsDense
  <2>4. next_ipc_id' \in 1 .. MAX_IPC_OBJECTS /\ unload' \in -1 .. MAX_IPC_OBJECTS
    BY <2>3, SMTT(30) DEF Close, TableInv, TypeOK, Ids
  <2>5. QED
    BY <1>1, <2>2, <2>4 DEF Close, TableInv, TypeOK
<1>3. TableSound'
  <2>1. CASE refcount[o] = 1
    BY <1>1, <2>1 DEF Close, TableInv, TypeOK, TableSound
  <2>2. CASE refcount[o] # 1
    BY <1>1, <2>2 DEF Close, TableInv, TypeOK, TableSound
  <2>3. QED
    BY <2>1, <2>2
<1>4. IdsDense'
  BY <1>1, SMTT(30) DEF Close, TableInv, TypeOK, IdsDense, Ids
<1>5. CreatesApart'
  BY <1>1 DEF Close, TableInv, TypeOK, CreatesApart
<1>6. ClosesBounded'
  <2>1. ASSUME NEW i \in Ids, ipc_objects'[i] # NULL, i >= unload'
        PROVE  closes'[ipc_objects'[i]] <= MaxCloses
    <3>1. ipc_objects'[i] = ipc_objects[i] /\ ipc_objects[i] \in Objs
      BY <1>1, <2>1 DEF Close, TableInv, TypeOK
    <3>2. closes[ipc_objects[i]] \in Nat /\ closes[o] \in Nat
      BY <1>1, <3>1 DEF TableInv, TypeOK
    <3>3. i >= unload
      BY <2>1 DEF TableInv, TypeOK, Ids
    <3>4. closes[ipc_objects[i]] <= MaxCloses
      BY <2>1, <3>1, <3>3 DEF TableInv, ClosesBounded
    <3>5. CASE i = id
      <4>1. closes[o] < MaxCloses
        BY <2>1, <3>5 DEF Ids
      <4>2. closes'[o] = closes[o] + 1
        BY <1>1 DEF Close, TableInv, TypeOK
      <4>3. QED
        BY <3>1, <3>2, <3>5, <4>1, <4>2
    <3>6. CASE i # id
      <4>1. ipc_objects[i] # o
        BY <1>1, <2>1, <3>1, <3>6 DEF TableInv, TableSound
      <4>2. closes'[ipc_objects[i]] = closes[ipc_objects[i]]
        BY <1>1, <3>1, <4>1 DEF Close, TableInv, TypeOK
      <4>3. QED
        BY <3>1, <3>4, <4>2
    <3>7. QED
      BY <3>5, <3>6
  <2>2. ASSUME NEW x \in Objs, stage'[x] \in {"free", "new"}
        PROVE  closes'[x] = 0
    BY <1>1, <2>2 DEF Close, TableInv, TypeOK, ClosesBounded
  <2>3. QED
    BY <2>1, <2>2 DEF Close, ClosesBounded
<1>7. QED
  BY <1>2, <1>3, <1>4, <1>5, <1>6 DEF TableInv

LEMMA TableInvNext == TableInv /\ [Next]_vars => TableInv'
<1> SUFFICES ASSUME TableInv, [Next]_vars PROVE TableInv'
  OBVIOUS
<1> USE TableAssumption
    DEF TableInv, TypeOK, TableSound, IdsDense, CreatesApart, ClosesBounded,
        Ids, Types, Goto, objects
<1>1. ASSUME NEW p \in Procs, CreateAlloc(p) PROVE TableInv'
  BY <1>1 DEF CreateAlloc
<1>2. ASSUME NEW p \in Procs, CreateInstall(p) PROVE TableInv'
  BY <1>2, SMTT(30) DEF CreateInstall, FreeIds
<1>3. ASSUME NEW p \in Procs, CreateNoSpace(p) PROVE TableInv'
  BY <1>3 DEF CreateNoSpace
<1>4. ASSUME NEW p \in Procs, NEW id \in Ids, Lookup(p, id) PROVE TableInv'
  BY <1>4, SMTT(30) DEF Lookup
<1>5. ASSUME NEW p \in Procs, Finish(p) PROVE TableInv'
  BY <1>5 DEF Finish
<1>6. ASSUME NEW p \in Procs, AttachFinish(p) PROVE TableInv'
  BY <1>6 DEF AttachFinish
<1>7. ASSUME NEW p \in Procs, NEW id \in Ids, CloseCall(p, id) PROVE TableInv'
  <2>1. Close(id) /\ closes[ipc_objects[id]] < MaxCloses /\ unload' = unload
    BY <1>7 DEF CloseCall, Close
  <2>2. ~(unload' >= 0)
    BY <1>7, <2>1 DEF CloseCall
  <2>3. QED
    BY <2>1, <2>2, CloseKeeps
<1>8. CASE ExitBegin
  BY <1>8 DEF ExitBegin
<1>9. CASE ExitStep
  <2>1. CASE ipc_objects[unload] = NULL
    BY <1>9, <2>1 DEF ExitStep
  <2>2. CASE ipc_objects[unload] # NULL
    <3>1. unload \in Ids /\ Close(unload) /\ unload' = unload + 1
      BY <1>9, <2>2 DEF ExitStep
    <3>2. \A p \in Procs : pc[p] = "idle"
      BY <3>1
    <3>3. QED
      BY <3>1, <3>2, CloseKeeps
  <2>3. QED
    BY <2>1, <2>2
<1>10. CASE UNCHANGED vars
  BY <1>10 DEF vars
<1>11. QED
  BY <1>1, <1>2, <1>3, <1>4, <1>5, <1>6, <1>7, <1>8, <1>9, <1>10 DEF Next

LEMMA TableInvariant == Spec => []TableInv
BY TableInvInit, TableInvNext, PTL DEF Spec

-----------------------------------------------------------------------------
(* The variables of the table keep their types.                            *)
THEOREM TableTypeCorrect == Spec => []TypeOK
<1>1. TableInv => TypeOK
  BY DEF TableInv
<1>2. QED
  BY <1>1, TableInvariant, PTL

(* No entry dangles, no object is mapped twice, none is mapped nowhere.    *)
THEOREM TableIsSound == Spec => []TableSound
<1>1. TableInv => TableSound
  BY DEF TableInv
<1>2. QED
  BY <1>1, TableInvariant, PTL

(* Both at once: what create, lookup and close find and leave (IpcTable).      *)
THEOREM TableIsConsistent == Spec => []TableConsistent
<1>1. TypeOK /\ TableSound => TableConsistent
  BY DEF TableConsistent
<1>2. QED
  BY <1>1, TableTypeCorrect, TableIsSound, PTL

(* A create call that finds no id is right: every id is in use.            *)
THEOREM TableEnospc == Spec => []EnospcOnlyWhenFull
<1>1. TableInv => EnospcOnlyWhenFull
  <2> SUFFICES ASSUME TableInv, FreeIds = {}, NEW id \in Ids \ {0},
                      ipc_objects[id] = NULL
               PROVE  FALSE
    BY DEF EnospcOnlyWhenFull
  <2>1. id >= next_ipc_id
    BY TableAssumption DEF TableInv, TypeOK, IdsDense, Ids
  <2>2. id \in FreeIds
    BY <2>1 DEF FreeIds
  <2>3. QED
    BY <2>2
<1>2. QED
  BY <1>1, TableInvariant, PTL

-----------------------------------------------------------------------------
(* Whose operations an action changes: a thread enters the object its id    *)
(* names, or leaves the one it was in.                                     *)
LEMMA LookupHolders ==
  ASSUME TableInv, NEW p \in Procs, NEW id \in Ids, Lookup(p, id), NEW o \in Objs
  PROVE  /\ p \notin Holders(o)
         /\ Holders(o)' = IF o = ipc_objects[id] THEN Holders(o) \cup {p}
                                                ELSE Holders(o)
BY DEF Lookup, Goto, Holders, TableInv, TypeOK

LEMMA LeaveHolders ==
  ASSUME TableInv, NEW p \in Procs, pc[p] = "op", Goto(p, "idle", NULL),
         NEW o \in Objs
  PROVE  /\ p \in Holders(o) <=> o = ptr[p]
         /\ Holders(o)' = Holders(o) \ {p}
BY DEF Goto, Holders, TableInv, TypeOK

LEMMA OtherHolders ==
  ASSUME TableInv, NEW o \in Objs,
         \/ UNCHANGED <<pc, ptr>>
         \/ \E p \in Procs, x \in Objs : pc[p] = "idle" /\ Goto(p, "create", x)
         \/ \E p \in Procs : pc[p] = "create" /\ Goto(p, "idle", NULL)
  PROVE  Holders(o)' = Holders(o)
BY DEF Goto, Holders, TableInv, TypeOK

(* What a step of the table is for one object.                             *)
LEMMA CloseIsObjClose ==
  ASSUME TableInv, NEW id \in Ids, Close(id), NEW o \in Objs,
         closes[ipc_objects[id]] <= MaxCloses
  PROVE  [Obj(o)!ObjNext]_(Obj(o)!objVars)
<1>1. ipc_objects[id] \in Objs /\ stage[ipc_objects[id]] = "mapped"
  BY DEF Close, TableInv, TypeOK, TableSound
<1>2. Holders(o)' = Holders(o)
  BY OtherHolders DEF Close
<1>3. CASE o # ipc_objects[id]
  BY <1>1, <1>2, <1>3 DEF Close, TableInv, TypeOK, Obj!objVars
<1>4. CASE o = ipc_objects[id] /\ refcount[o] = 1
  <2>1. Obj(o)!CloseLast
    BY <1>1, <1>2, <1>4, TableAssumption
    DEF Close, TableInv, TypeOK, Obj!CloseLast
  <2>2. QED
    BY <2>1 DEF Obj!ObjNext, Obj!Close
<1>5. CASE o = ipc_objects[id] /\ refcount[o] # 1
  <2>1. Obj(o)!CloseDrop
    BY <1>1, <1>2, <1>5, TableAssumption
    DEF Close, TableInv, TypeOK, Obj!CloseDrop
  <2>2. QED
    BY <2>1 DEF Obj!ObjNext, Obj!Close
<1>6. QED
  BY <1>3, <1>4, <1>5

LEMMA TableStepIsObjStep ==
  ASSUME TableInv, [Next]_vars, NEW o \in Objs
  PROVE  [Obj(o)!ObjNext]_(Obj(o)!objVars)
<1> USE DEF Obj!objVars
<1>1. ASSUME NEW p \in Procs, CreateAlloc(p) PROVE UNCHANGED Obj(o)!objVars
  <2>1. Holders(o)' = Holders(o)
    BY <1>1, OtherHolders DEF CreateAlloc
  <2>2. QED
    BY <1>1, <2>1 DEF CreateAlloc, TableInv, TypeOK
<1>2. ASSUME NEW p \in Procs, CreateInstall(p)
      PROVE  [Obj(o)!ObjNext]_(Obj(o)!objVars)
  <2>1. Holders(o)' = Holders(o)
    BY <1>2, OtherHolders DEF CreateInstall
  <2>2. CASE o = ptr[p]
    BY <1>2, <2>1, <2>2
    DEF CreateInstall, TableInv, TypeOK, CreatesApart, Obj!ObjNext, Obj!Install
  <2>3. CASE o # ptr[p]
    BY <1>2, <2>1, <2>3 DEF CreateInstall, TableInv, TypeOK
  <2>4. QED
    BY <2>2, <2>3
<1>3. ASSUME NEW p \in Procs, CreateNoSpace(p)
      PROVE  [Obj(o)!ObjNext]_(Obj(o)!objVars)
  <2>1. Holders(o)' = Holders(o)
    BY <1>3, OtherHolders DEF CreateNoSpace
  <2>2. CASE o = ptr[p]
    BY <1>3, <2>1, <2>2
    DEF CreateNoSpace, TableInv, TypeOK, CreatesApart, Obj!ObjNext, Obj!Discard
  <2>3. CASE o # ptr[p]
    BY <1>3, <2>1, <2>3 DEF CreateNoSpace, TableInv, TypeOK
  <2>4. QED
    BY <2>2, <2>3
<1>4. ASSUME NEW p \in Procs, NEW id \in Ids, Lookup(p, id)
      PROVE  [Obj(o)!ObjNext]_(Obj(o)!objVars)
  <2>1. CASE o = ipc_objects[id]
    <3>1. p \notin Holders(o) /\ Holders(o)' = Holders(o) \cup {p}
      BY <1>4, <2>1, LookupHolders
    <3>2. stage[o] = "mapped"
      BY <1>4, <2>1 DEF Lookup, TableInv, TableSound
    <3>3. /\ refcount'[o] = refcount[o] + 1
          /\ UNCHANGED <<stage, pinned, closes>>
      BY <1>4, <2>1 DEF Lookup, TableInv, TypeOK
    <3>4. Obj(o)!Acquire(p)
      BY <3>1, <3>2, <3>3 DEF Obj!Acquire
    <3>5. QED
      BY <3>4 DEF Obj!ObjNext
  <2>2. CASE o # ipc_objects[id]
    BY <1>4, <2>2, LookupHolders, ZenonT(30) DEF Lookup, TableInv, TypeOK
  <2>3. QED
    BY <2>1, <2>2
<1>5. ASSUME NEW p \in Procs, Finish(p) PROVE [Obj(o)!ObjNext]_(Obj(o)!objVars)
  <2>1. CASE o = ptr[p]
    <3>1. Obj(o)!Release(p)
      BY <1>5, <2>1, LeaveHolders DEF Finish, TableInv, TypeOK, Obj!Release
    <3>2. QED
      BY <3>1 DEF Obj!ObjNext
  <2>2. CASE o # ptr[p]
    <3>1. Holders(o)' = Holders(o)
      BY <1>5, <2>2, LeaveHolders DEF Finish
    <3>2. QED
      BY <1>5, <2>2, <3>1 DEF Finish, TableInv, TypeOK
  <2>3. QED
    BY <2>1, <2>2
<1>6. ASSUME NEW p \in Procs, AttachFinish(p)
      PROVE  [Obj(o)!ObjNext]_(Obj(o)!objVars)
  <2>1. CASE o = ptr[p]
    <3>1. Obj(o)!Pin(p)
      BY <1>6, <2>1, LeaveHolders DEF AttachFinish, TableInv, TypeOK, Obj!Pin
    <3>2. QED
      BY <3>1 DEF Obj!ObjNext
  <2>2. CASE o # ptr[p]
    <3>1. Holders(o)' = Holders(o)
      BY <1>6, <2>2, LeaveHolders DEF AttachFinish
    <3>2. QED
      BY <1>6, <2>2, <3>1 DEF AttachFinish, TableInv, TypeOK
  <2>3. QED
    BY <2>1, <2>2
<1>7. ASSUME NEW p \in Procs, NEW id \in Ids, CloseCall(p, id)
      PROVE  [Obj(o)!ObjNext]_(Obj(o)!objVars)
  <2>1. Close(id) /\ closes[ipc_objects[id]] <= MaxCloses
    BY <1>7, TableAssumption
    DEF CloseCall, Close, TableInv, TypeOK
  <2>2. QED
    BY <2>1, CloseIsObjClose
<1>8. CASE ExitStep /\ ipc_objects[unload] # NULL
  <2>1. unload \in Ids /\ Close(unload) /\ closes[ipc_objects[unload]] <= MaxCloses
    BY <1>8 DEF ExitStep, TableInv, ClosesBounded, Ids
  <2>2. QED
    BY <2>1, CloseIsObjClose
<1>9. CASE \/ ExitBegin
           \/ ExitStep /\ ipc_objects[unload] = NULL
           \/ UNCHANGED vars
  <2>1. UNCHANGED <<objects, pc, ptr>>
    BY <1>9 DEF ExitBegin, ExitStep, vars, objects
  <2>2. QED
    BY <2>1, OtherHolders DEF objects
<1>10. QED
  BY <1>1, <1>2, <1>3, <1>4, <1>5, <1>6, <1>7, <1>8, <1>9 DEF Next

-----------------------------------------------------------------------------
(* Every object in the table lives the life that IpcObject describes.      *)
THEOREM TableImplementsObject == Spec => ImplementsObject
<1>1. Init => \A o \in Objs : Obj(o)!ObjInit
  BY DEF Init, Obj!ObjInit, Holders
<1>2. TableInv /\ [Next]_vars
        => [\A o \in Objs : [Obj(o)!ObjNext]_(Obj(o)!objVars)]_vars
  BY TableStepIsObjStep
<1>3. QED
  BY <1>1, <1>2, TableInvariant, PTL DEF Spec, ImplementsObject

(* The invariant of one object's life, as in IpcQueueProofs.               *)
Accounted(o) ==
  /\ stage[o] = "mapped"
       => refcount[o] = 1 + Cardinality(Holders(o)) + pinned[o] - closes[o]
  /\ stage[o] \in {"free", "new"} \/ (stage[o] = "freed" /\ closes[o] = 0)
       => Holders(o) = {} /\ pinned[o] = 0 /\ closes[o] = 0
  /\ stage[o] = "freed" /\ closes[o] > 0
       => closes[o] >= 1 + pinned[o] + Cardinality(Holders(o))

LEMMA HoldersCount ==
  ASSUME NEW o \in Objs
  PROVE  /\ IsFiniteSet(Holders(o))
         /\ Cardinality(Holders(o)) \in Nat
         /\ \A p \in Procs :
              /\ p \notin Holders(o) =>
                   Cardinality(Holders(o) \cup {p}) = Cardinality(Holders(o)) + 1
              /\ p \in Holders(o) =>
                   Cardinality(Holders(o) \ {p}) = Cardinality(Holders(o)) - 1
<1>1. Holders(o) \subseteq Procs
  BY DEF Holders
<1>2. IsFiniteSet(Holders(o))
  BY <1>1, TableAssumption, FS_Subset
<1>3. QED
  BY <1>2, FS_CardinalityType, FS_AddElement, FS_RemoveElement

LEMMA AccountedNext ==
  ASSUME TableInv, [Next]_vars, NEW o \in Objs, Accounted(o)
  PROVE  Accounted(o)'
<1>1. [Obj(o)!ObjNext]_(Obj(o)!objVars)
  BY TableStepIsObjStep
<1>2. TableInv'
  BY TableInvNext
<1>3. /\ stage[o] \in {"free", "new", "mapped", "freed"}
      /\ stage'[o] \in {"free", "new", "mapped", "freed"}
      /\ refcount[o] \in Int /\ closes[o] \in Nat /\ pinned[o] \in Nat
  BY <1>2, TableAssumption DEF TableInv, TypeOK
<1>4. Cardinality({}) = 0
  BY FS_EmptySet
<1> USE <1>3, <1>4, HoldersCount DEF Accounted
<1>5. CASE Obj(o)!Install
  <2>1. /\ stage'[o] = "mapped" /\ refcount'[o] = 1
        /\ Holders(o)' = {} /\ pinned'[o] = 0 /\ closes'[o] = 0
    BY <1>5 DEF Obj!Install
  <2>2. QED
    BY <2>1
<1>6. CASE Obj(o)!Discard
  BY <1>6 DEF Obj!Discard
<1>7. CASE Obj(o)!CloseDrop
  BY <1>7 DEF Obj!CloseDrop
<1>8. CASE Obj(o)!CloseLast
  BY <1>8 DEF Obj!CloseLast
<1>9. ASSUME NEW p \in Procs, Obj(o)!Acquire(p) PROVE Accounted(o)'
  BY <1>9 DEF Obj!Acquire
<1>10. ASSUME NEW p \in Procs, Obj(o)!Release(p) PROVE Accounted(o)'
  BY <1>10 DEF Obj!Release
<1>11. ASSUME NEW p \in Procs, Obj(o)!Pin(p) PROVE Accounted(o)'
  BY <1>11 DEF Obj!Pin
<1>12. CASE UNCHANGED Obj(o)!objVars
  BY <1>12 DEF Obj!objVars
<1>13. QED
  BY <1>1, <1>5, <1>6, <1>7, <1>8, <1>9, <1>10, <1>11, <1>12
  DEF Obj!ObjNext, Obj!Close

LEMMA AccountedInvariant == Spec => [](\A o \in Objs : Accounted(o))
<1>1. Init => \A o \in Objs : Accounted(o)
  BY DEF Init, Accounted, Holders
<1>2. TableInv /\ (\A o \in Objs : Accounted(o)) /\ [Next]_vars
        => (\A o \in Objs : Accounted(o))'
  BY AccountedNext
<1>3. QED
  BY <1>1, <1>2, TableInvariant, PTL DEF Spec

(* The reference count of every object in the table is right, whatever the  *)
(* threads do.                                                             *)
THEOREM TableRefcounts == Spec => []RefcountsRight
<1>1. (\A o \in Objs : Accounted(o)) => RefcountsRight
  BY DEF Accounted, RefcountsRight
<1>2. QED
  BY <1>1, AccountedInvariant, PTL

(* No object is freed under an operation while each object is closed at     *)
(* most once more often than it was attached.                              *)
THEOREM TableNoUseAfterFree == Spec => []NoUseAfterFree
<1>1. TableInv /\ (\A o \in Objs : Accounted(o)) => NoUseAfterFree
  <2> SUFFICES ASSUME TableInv, NEW o \in Objs, Accounted(o),
                      stage[o] = "freed", closes[o] <= 1 + pinned[o]
               PROVE  Holders(o) = {}
    BY DEF NoUseAfterFree, Obj!NoUseAfterFree
  <2>1. closes[o] \in Nat /\ pinned[o] \in Nat
    BY TableAssumption DEF TableInv, TypeOK
  <2>2. closes[o] = 0 \/ Cardinality(Holders(o)) = 0
    BY <2>1, HoldersCount DEF Accounted
  <2>3. QED
    BY <2>1, <2>2, HoldersCount, FS_EmptySet DEF Accounted
<1>2. QED
  BY <1>1, TableInvariant, AccountedInvariant, PTL
=============================================================================
