---------------------------- MODULE IpcQueueProofs ----------------------------
(***************************************************************************)
(* Theorems about IpcObject, for any number of threads, closes and          *)
(* attachments: the reference count is right, and no object is freed under  *)
(* an operation.  And about IpcQueue, for any number of threads, messages   *)
(* and places: its object lives as IpcObject says, no thread inside loses   *)
(* the queue, no wake-up is lost, and what threads see is a bounded FIFO    *)
(* channel.                                                                *)
(***************************************************************************)
EXTENDS IpcQueue, FiniteSetTheorems, TLAPS

(* The inductive invariant.  Accounting says nothing once the object is     *)
(* freed, so the last two parts remember how it got there: a discarded      *)
(* object was never used, a closed one was closed once for its creation and *)
(* once for every attachment and every thread still inside.                *)
ObjInv ==
  /\ ObjTypeOK
  /\ RefcountAccounting
  /\ stage = "new" \/ (stage = "freed" /\ closes = 0)
       => holders = {} /\ pinned = 0 /\ closes = 0
  /\ stage = "freed" /\ closes > 0
       => closes >= 1 + pinned + Cardinality(holders)

(* What a thread that comes or goes does to the number of threads inside.  *)
LEMMA HoldersCount ==
  ASSUME ObjTypeOK, NEW p \in Procs
  PROVE  /\ Cardinality(holders) \in Nat
         /\ p \notin holders =>
              Cardinality(holders \cup {p}) = Cardinality(holders) + 1
         /\ p \in holders =>
              Cardinality(holders \ {p}) = Cardinality(holders) - 1
<1>1. IsFiniteSet(holders)
  BY ObjectAssumption, FS_Subset DEF ObjTypeOK
<1>2. QED
  BY <1>1, FS_CardinalityType, FS_AddElement, FS_RemoveElement

LEMMA ObjInvInit == ObjInit => ObjInv
BY ObjectAssumption DEF ObjInit, ObjInv, ObjTypeOK, RefcountAccounting

LEMMA ObjInvNext == ObjInv /\ [ObjNext]_objVars => ObjInv'
<1> SUFFICES ASSUME ObjInv, [ObjNext]_objVars PROVE ObjInv'
  OBVIOUS
<1> USE ObjectAssumption DEF ObjInv, ObjTypeOK, RefcountAccounting
<1>0. Cardinality({}) = 0 /\ Cardinality(holders) \in Nat
  BY FS_EmptySet, FS_Subset, FS_CardinalityType
<1>1. CASE Install
  BY <1>0, <1>1 DEF Install
<1>2. CASE Discard
  BY <1>0, <1>2 DEF Discard
<1>3. CASE CloseDrop
  BY <1>0, <1>3 DEF CloseDrop
<1>4. CASE CloseLast
  BY <1>0, <1>4 DEF CloseLast
<1>5. ASSUME NEW p \in Procs, Acquire(p) PROVE ObjInv'
  BY <1>0, <1>5, HoldersCount DEF Acquire
<1>6. ASSUME NEW p \in Procs, Release(p) PROVE ObjInv'
  BY <1>0, <1>6, HoldersCount DEF Release
<1>7. ASSUME NEW p \in Procs, Pin(p) PROVE ObjInv'
  BY <1>0, <1>7, HoldersCount DEF Pin
<1>8. CASE UNCHANGED objVars
  BY <1>8 DEF objVars
<1>9. QED
  BY <1>1, <1>2, <1>3, <1>4, <1>5, <1>6, <1>7, <1>8 DEF ObjNext, Close

LEMMA ObjInvariant == ObjSpec => []ObjInv
BY ObjInvInit, ObjInvNext, PTL DEF ObjSpec

(* The variables of an object keep their types.                            *)
THEOREM ObjTypeCorrect == ObjSpec => []ObjTypeOK
<1>1. ObjInv => ObjTypeOK
  BY DEF ObjInv
<1>2. QED
  BY <1>1, ObjInvariant, PTL

(* The reference count of a mapped object is exactly what is still owed: no *)
(* path gives a reference back twice or keeps one by mistake.              *)
THEOREM ObjAccounting == ObjSpec => []RefcountAccounting
<1>1. ObjInv => RefcountAccounting
  BY DEF ObjInv
<1>2. QED
  BY <1>1, ObjInvariant, PTL

(* An operation never has its object freed under it while the object is     *)
(* closed at most once more often than it was attached.                    *)
THEOREM ObjNoUseAfterFree == ObjSpec => []NoUseAfterFree
<1>1. ObjInv => NoUseAfterFree
  <2> SUFFICES ASSUME ObjInv, stage = "freed", closes <= 1 + pinned
               PROVE  holders = {}
    BY DEF NoUseAfterFree
  <2>1. IsFiniteSet(holders)
    BY ObjectAssumption, FS_Subset DEF ObjInv, ObjTypeOK
  <2>2. CASE closes = 0
    BY <2>2 DEF ObjInv
  <2>3. CASE closes > 0
    <3>1. Cardinality(holders) = 0
      BY <2>1, <2>3, FS_CardinalityType, ObjectAssumption
      DEF ObjInv, ObjTypeOK
    <3>2. QED
      BY <2>1, <3>1, FS_EmptySet
  <2>4. QED
    BY <2>2, <2>3, ObjectAssumption DEF ObjInv, ObjTypeOK
<1>2. QED
  BY <1>1, ObjInvariant, PTL

-----------------------------------------------------------------------------

Inside == {p \in Procs : pc[p] # "idle"}

(* The inductive invariant: the threads inside are the holders of the       *)
(* object's references, the count is the length of the list, and a thread   *)
(* about to queue a message has one.  WakeupPending is inductive with it.  *)
QueueInv ==
  /\ ObjInv
  /\ TypeOK
  /\ holders = Inside /\ pinned = 0
  /\ count = Len(messages)
  /\ \A p \in Procs : pc[p] = "send" => msg[p] \in Msgs
  /\ WakeupPending

-----------------------------------------------------------------------------
(* The object's part of every step is a step of IpcObject.                 *)
LEMMA QueueStepIsObjStep == [Next]_vars => [ObjNext]_objVars
<1> SUFFICES ASSUME [Next]_vars PROVE [ObjNext]_objVars
  OBVIOUS
<1>1. CASE Create
  BY <1>1 DEF Create, ObjNext
<1>2. CASE CloseQueue
  BY <1>2 DEF CloseQueue, ObjNext, Close
<1>3. ASSUME NEW p \in Procs, Leave(p) PROVE ObjNext
  BY <1>3 DEF Leave, ObjNext
<1>4. ASSUME NEW p \in Procs, NEW m \in Msgs, SendEnter(p, m) PROVE ObjNext
  BY <1>4 DEF SendEnter, ObjNext
<1>5. ASSUME NEW p \in Procs, RecvEnter(p) PROVE ObjNext
  BY <1>5 DEF RecvEnter, ObjNext
<1>6. ASSUME NEW p \in Procs,
             \/ SendFail(p) \/ SendFull(p) \/ SendPut(p) \/ SendWake(p)
             \/ RecvTake(p) \/ RecvNoWait(p) \/ RecvBlock(p)
             \/ RecvTestWait(p) \/ RecvSignal(p)
      PROVE  UNCHANGED objVars
  BY <1>6 DEF SendFail, SendFull, SendPut, SendWake, RecvTake, RecvNoWait,
              RecvBlock, RecvTestWait, RecvSignal
<1>7. ASSUME NEW p \in Procs, Refuse(p) PROVE UNCHANGED objVars
  BY <1>7 DEF Refuse, vars
<1>8. CASE UNCHANGED vars
  BY <1>8 DEF vars
<1>9. QED
  BY <1>1, <1>2, <1>3, <1>4, <1>5, <1>6, <1>7, <1>8 DEF Next, Advance

LEMMA QueueInvInit == Init => QueueInv
BY ObjInvInit, QueueAssumption, ObjectAssumption
DEF Init, QueueInv, TypeOK, ObjInit, ObjInv, Inside, WakeupPending

LEMMA QueueInvNext == QueueInv /\ [Next]_vars => QueueInv'
<1> SUFFICES ASSUME QueueInv, [Next]_vars PROVE QueueInv'
  OBVIOUS
<1>1. ObjInv' /\ ObjTypeOK'
  BY QueueStepIsObjStep, ObjInvNext DEF QueueInv, ObjInv
<1> USE <1>1, QueueAssumption
    DEF QueueInv, TypeOK, Inside, WakeupPending, Goto, queue
<1>2. CASE Create
  BY <1>2 DEF Create, Install
<1>3. CASE CloseQueue
  <2>1. holders' = holders /\ pinned' = pinned /\ UNCHANGED <<pc, msg>>
    BY <1>3 DEF CloseQueue, CloseDrop, CloseLast
  <2>2. UNCHANGED queue \/ (messages' = <<>> /\ count' = 0)
    BY <1>3 DEF CloseQueue
  <2>3. CASE UNCHANGED queue
    BY <2>1, <2>3
  <2>4. CASE messages' = <<>> /\ count' = 0
    <3>1. messages' \in Seq(Msgs) /\ Len(messages') = 0
      BY <2>4
    <3>2. QED
      BY <2>1, <2>4, <3>1
  <2>5. QED
    BY <2>2, <2>3, <2>4
<1>4. ASSUME NEW p \in Procs, Leave(p) PROVE QueueInv'
  BY <1>4 DEF Leave, Release
<1>5. ASSUME NEW p \in Procs, NEW m \in Msgs, SendEnter(p, m) PROVE QueueInv'
  BY <1>5 DEF SendEnter, Acquire
<1>6. ASSUME NEW p \in Procs, RecvEnter(p) PROVE QueueInv'
  BY <1>6 DEF RecvEnter, Acquire
<1>7. ASSUME NEW p \in Procs, SendFail(p) \/ SendFull(p) PROVE QueueInv'
  BY <1>7 DEF SendFail, SendFull, objVars
<1>8. ASSUME NEW p \in Procs, SendPut(p) PROVE QueueInv'
  BY <1>8 DEF SendPut, objVars
<1>9. ASSUME NEW p \in Procs, SendWake(p) PROVE QueueInv'
  BY <1>9 DEF SendWake, objVars
<1>10. ASSUME NEW p \in Procs, RecvTake(p) PROVE QueueInv'
  BY <1>10 DEF RecvTake, objVars
<1>11. ASSUME NEW p \in Procs, RecvNoWait(p) \/ RecvBlock(p) PROVE QueueInv'
  BY <1>11 DEF RecvNoWait, RecvBlock, objVars
<1>12. ASSUME NEW p \in Procs, RecvTestWait(p) PROVE QueueInv'
  BY <1>12 DEF RecvTestWait, objVars
<1>13. ASSUME NEW p \in Procs, RecvSignal(p) PROVE QueueInv'
  BY <1>13 DEF RecvSignal, objVars
<1>14. ASSUME UNCHANGED vars PROVE QueueInv'
  BY <1>14 DEF vars, objVars
<1>15. QED
  BY <1>2, <1>3, <1>4, <1>5, <1>6, <1>7, <1>8, <1>9, <1>10, <1>11, <1>12,
     <1>13, <1>14 DEF Next, Advance, Refuse

LEMMA QueueInvariant == Spec => []QueueInv
BY QueueInvInit, QueueInvNext, PTL DEF Spec

-----------------------------------------------------------------------------
(* A queue's object lives as IpcObject says, so the theorems about IpcObject *)
(* hold of it.                                                             *)
THEOREM QueueImplementsObject == Spec => ObjSpec
<1>1. Init => ObjInit
  BY DEF Init
<1>2. QED
  BY <1>1, QueueStepIsObjStep, PTL DEF Spec, ObjSpec

(* The variables of the queue keep their types; in particular the queue     *)
(* never holds more than max_depth messages.                               *)
THEOREM QueueTypeCorrect == Spec => []TypeOK
<1>1. QueueInv => TypeOK
  BY DEF QueueInv
<1>2. QED
  BY <1>1, QueueInvariant, PTL

(* Every way out of send and receive gives back exactly one reference.     *)
THEOREM QueueRefcountBalanced == Spec => []RefcountBalanced
<1>1. QueueInv => RefcountBalanced
  <2> SUFFICES ASSUME QueueInv, stage = "mapped"
               PROVE  refcount = 1 + Cardinality(Inside) - closes
    BY DEF RefcountBalanced, QueueInv, Inside
  <2>1. refcount = 1 + Cardinality(holders) + pinned - closes
    BY DEF QueueInv, ObjInv, RefcountAccounting
  <2>2. Cardinality(holders) \in Nat /\ closes \in Int
    BY ObjectAssumption, FS_Subset, FS_CardinalityType
    DEF QueueInv, ObjInv, ObjTypeOK
  <2>3. QED
    BY <2>1, <2>2 DEF QueueInv
<1>2. QED
  BY <1>1, QueueInvariant, PTL

(* Both at once: what send, receive and close find and leave (IpcQueue).       *)
THEOREM QueueIsConsistent == Spec => []QueueConsistent
<1>1. TypeOK /\ RefcountBalanced => QueueConsistent
  BY DEF QueueConsistent
<1>2. QED
  BY <1>1, QueueTypeCorrect, QueueRefcountBalanced, PTL

(* A thread inside send or receive, asleep or not, never has the queue      *)
(* freed under it by its owner's close.                                    *)
THEOREM QueueNeverFreedInside == Spec => []QueueOutlivesCalls
<1>1. QueueInv => QueueOutlivesCalls
  <2> SUFFICES ASSUME QueueInv, holders # {} PROVE stage = "mapped"
    BY DEF QueueInv, QueueOutlivesCalls, Inside
  <2>1. Cardinality(holders) \in Nat \ {0}
    BY ObjectAssumption, FS_Subset, FS_CardinalityType, FS_EmptySet
    DEF QueueInv, ObjInv, ObjTypeOK
  <2>2. closes \in {0, 1}
    BY QueueAssumption DEF QueueInv, ObjInv, ObjTypeOK
  <2>3. QED
    BY <2>1, <2>2 DEF QueueInv, ObjInv, ObjTypeOK
<1>2. QED
  BY <1>1, QueueInvariant, PTL

(* No wake-up is lost: while a message is queued and a receiver sleeps, a   *)
(* sender is about to rouse the sleepers.                                  *)
THEOREM QueueWakeupPending == Spec => []WakeupPending
<1>1. QueueInv => WakeupPending
  BY DEF QueueInv
<1>2. QED
  BY <1>1, QueueInvariant, PTL

(* What the threads see is a bounded channel: messages arrive in the order  *)
(* they were queued, each once, and a full queue refuses.                  *)
THEOREM QueueImplementsFifo == Spec => ImplementsFifo
<1>1. Init => Channel!Init
  BY DEF Init, Channel!Init
<1>2. QueueInv /\ [Next]_vars
        => [Channel!Next \/ messages' = <<>>]_messages
  <2> SUFFICES ASSUME QueueInv, [Next]_vars, messages' # messages,
                      messages' # <<>>
               PROVE  Channel!Next
    OBVIOUS
  <2>1. ASSUME NEW p \in Procs, SendPut(p) PROVE Channel!Next
    BY <2>1 DEF SendPut, Goto, QueueInv, TypeOK, Channel!Next, Channel!Put
  <2>2. ASSUME NEW p \in Procs, RecvTake(p) PROVE Channel!Next
    BY <2>2 DEF RecvTake, Channel!Next, Channel!Take
  <2>3. QED
    BY <2>1, <2>2
    DEF Next, Advance, vars, queue, Create, CloseQueue, Leave, SendEnter,
        RecvEnter, SendFail, SendFull, SendWake, RecvNoWait, RecvBlock,
        RecvTestWait, RecvSignal, Refuse
<1>3. QED
  BY <1>1, <1>2, QueueInvariant, PTL
  DEF Spec, ImplementsFifo, Channel!ClosableSpec
=============================================================================
