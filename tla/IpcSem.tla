-------------------------------- MODULE IpcSem --------------------------------
(***************************************************************************)
(* A semaphore of Kernel/Ipc/Ipc_Soiav.c: soiav_ipc_sem_op by several       *)
(* threads, with the int arithmetic of the code, on an object that lives as *)
(* in IpcObject.                                                           *)
(***************************************************************************)
EXTENDS IpcObject, FiniteSetsExt

CONSTANTS
  Initial, MaxVal,   (* the arguments of soiav_ipc_create_sem              *)
  Ops,               (* the values of the argument op of soiav_ipc_sem_op  *)
  IntMax,            (* INT_MAX: an int holds -IntMax - 1 .. IntMax        *)
  MaxHeld            (* bound: the units one thread holds                  *)

Int32 == -IntMax - 1 .. IntMax

ASSUME SemAssumption ==
  /\ IntMax \in Nat
  /\ Initial \in Int32 /\ MaxVal \in Int32
  /\ Ops \subseteq Int32
  /\ MaxHeld \in Nat
  /\ MaxCloses \in {0, 1}

VARIABLES
  value,      (* sem->value                                                *)
  pc, op,     (* per thread: where it is, and its argument op              *)
  held,       (* history: the units a thread acquired and did not release  *)
  rogue       (* history: some thread released units it did not hold       *)

vars == <<objVars, value, pc, op, held, rogue>>

(* An int sum; the kernel is built with -fno-strict-overflow, so it wraps. *)
Wrap(n) ==
  IF n > IntMax THEN n - 2 * (IntMax + 1)
  ELSE IF n < -IntMax - 1 THEN n + 2 * (IntMax + 1) ELSE n
Fits(n) == Wrap(value + n) >= 0

Init ==
  /\ ObjInit
  /\ value = Initial
  /\ pc = [p \in Procs |-> "idle"]
  /\ op = [p \in Procs |-> 0]
  /\ held = [p \in Procs |-> 0]
  /\ rogue = FALSE

Goto(p, from, to) ==
  /\ pc[p] \in from
  /\ pc' = [pc EXCEPT ![p] = to]

-----------------------------------------------------------------------------
Create == Install /\ UNCHANGED <<value, pc, op, held, rogue>>

(* A call on a semaphore that does not exist: -EINVAL.                     *)
Refuse(p) ==
  /\ pc[p] = "idle" /\ stage # "mapped"
  /\ UNCHANGED vars

(* The lookup, and the branch on the sign of op.  (op = 0 changes nothing.) *)
Enter(p, n) ==
  /\ Goto(p, {"idle"}, IF n > 0 THEN "V" ELSE IF n < 0 THEN "P" ELSE "leave")
  /\ Acquire(p)
  /\ op' = [op EXCEPT ![p] = n]
  /\ held[p] - n <= MaxHeld
  /\ rogue' = (rogue \/ n > held[p])
  /\ UNCHANGED <<value, held>>

(* The label out: atomic_dec.                                              *)
Leave(p) ==
  /\ Goto(p, {"leave"}, "idle")
  /\ Release(p)
  /\ op' = [op EXCEPT ![p] = 0]
  /\ UNCHANGED <<value, held, rogue>>

(* Mutant: no wake_up_interruptible after the release.                     *)
VQuiet(p) ==
  /\ Goto(p, {"V"}, "leave")
  /\ value' = Min({Wrap(value + op[p]), MaxVal})
  /\ held' = [held EXCEPT ![p] = IF op[p] > @ THEN 0 ELSE @ - op[p]]
  /\ UNCHANGED <<objVars, op, rogue>>

(* V, under sem->lock.                                                     *)
V(p) ==
  /\ Goto(p, {"V"}, "wake")
  /\ value' = Min({Wrap(value + op[p]), MaxVal})
  /\ held' = [held EXCEPT ![p] = IF op[p] > @ THEN 0 ELSE @ - op[p]]
  /\ UNCHANGED <<objVars, op, rogue>>

(* wake_up_interruptible rouses every thread that sleeps on sem->wait.     *)
Wake(p) ==
  /\ pc[p] = "wake"
  /\ pc' = [q \in Procs |-> IF q = p THEN "leave"
                            ELSE IF pc[q] = "asleep" THEN "wait" ELSE pc[q]]
  /\ UNCHANGED <<objVars, value, op, held, rogue>>

(* P, under sem->lock, once the value suffices.                            *)
P(p) ==
  /\ Goto(p, {"P", "recheck"}, "leave")
  /\ Fits(op[p])
  /\ value' = Wrap(value + op[p])
  /\ held' = [held EXCEPT ![p] = @ - op[p]]
  /\ UNCHANGED <<objVars, op, rogue>>

(* Mutant: the units are taken before the test, and not given back.        *)
PNoWaitTakes(p) ==
  /\ Goto(p, {"P"}, "leave")
  /\ ~Fits(op[p])
  /\ value' = Wrap(value + op[p])
  /\ UNCHANGED <<objVars, op, held, rogue>>

(* The value does not suffice: -EAGAIN with IPC_NOWAIT (which only the      *)
(* first test can meet), else into the wait.                               *)
PNoWait(p) ==
  /\ Goto(p, {"P"}, "leave")
  /\ ~Fits(op[p])
  /\ UNCHANGED <<objVars, value, op, held, rogue>>

PBlock(p) ==
  /\ Goto(p, {"P", "recheck"}, "wait")
  /\ ~Fits(op[p])
  /\ UNCHANGED <<objVars, value, op, held, rogue>>

(* wait_event_interruptible: test without the lock; go on, or sleep.       *)
PTestWait(p) ==
  /\ Goto(p, {"wait"}, IF Fits(op[p]) THEN "recheck" ELSE "asleep")
  /\ UNCHANGED <<objVars, value, op, held, rogue>>

(* -ERESTARTSYS: a signal while the value does not suffice.                *)
PSignal(p) ==
  /\ Goto(p, {"wait", "asleep"}, "leave")
  /\ ~Fits(op[p])
  /\ UNCHANGED <<objVars, value, op, held, rogue>>

CloseSem == Close /\ UNCHANGED <<value, pc, op, held, rogue>>

Advance(p) ==
  \/ V(p) \/ Wake(p) \/ P(p) \/ PNoWait(p) \/ PBlock(p) \/ PTestWait(p)
  \/ Leave(p)

Next ==
  \/ Create
  \/ CloseSem
  \/ \E p \in Procs :
       \/ Advance(p) \/ PSignal(p) \/ Refuse(p)
       \/ \E n \in Ops : Enter(p, n)

Spec == Init /\ [][Next]_vars

-----------------------------------------------------------------------------
TypeOK ==
  /\ ObjTypeOK
  /\ value \in Int32
  /\ pc \in [Procs -> {"idle", "V", "wake", "P", "recheck", "wait", "asleep",
                       "leave"}]
  /\ holders = {p \in Procs : pc[p] # "idle"}
  /\ op \in [Procs -> Int32]
  /\ held \in [Procs -> 0 .. MaxHeld]
  /\ rogue \in BOOLEAN

(* The arguments of create_sem make sense and no sum of the code overflows. *)
SaneArguments ==
  /\ 0 <= Initial /\ Initial <= MaxVal
  /\ \A n \in Ops : MaxVal + n <= IntMax

(* The value stays between 0 and max_value, whoever releases what, although *)
(* a thread that waited decides on a value it read without the lock.       *)
ValueInRange == SaneArguments => 0 <= value /\ value <= MaxVal

(* While threads release only what they acquired, no unit is lost or made:  *)
(* the limit never swallows a release, and interrupted or refused           *)
(* acquisitions take nothing.                                              *)
UnitsConserved ==
  SaneArguments /\ ~rogue =>
    value + MapThenSumSet(LAMBDA p : held[p], Procs) = Initial

(* A thread does not sleep on while the value suffices for it.             *)
NoLostWakeup ==
  \A p \in Procs :
    pc[p] = "asleep" /\ Fits(op[p]) ~> pc[p] # "asleep" \/ ~Fits(op[p])

=============================================================================
