------------------------------ MODULE ServerLog ------------------------------
(***************************************************************************)
(* The log of the system server (src/System/Server.c): every thread adds its   *)
(* entries to one synchronized list and trims it from the front.  Each call of *)
(* the list is atomic, and the three that log makes are not one step.         *)
(* Entries are numbered in the order in which they were added.               *)
(***************************************************************************)
EXTENDS Naturals, Sequences, FiniteSets

CONSTANTS
  Threads,        (* whoever logs: selector, workers, tasks, monitors         *)
  MaxLogs,        (* 10000 in the code                                     *)
  MaxEntries      (* bound: entries added                                   *)

(* Assumed of the constants; the modules that instantiate this one check it. *)
LogAssumption ==
  /\ IsFiniteSet(Threads) /\ Threads # {}
  /\ MaxLogs \in Nat /\ Cardinality(Threads) <= MaxLogs
  /\ MaxEntries \in Nat

VARIABLES
  logs,
  added,          (* entries added so far                                  *)
  at              (* per thread where it is in log                          *)

vars == <<logs, added, at>>

Init == logs = <<>> /\ added = 0 /\ at = [t \in Threads |-> "idle"]

Goto(t, from, to) == at[t] = from /\ at' = [at EXCEPT ![t] = to]

Add(t) ==
  /\ Goto(t, "idle", "size")
  /\ added < MaxEntries
  /\ added' = added + 1
  /\ logs' = Append(logs, added')

TestSize(t) ==
  /\ Goto(t, "size", IF Len(logs) > MaxLogs THEN "remove" ELSE "idle")
  /\ UNCHANGED <<logs, added>>

(* Mutant: the entry that goes is the newest one.                            *)
RemoveNewest(t) ==
  /\ Goto(t, "remove", "idle")
  /\ logs' = SubSeq(logs, 1, Len(logs) - 1)
  /\ UNCHANGED added

(* logs.remove(0), whatever the others have removed since the size was read.  *)
RemoveFirst(t) ==
  /\ Goto(t, "remove", "idle")
  /\ logs' = Tail(logs)
  /\ UNCHANGED added

Next == \E t \in Threads : Add(t) \/ TestSize(t) \/ RemoveFirst(t)

Spec == Init /\ [][Next]_vars
-----------------------------------------------------------------------------
Within(l) == {t \in Threads : at[t] = l}

(* The log is the newest part of what was added, without a gap; however the     *)
(* threads overlap in log it exceeds its limit by no more than the threads that  *)
(* are about to trim it, and trimming never makes it shorter by more than the     *)
(* number of threads (so that no thread ever removes from an empty list).      *)
LogNewest ==
  /\ \A i \in DOMAIN logs : logs[i] = added - Len(logs) + i
  /\ Len(logs) <= MaxLogs + Cardinality(Within("size")) + Cardinality(Within("remove"))
  /\ Len(logs) < added =>
       Len(logs) >= MaxLogs + 1 + Cardinality(Within("remove")) - Cardinality(Threads)

TypeOK ==
  /\ logs \in Seq(1 .. added) /\ added \in 0 .. MaxEntries
  /\ at \in [Threads -> {"idle", "size", "remove"}]
=============================================================================
