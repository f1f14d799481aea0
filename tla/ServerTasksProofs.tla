-------------------------- MODULE ServerTasksProofs --------------------------
(***************************************************************************)
(* Theorems about what the server does for its clients, for any constants that   *)
(* fit their assumptions.  A part of MCServerTasks that does not move is left as  *)
(* it is, so that each step of TaskSpec is a step of the part or none.          *)
(***************************************************************************)
EXTENDS MCServerTasks, Sequences, FiniteSetTheorems, TLAPS

LEMMA Interval ==
  ASSUME NEW n \in Nat
  PROVE  IsFiniteSet(1 .. n) /\ Cardinality(1 .. n) = n
<1>1. 1 \in Int /\ n \in Int
  OBVIOUS
<1>2. IsFiniteSet(1 .. n) /\ Cardinality(1 .. n) = IF 1 > n THEN 0 ELSE n - 1 + 1
  BY <1>1, FS_Interval, Zenon
<1>3. QED
  BY <1>2

LEMMA AddOne ==
  ASSUME NEW S, IsFiniteSet(S), NEW x, x \notin S
  PROVE  /\ IsFiniteSet(S \union {x}) /\ Cardinality(S) \in Nat
         /\ Cardinality(S \union {x}) = Cardinality(S) + 1
BY FS_AddElement, FS_CardinalityType

LEMMA RemoveOne ==
  ASSUME NEW S, IsFiniteSet(S), NEW x \in S
  PROVE  /\ IsFiniteSet(S \ {x}) /\ Cardinality(S) \in Nat \ {0}
         /\ Cardinality(S \ {x}) = Cardinality(S) - 1
<1>1. /\ IsFiniteSet(S \ {x}) /\ Cardinality(S) \in Nat
      /\ Cardinality(S \ {x}) = Cardinality(S) - 1
  BY FS_RemoveElement, FS_CardinalityType
<1>2. Cardinality(S \ {x}) \in Nat
  BY <1>1, FS_CardinalityType
<1>3. QED
  BY <1>1, <1>2

-----------------------------------------------------------------------------
(* The log.  The inductive invariant says beside what the property says that the  *)
(* list is as long as its limit at least, whenever a thread is about to trim a     *)
(* list from which nothing was removed before.                                *)
Numbers(n, k) == [i \in 1 .. k |-> n - k + i]

LogTypes ==
  /\ added \in 0 .. MaxEntries
  /\ Len(logs) \in 0 .. added /\ logs = Numbers(added, Len(logs))
  /\ logging \in [Threads -> {"idle", "size", "remove"}]

Sizing == {t \in Threads : logging[t] = "size"}
Removing == {t \in Threads : logging[t] = "remove"}

Limited == Len(logs) <= MaxLogs + Cardinality(Sizing) + Cardinality(Removing)

Trimmed ==
  Len(logs) < added => Len(logs) >= MaxLogs + 1 + Cardinality(Removing) - Cardinality(Threads)

TrimsLong == Len(logs) = added /\ Removing # {} => Len(logs) >= MaxLogs + 1

LogInv == LogTypes /\ Limited /\ Trimmed /\ TrimsLong

LEMMA LogStep == [TaskNext]_taskVars => [Logs!Next]_(Logs!vars)
BY DEF TaskNext, Asked, taskVars, logVars, Logs!vars

LEMMA SameCardinality == \A S : Logs!Cardinality(S) = Cardinality(S)
BY Zenon DEF Logs!Cardinality, Cardinality

LEMMA LogConstants ==
  /\ IsFiniteSet(Threads) /\ MaxLogs \in Nat /\ MaxEntries \in Nat
  /\ Cardinality(Threads) \in Nat /\ Cardinality(Threads) <= MaxLogs
<1>1. Logs!IsFiniteSet(Threads) <=> IsFiniteSet(Threads)
  BY Zenon DEF Logs!IsFiniteSet, IsFiniteSet
<1>2. QED
  BY <1>1, LogAssumed, SameCardinality, FS_CardinalityType DEF Logs!LogAssumption

LEMMA NumbersOf ==
  ASSUME NEW n \in Nat, NEW k \in 0 .. n
  PROVE  /\ Numbers(n, k) \in Seq(1 .. n) /\ Len(Numbers(n, k)) = k
         /\ \A i \in 1 .. k : Numbers(n, k)[i] = n - k + i
         /\ Append(Numbers(n, k), n + 1) = Numbers(n + 1, k + 1)
         /\ k # 0 => Tail(Numbers(n, k)) = Numbers(n, k - 1)
<1>1. ASSUME NEW m \in Nat, NEW j \in 0 .. m
      PROVE  Numbers(m, j) \in Seq(1 .. m) /\ Len(Numbers(m, j)) = j
  BY DEF Numbers
<1>2. Append(Numbers(n, k), n + 1) = Numbers(n + 1, k + 1)
  BY <1>1 DEF Numbers
<1>3. k # 0 => Tail(Numbers(n, k)) = Numbers(n, k - 1)
  BY <1>1 DEF Numbers
<1>4. QED
  BY <1>1, <1>2, <1>3 DEF Numbers

LEMMA LogInvInit == TaskInit => LogInv
<1> SUFFICES ASSUME TaskInit PROVE LogInv
  OBVIOUS
<1>1. Logs!Init
  BY DEF TaskInit
<1>2. logs = <<>> /\ Len(logs) = 0 /\ added = 0
  BY <1>1 DEF Logs!Init
<1>3. Sizing = {} /\ Removing = {}
  BY <1>1 DEF Logs!Init, Sizing, Removing
<1>4. LogTypes
  BY <1>1, <1>2, LogConstants DEF Logs!Init, LogTypes, Numbers
<1>5. QED
  BY <1>2, <1>3, <1>4, LogConstants, FS_EmptySet DEF LogInv, Limited, Trimmed, TrimsLong

LEMMA LogSets ==
  /\ IsFiniteSet(Sizing) /\ Cardinality(Sizing) \in Nat
  /\ IsFiniteSet(Removing) /\ Cardinality(Removing) \in 0 .. Cardinality(Threads)
<1>1. Sizing \subseteq Threads /\ Removing \subseteq Threads
  BY DEF Sizing, Removing
<1>2. QED
  BY <1>1, LogConstants, FS_Subset, FS_CardinalityType

LEMMA LogInvNext == LogInv /\ [Logs!Next]_(Logs!vars) => LogInv'
<1> SUFFICES ASSUME LogInv, [Logs!Next]_(Logs!vars) PROVE LogInv'
  OBVIOUS
<1> DEFINE n == Cardinality(Threads)
           S == Cardinality(Sizing)
           R == Cardinality(Removing)
<1>a. LogTypes /\ Limited /\ Trimmed /\ TrimsLong
  BY DEF LogInv
<1>b. S \in Nat /\ R \in 0 .. n /\ n \in Nat /\ n <= MaxLogs /\ MaxLogs \in Nat
  BY LogSets, LogConstants
<1>c. added \in Nat /\ Len(logs) \in 0 .. added
  BY <1>a, LogConstants DEF LogTypes
<1>1. ASSUME NEW t \in Threads, Logs!Add(t) PROVE LogInv'
  <2>1. t \notin Sizing /\ Sizing' = Sizing \union {t} /\ Removing' = Removing
    BY <1>1, <1>a DEF Logs!Add, Logs!Goto, Sizing, Removing, LogTypes
  <2>2. S' = S + 1 /\ R' = R
    BY <2>1, LogSets, AddOne
  <2>3. added' = added + 1 /\ logs' = Append(logs, added + 1) /\ added < MaxEntries
    BY <1>1 DEF Logs!Add
  <2>4. logs' = Numbers(added + 1, Len(logs) + 1)
    <3>1. PICK k \in 0 .. added : k = Len(logs)
      BY <1>c
    <3>2. logs = Numbers(added, k)
      BY <1>a, <3>1 DEF LogTypes
    <3>3. Append(Numbers(added, k), added + 1) = Numbers(added + 1, k + 1)
      BY <1>c, NumbersOf
    <3>4. QED
      BY <2>3, <3>1, <3>2, <3>3, Zenon
  <2>5. Len(logs') = Len(logs) + 1
    <3>1. added + 1 \in Nat /\ Len(logs) + 1 \in 0 .. added + 1
      BY <1>c
    <3>2. Len(Numbers(added + 1, Len(logs) + 1)) = Len(logs) + 1
      BY <3>1, NumbersOf
    <3>3. QED
      BY <2>4, <3>2
  <2>6. LogTypes'
    BY <1>1, <1>a, <1>c, <2>3, <2>4, <2>5, LogConstants DEF Logs!Add, Logs!Goto, LogTypes
  <2>7. Limited'
    BY <1>a, <1>b, <1>c, <2>2, <2>5 DEF Limited
  <2>8. Trimmed'
    BY <1>a, <1>b, <1>c, <2>2, <2>3, <2>5 DEF Trimmed
  <2>9. TrimsLong'
    <3>1. Removing' = Removing
      BY <2>1
    <3>2. Len(logs) = added /\ Removing # {} => Len(logs) >= MaxLogs + 1
      BY <1>a DEF TrimsLong
    <3>3. QED
      BY <1>b, <1>c, <2>3, <2>5, <3>1, <3>2 DEF TrimsLong
  <2>10. QED
    BY <2>6, <2>7, <2>8, <2>9 DEF LogInv
<1>2. ASSUME NEW t \in Threads, Logs!TestSize(t) PROVE LogInv'
  <2>1. t \in Sizing /\ t \notin Removing /\ Sizing' = Sizing \ {t}
        /\ logs' = logs /\ added' = added
    BY <1>2, <1>a DEF Logs!TestSize, Logs!Goto, Sizing, Removing, LogTypes
  <2>2. S \in Nat \ {0} /\ S' = S - 1
    BY <2>1, LogSets, RemoveOne
  <2>3. LogTypes'
    BY <1>2, <1>a DEF Logs!TestSize, Logs!Goto, LogTypes
  <2>4. CASE Len(logs) > MaxLogs
    <3>1. Removing' = Removing \union {t}
      BY <1>2, <1>a, <2>4 DEF Logs!TestSize, Logs!Goto, Removing, LogTypes
    <3>2. R' = R + 1
      BY <2>1, <3>1, LogSets, AddOne
    <3>3. R' <= n
      BY <3>1, LogConstants, FS_Subset DEF Removing
    <3>4. Limited'
      BY <1>a, <1>b, <1>c, <2>1, <2>2, <3>2 DEF Limited
    <3>5. Trimmed'
      <4>1. Len(logs') >= MaxLogs + 1 + R' - n
        BY <1>b, <1>c, <2>1, <2>4, <3>2, <3>3
      <4>2. QED
        BY <4>1 DEF Trimmed
    <3>6. TrimsLong'
      BY <1>b, <1>c, <2>1, <2>4 DEF TrimsLong
    <3>7. QED
      BY <2>3, <3>4, <3>5, <3>6 DEF LogInv
  <2>5. CASE ~(Len(logs) > MaxLogs)
    <3>1. Removing' = Removing
      BY <1>2, <1>a, <2>5 DEF Logs!TestSize, Logs!Goto, Removing, LogTypes
    <3>2. Limited'
      BY <1>b, <1>c, <2>1, <2>2, <2>5, <3>1 DEF Limited
    <3>3. Trimmed' /\ TrimsLong'
      BY <1>a, <2>1, <3>1 DEF Trimmed, TrimsLong
    <3>4. QED
      BY <2>3, <3>2, <3>3 DEF LogInv
  <2>6. QED
    BY <2>4, <2>5
<1>3. ASSUME NEW t \in Threads, Logs!RemoveFirst(t) PROVE LogInv'
  <2>1. t \in Removing /\ Sizing' = Sizing /\ Removing' = Removing \ {t}
    BY <1>3, <1>a DEF Logs!RemoveFirst, Logs!Goto, Sizing, Removing, LogTypes
  <2>2. R \in Nat \ {0} /\ R' = R - 1 /\ S' = S
    BY <2>1, LogSets, RemoveOne
  <2>3. Len(logs) # 0
    <3>1. CASE Len(logs) < added
      BY <1>a, <1>b, <1>c, <2>2, <3>1 DEF Trimmed
    <3>2. CASE Len(logs) = added
      BY <1>a, <1>b, <1>c, <2>1, <3>2 DEF TrimsLong
    <3>3. QED
      BY <1>c, <3>1, <3>2
  <2>4. logs' = Tail(logs) /\ added' = added
    BY <1>3 DEF Logs!RemoveFirst
  <2>5. logs' = Numbers(added, Len(logs) - 1)
    <3>1. PICK k \in 0 .. added : k = Len(logs) /\ k # 0
      BY <1>c, <2>3
    <3>2. logs = Numbers(added, k)
      BY <1>a, <3>1 DEF LogTypes
    <3>3. Tail(Numbers(added, k)) = Numbers(added, k - 1)
      BY <1>c, <3>1, NumbersOf
    <3>4. QED
      BY <2>4, <3>1, <3>2, <3>3, Zenon
  <2>6. Len(logs') = Len(logs) - 1
    <3>1. Len(logs) - 1 \in 0 .. added
      BY <1>c, <2>3
    <3>2. Len(Numbers(added, Len(logs) - 1)) = Len(logs) - 1
      BY <3>1, <1>c, NumbersOf
    <3>3. QED
      BY <2>5, <3>2
  <2>7. LogTypes'
    BY <1>3, <1>a, <1>c, <2>3, <2>4, <2>5, <2>6
    DEF Logs!RemoveFirst, Logs!Goto, LogTypes
  <2>8. Limited'
    BY <1>a, <1>b, <1>c, <2>2, <2>6 DEF Limited
  <2>9. Trimmed'
    <3>1. Len(logs) >= MaxLogs + 1 + R - n
      <4>1. CASE Len(logs) < added
        BY <1>a, <4>1 DEF Trimmed
      <4>2. CASE Len(logs) = added
        BY <1>a, <1>b, <1>c, <2>1, <4>2 DEF TrimsLong
      <4>3. QED
        BY <1>c, <4>1, <4>2
    <3>2. QED
      <4>1. Len(logs') >= MaxLogs + 1 + R' - n
        BY <1>b, <1>c, <2>2, <2>6, <3>1
      <4>2. QED
        BY <4>1 DEF Trimmed
  <2>10. TrimsLong'
    BY <1>c, <2>3, <2>4, <2>6 DEF TrimsLong
  <2>11. QED
    BY <2>7, <2>8, <2>9, <2>10 DEF LogInv
<1>4. CASE UNCHANGED Logs!vars
  BY <1>4, <1>a DEF Logs!vars, LogInv, LogTypes, Limited, Trimmed, TrimsLong, Sizing, Removing
<1>5. QED
  BY <1>1, <1>2, <1>3, <1>4 DEF Logs!Next

LEMMA LogInvKept == LogInv => LogKept
<1> SUFFICES ASSUME LogInv PROVE LogKept
  OBVIOUS
<1>a. LogTypes /\ Limited /\ Trimmed
  BY DEF LogInv
<1>1. Logs!Within("size") = Sizing /\ Logs!Within("remove") = Removing
  BY DEF Logs!Within, Sizing, Removing
<1>2. added \in Nat /\ Len(logs) \in 0 .. added
  BY <1>a, LogConstants DEF LogTypes
<1>3. logs \in Seq(1 .. added) /\ \A i \in DOMAIN logs : logs[i] = added - Len(logs) + i
  <2>1. PICK k \in 0 .. added : k = Len(logs)
    BY <1>2
  <2>2. logs = Numbers(added, k)
    BY <1>a, <2>1 DEF LogTypes
  <2>3. logs \in Seq(1 .. added) /\ \A i \in 1 .. k : logs[i] = added - k + i
    BY <1>2, <2>2, NumbersOf
  <2>4. QED
    BY <2>1, <2>3
<1>4. QED
  BY <1>a, <1>1, <1>3, SameCardinality
  DEF LogKept, Logs!TypeOK, Logs!LogNewest, LogTypes, Limited, Trimmed

(* However the threads overlap in log, the list is the newest part of what was   *)
(* logged, no longer than its limit and the threads that are about to trim it,     *)
(* and never so short that one of them removes from an empty list.            *)
THEOREM LogStaysNewest == TaskSpec => []LogKept
<1>1. TaskSpec => []LogInv
  BY LogInvInit, LogStep, LogInvNext, PTL DEF TaskSpec
<1>2. QED
  BY <1>1, LogInvKept, PTL

-----------------------------------------------------------------------------
(* The processes.  nextPid++ is not atomic, yet it never gives a pid that more     *)
(* processes than were started would need: every process that is started and has  *)
(* not written nextPid back leaves room for one.                             *)
Started == Cardinality(Handles)
Numbering == {w \in Workers : pc[w] \in {"read", "write"}}

ProcsTypes ==
  /\ Started \in 0 .. MaxHandle /\ Handles = 1 .. Started
  /\ DOMAIN status \subseteq Handles /\ DOMAIN monitor \subseteq DOMAIN status
  /\ asked \subseteq Handles
  /\ pc \in [Workers -> {"idle", "read", "write", "put", "monitor"}]
  /\ mine \in [Workers -> 0 .. Started] /\ pid \in [Workers -> Nat]

Registered ==
  /\ \A p \in DOMAIN table : p \in Pids /\ table[p] \in DOMAIN status
  /\ \A w \in Workers :
       /\ pc[w] # "idle" => mine[w] \in Handles
       /\ pc[w] = "monitor" => mine[w] \in DOMAIN status

RoomForPids ==
  /\ IsFiniteSet(Numbering)
  /\ nextPid \in FirstPid .. FirstPid + Started - Cardinality(Numbering)
  /\ \A w \in Workers :
       /\ pc[w] = "write" =>
            pid[w] \in FirstPid .. FirstPid + Started - Cardinality(Numbering)
       /\ pc[w] = "put" => pid[w] \in Pids

(* A handler between destroy and status holds a process that does not run on.  *)
StopHeld ==
  stopping # 0 =>
    stopping \in DOMAIN status /\ stopping \in asked /\ os[stopping] # "running"
StatusHeld == StatusBacked /\ StopHeld

ProcsInv == ProcsTypes /\ Registered /\ RoomForPids /\ StatusHeld

LEMMA ProcsStep == [TaskNext]_taskVars => [Next]_vars
BY DEF TaskNext, Asked, taskVars, vars

LEMMA ProcsInvInit == TaskInit => ProcsInv
<1> SUFFICES ASSUME TaskInit PROVE ProcsInv
  OBVIOUS
<1>1. Init
  BY DEF TaskInit
<1>2. Handles = {} /\ Numbering = {}
  BY <1>1 DEF Init, Handles, Numbering
<1>3. Started = 0 /\ IsFiniteSet(Numbering) /\ Cardinality(Numbering) = 0
  BY <1>2, FS_EmptySet DEF Started
<1>4. ProcsTypes
  BY <1>1, <1>2, <1>3, ProcsAssumption DEF Init, ProcsTypes
<1>5. Registered /\ RoomForPids /\ StatusHeld
  BY <1>1, <1>3, ProcsAssumption DEF Init, Registered, RoomForPids, StatusHeld, StatusBacked, StopHeld
<1>6. QED
  BY <1>4, <1>5 DEF ProcsInv

LEMMA ProcsInvNext == ProcsInv /\ [Next]_vars => ProcsInv'
<1> SUFFICES ASSUME ProcsInv, [Next]_vars PROVE ProcsInv'
  OBVIOUS
<1> DEFINE U == Cardinality(Numbering)
<1>a. ProcsTypes /\ Registered /\ RoomForPids /\ StatusHeld
  BY DEF ProcsInv
<1>b. U \in Nat /\ IsFiniteSet(Numbering)
  BY <1>a, FS_CardinalityType DEF RoomForPids
<1>c. Started \in 0 .. MaxHandle /\ MaxHandle \in Nat /\ FirstPid \in Nat
  BY <1>a, ProcsAssumption DEF ProcsTypes
<1>1. ASSUME NEW w \in Workers, Launch(w) PROVE ProcsInv'
  <2> DEFINE h == Started + 1
  <2>1. /\ pc[w] = "idle" /\ Started < MaxHandle
        /\ os' = With(os, h, "running")
        /\ UNCHANGED <<status, monitor, table, nextPid, pid, stopping, asked>>
    BY <1>1 DEF Launch, Goto, Started
  <2>2. /\ pc' = [pc EXCEPT ![w] = "read"] /\ mine' = [mine EXCEPT ![w] = h]
    BY <1>1 DEF Launch, Goto, Started
  <2>3. /\ Handles' = Handles \union {h}
        /\ \A g \in Handles : g # h => os'[g] = os[g]
    BY <2>1 DEF With, Handles
  <2>4. h \in Nat /\ h \notin Handles /\ Handles' = 1 .. h
    BY <2>3, <1>a, <1>c DEF ProcsTypes
  <2>5. Started' = h
    BY <2>4, Interval DEF Started
  <2>6. w \notin Numbering /\ Numbering' = Numbering \union {w}
    BY <2>1, <2>2, <1>a DEF Numbering, ProcsTypes
  <2>7. IsFiniteSet(Numbering') /\ U' = U + 1
    BY <2>6, <1>b, AddOne
  <2>8. ProcsTypes'
    BY <1>a, <1>c, <2>1, <2>2, <2>3, <2>4, <2>5 DEF ProcsTypes
  <2>9. Registered'
    BY <1>a, <2>1, <2>2, <2>3 DEF ProcsTypes, Registered
  <2>10. RoomForPids'
    BY <1>a, <1>b, <1>c, <2>1, <2>2, <2>5, <2>7 DEF ProcsTypes, RoomForPids
  <2>11. StatusHeld'
    BY <1>a, <2>1, <2>3, <2>4 DEF ProcsTypes, StatusHeld, StatusBacked, StopHeld
  <2>12. QED
    BY <2>8, <2>9, <2>10, <2>11 DEF ProcsInv
<1>2. ASSUME NEW w \in Workers, ReadPid(w) PROVE ProcsInv'
  <2>1. /\ pc[w] = "read" /\ pc' = [pc EXCEPT ![w] = "write"]
        /\ pid' = [pid EXCEPT ![w] = nextPid]
        /\ UNCHANGED <<os, status, monitor, table, nextPid, mine, stopping, asked>>
    BY <1>2 DEF ReadPid, Goto
  <2>2. Handles' = Handles /\ Started' = Started /\ Numbering' = Numbering
    BY <2>1, <1>a DEF Handles, Started, Numbering, ProcsTypes
  <2>3. nextPid \in Nat
    BY <1>a, <1>b, <1>c DEF RoomForPids
  <2>4. ProcsTypes'
    BY <1>a, <2>1, <2>2, <2>3 DEF ProcsTypes
  <2>5. Registered' /\ StatusHeld'
    BY <1>a, <2>1, <2>2 DEF ProcsTypes, Registered, StatusHeld, StatusBacked, StopHeld
  <2>6. RoomForPids'
    BY <1>a, <2>1, <2>2 DEF ProcsTypes, RoomForPids
  <2>7. QED
    BY <2>4, <2>5, <2>6 DEF ProcsInv
<1>3. ASSUME NEW w \in Workers, WritePid(w) PROVE ProcsInv'
  <2>1. /\ pc[w] = "write" /\ pc' = [pc EXCEPT ![w] = "put"]
        /\ nextPid' = pid[w] + 1
        /\ UNCHANGED <<os, status, monitor, table, mine, pid, stopping, asked>>
    BY <1>3 DEF WritePid, Goto
  <2>2. Handles' = Handles /\ Started' = Started
    BY <2>1 DEF Handles, Started
  <2>3. w \in Numbering /\ Numbering' = Numbering \ {w}
    BY <2>1, <1>a DEF Numbering, ProcsTypes
  <2>4. U \in Nat \ {0} /\ IsFiniteSet(Numbering') /\ U' = U - 1
    BY <2>3, <1>b, RemoveOne
  <2>5. ProcsTypes'
    BY <1>a, <2>1, <2>2 DEF ProcsTypes
  <2>6. Registered' /\ StatusHeld'
    BY <1>a, <2>1, <2>2 DEF ProcsTypes, Registered, StatusHeld, StatusBacked, StopHeld
  <2>7. pid[w] \in FirstPid .. FirstPid + Started - U
    BY <1>a, <2>1 DEF RoomForPids
  <2>8. pid[w] \in Pids
    BY <1>c, <2>4, <2>7 DEF Pids
  <2>9. nextPid' \in FirstPid .. FirstPid + Started' - U'
    BY <1>c, <2>1, <2>2, <2>4, <2>7
  <2>10. ASSUME NEW v \in Workers
         PROVE  /\ pc'[v] = "write" => pid'[v] \in FirstPid .. FirstPid + Started' - U'
                /\ pc'[v] = "put" => pid'[v] \in Pids
    BY <1>a, <1>c, <2>1, <2>2, <2>4, <2>8, SMTT(30) DEF ProcsTypes, RoomForPids
  <2>11. RoomForPids'
    BY <2>4, <2>9, <2>10 DEF RoomForPids
  <2>12. QED
    BY <2>5, <2>6, <2>11 DEF ProcsInv
<1>4. ASSUME NEW w \in Workers, Register(w) PROVE ProcsInv'
  <2>1. /\ pc[w] = "put" /\ pc' = [pc EXCEPT ![w] = "monitor"]
        /\ status' = With(status, mine[w], RUNNING)
        /\ table' = With(table, pid[w], mine[w])
        /\ UNCHANGED <<os, monitor, nextPid, mine, pid, stopping, asked>>
    BY <1>4 DEF Register, Goto
  <2>2. Handles' = Handles /\ Started' = Started /\ Numbering' = Numbering
    BY <2>1, <1>a DEF Handles, Started, Numbering, ProcsTypes
  <2>3. /\ DOMAIN status' = DOMAIN status \union {mine[w]}
        /\ status'[mine[w]] = RUNNING
        /\ \A h \in DOMAIN status : h # mine[w] => status'[h] = status[h]
    BY <2>1 DEF With
  <2>4. /\ DOMAIN table' = DOMAIN table \union {pid[w]}
        /\ table'[pid[w]] = mine[w]
        /\ \A p \in DOMAIN table : p # pid[w] => table'[p] = table[p]
    BY <2>1 DEF With
  <2>5. mine[w] \in Handles /\ pid[w] \in Pids
    BY <1>a, <2>1 DEF Registered, RoomForPids
  <2>6. ProcsTypes'
    BY <1>a, <2>1, <2>2, <2>3, <2>5 DEF ProcsTypes
  <2>7. Registered'
    BY <1>a, <2>1, <2>2, <2>3, <2>4, <2>5 DEF ProcsTypes, Registered
  <2>8. RoomForPids'
    BY <1>a, <2>1, <2>2 DEF ProcsTypes, RoomForPids
  <2>9. StatusHeld'
    BY <1>a, <2>1, <2>3 DEF StatusHeld, StatusBacked, StopHeld, RUNNING, STOPPED, ZOMBIE
  <2>10. QED
    BY <2>6, <2>7, <2>8, <2>9 DEF ProcsInv
<1>5. ASSUME NEW w \in Workers, RunAsync(w) PROVE ProcsInv'
  <2>1. /\ pc[w] = "monitor" /\ pc' = [pc EXCEPT ![w] = "idle"]
        /\ monitor' = With(monitor, mine[w], "queued")
        /\ UNCHANGED <<os, status, table, nextPid, mine, pid, stopping, asked>>
    BY <1>5 DEF RunAsync, Goto
  <2>2. Handles' = Handles /\ Started' = Started /\ Numbering' = Numbering
    BY <2>1, <1>a DEF Handles, Started, Numbering, ProcsTypes
  <2>3. DOMAIN monitor' = DOMAIN monitor \union {mine[w]}
    BY <2>1 DEF With
  <2>4. ProcsTypes'
    BY <1>a, <2>1, <2>2, <2>3 DEF ProcsTypes, Registered
  <2>5. Registered' /\ RoomForPids' /\ StatusHeld'
    BY <1>a, <2>1, <2>2 DEF ProcsTypes, Registered, RoomForPids, StatusHeld, StatusBacked, StopHeld
  <2>6. QED
    BY <2>4, <2>5 DEF ProcsInv
<1>6. ASSUME NEW p \in Pids, Destroy(p) PROVE ProcsInv'
  <2> DEFINE h == table[p]
  <2>1. /\ p \in DOMAIN table
        /\ os' = [os EXCEPT ![h] = IF @ = "running" THEN "killed" ELSE @]
        /\ stopping' = h
        /\ asked' = asked \union {h}
        /\ UNCHANGED <<status, monitor, table, nextPid, pc, mine, pid>>
    BY <1>6 DEF Destroy
  <2>2. h \in DOMAIN status /\ h \in Handles
    BY <1>a, <2>1 DEF Registered, ProcsTypes
  <2>3. Handles' = Handles /\ Started' = Started /\ Numbering' = Numbering
    BY <2>1 DEF Handles, Started, Numbering
  <2>4. ProcsTypes'
    BY <1>a, <2>1, <2>2, <2>3 DEF ProcsTypes
  <2>5. Registered' /\ RoomForPids'
    BY <1>a, <2>1, <2>2, <2>3 DEF Registered, RoomForPids
  <2>6. os'[h] # "running"
    BY <2>1, <2>2 DEF Handles
  <2>7. StatusHeld'
    BY <1>a, <2>1, <2>2, <2>6
    DEF StatusHeld, StatusBacked, StopHeld, STOPPED, ZOMBIE, ProcsTypes, Handles
  <2>8. QED
    BY <2>4, <2>5, <2>7 DEF ProcsInv
<1>s. CASE MarkStopped
  <2>1. /\ stopping # 0 /\ stopping' = 0
        /\ status' = [status EXCEPT ![stopping] = STOPPED]
        /\ UNCHANGED <<os, monitor, table, nextPid, pc, mine, pid, asked>>
    BY <1>s DEF MarkStopped
  <2>2. Handles' = Handles /\ Started' = Started /\ Numbering' = Numbering
    BY <2>1 DEF Handles, Started, Numbering
  <2>3. ProcsTypes' /\ Registered' /\ RoomForPids'
    BY <1>a, <2>1, <2>2 DEF ProcsTypes, Registered, RoomForPids
  <2>4. StatusHeld'
    BY <1>a, <2>1 DEF StatusHeld, StatusBacked, StopHeld, STOPPED, ZOMBIE
  <2>5. QED
    BY <2>3, <2>4 DEF ProcsInv
<1>7. ASSUME NEW h \in 1 .. MaxHandle, Die(h) PROVE ProcsInv'
  <2>1. /\ h \in Handles /\ os[h] \in {"running", "killed"}
        /\ UNCHANGED <<status, monitor, table, nextPid, pc, mine, pid, stopping, asked>>
    BY <1>7 DEF Die
  <2>2. PICK how \in {"ok", "failed"} : os' = [os EXCEPT ![h] = how]
    BY <1>7 DEF Die
  <2>3. Handles' = Handles /\ Started' = Started /\ Numbering' = Numbering
    BY <2>1, <2>2 DEF Handles, Started, Numbering
  <2>4. ProcsTypes' /\ Registered' /\ RoomForPids'
    BY <1>a, <2>1, <2>3 DEF ProcsTypes, Registered, RoomForPids
  <2>5. StatusHeld'
    BY <1>a, <2>1, <2>2 DEF StatusHeld, StatusBacked, StopHeld, ProcsTypes, Handles
  <2>6. QED
    BY <2>4, <2>5 DEF ProcsInv
<1>8. ASSUME NEW h \in 1 .. MaxHandle, BeginWait(h) PROVE ProcsInv'
  <2>1. /\ h \in DOMAIN monitor /\ monitor' = [monitor EXCEPT ![h] = "waiting"]
        /\ UNCHANGED <<os, status, table, nextPid, pc, mine, pid, stopping, asked>>
    BY <1>8 DEF BeginWait
  <2>2. Handles' = Handles /\ Started' = Started /\ Numbering' = Numbering
    BY <2>1 DEF Handles, Started, Numbering
  <2>3. QED
    BY <1>a, <2>1, <2>2 DEF ProcsInv, ProcsTypes, Registered, RoomForPids, StatusHeld, StatusBacked, StopHeld
<1>9. ASSUME NEW h \in 1 .. MaxHandle, Record(h) PROVE ProcsInv'
  <2>1. /\ h \in DOMAIN monitor /\ h \in Ended
        /\ monitor' = [monitor EXCEPT ![h] = "done"]
        /\ status' = [status EXCEPT ![h] = IF os[h] = "ok" THEN RUNNING ELSE ZOMBIE]
        /\ UNCHANGED <<os, table, nextPid, pc, mine, pid, stopping, asked>>
    BY <1>9 DEF Record
  <2>2. Handles' = Handles /\ Started' = Started /\ Numbering' = Numbering
    BY <2>1 DEF Handles, Started, Numbering
  <2>3. ProcsTypes' /\ Registered' /\ RoomForPids'
    BY <1>a, <2>1, <2>2 DEF ProcsTypes, Registered, RoomForPids
  <2>4. StatusHeld'
    BY <1>a, <2>1 DEF StatusHeld, StatusBacked, StopHeld, Ended, RUNNING, STOPPED, ZOMBIE
  <2>5. QED
    BY <2>3, <2>4 DEF ProcsInv
<1>10. CASE UNCHANGED vars
  BY <1>10, <1>a
  DEF vars, ProcsInv, ProcsTypes, Registered, RoomForPids, StatusHeld, StatusBacked, StopHeld, Started, Handles,
      Numbering
<1>11. QED
  BY <1>1, <1>2, <1>3, <1>4, <1>5, <1>6, <1>s, <1>7, <1>8, <1>9, <1>10
  DEF Next, Start, handleProcessStop

LEMMA ProcsInvTypes == ProcsInv => TypeOK
<1> SUFFICES ASSUME ProcsInv PROVE TypeOK
  OBVIOUS
<1>1. ProcsTypes /\ Registered /\ RoomForPids /\ StopHeld
  BY DEF ProcsInv, StatusHeld
<1>2. Cardinality(Numbering) \in Nat
  BY <1>1, FS_CardinalityType DEF RoomForPids
<1>3. nextPid \in FirstPid .. FirstPid + MaxHandle
  BY <1>1, <1>2, ProcsAssumption DEF RoomForPids, ProcsTypes
<1>4. QED
  BY <1>1, <1>3, ProcsAssumption DEF TypeOK, ProcsTypes, Registered, StopHeld

-----------------------------------------------------------------------------
(* The service.  The inductive invariant says for every state what an instance that *)
(* threads and workers refer to is; and, until one of the three races has happened,  *)
(* that one worker at most is in startService or stopService, which the status it     *)
(* found keeps the others out of, and that only the last instance does anything.   *)
Doing(i) == threads[i] = "started" \/ work[i] \in {"up", "broken"}
Active(i) == threads[i] = "started" \/ work[i] = "up"
At(p) == \E w \in Workers : servicePc[w] = p

ServiceTypes ==
  /\ Services!TypeOK
  /\ servicePc \in [Workers -> {"idle", "make", "thread", "launch", "mark", "stop", "join"}]
  /\ \A w \in Workers :
       /\ servicePc[w] \in {"thread", "launch"} => new[w] # 0
       /\ servicePc[w] = "launch" => thread # 0
       /\ servicePc[w] \in {"thread", "launch", "mark", "stop", "join"} => instance # 0
  /\ \A i \in Services!Instances : threads[i] # "none" => work[i] # "none" /\ instance # 0
  /\ serviceStatus = "running" => instance # 0

Calm ==
  /\ \A v, w \in Workers : servicePc[v] # "idle" /\ servicePc[w] # "idle" => v = w
  /\ \A w \in Workers :
       /\ servicePc[w] \in {"make", "thread", "launch", "mark"} => serviceStatus # "running"
       /\ servicePc[w] \in {"stop", "join"} => serviceStatus = "running"
       /\ servicePc[w] \in {"thread", "launch"} => new[w] = instance
       /\ servicePc[w] = "launch" => thread = instance
       /\ servicePc[w] = "mark" => Doing(instance)
       /\ servicePc[w] = "join" => \A i \in Services!Instances : ~Active(i)
  /\ \A i \in Services!Instances : Active(i) => i = instance
  /\ serviceStatus = "running" => Doing(instance) \/ At("join")
  /\ serviceStatus # "running" => At("mark") \/ \A i \in Services!Instances : ~Active(i)

ServiceInv == ServiceTypes /\ (~raced => Calm)

LEMMA ServiceStep == [TaskNext]_taskVars => [Services!Next]_(Services!vars)
BY DEF TaskNext, Asked, taskVars, serviceVars, Services!vars

LEMMA ServiceInvInit == TaskInit => ServiceInv
<1> SUFFICES ASSUME TaskInit PROVE ServiceInv
  OBVIOUS
<1>1. Services!Init
  BY DEF TaskInit
<1>2. ServiceTypes
  BY <1>1 DEF Services!Init, ServiceTypes, Services!TypeOK
<1>3. Calm
  BY <1>1 DEF Services!Init, Calm, Active
<1>4. QED
  BY <1>2, <1>3 DEF ServiceInv

LEMMA ServiceInvNext == ServiceInv /\ [Services!Next]_(Services!vars) => ServiceInv'
<1> SUFFICES ASSUME ServiceInv, [Services!Next]_(Services!vars) PROVE ServiceInv'
  OBVIOUS
<1> DEFINE I == Services!Instances
           Places == {"idle", "make", "thread", "launch", "mark", "stop", "join"}
<1>a. ServiceTypes /\ (~raced => Calm)
  BY DEF ServiceInv
<1>b. /\ serviceStatus \in {"running", "stopped", "error"}
      /\ instance \in I \union {0} /\ thread \in I \union {0}
      /\ instance # 0 => work[instance] # "none"
      /\ thread # 0 => work[thread] # "none"
      /\ work \in [I -> {"none", "new", "up", "broken", "down"}]
      /\ threads \in [I -> {"none", "new", "started", "ran"}]
      /\ new \in [Workers -> I \union {0}]
      /\ \A w \in Workers : new[w] # 0 => work[new[w]] # "none"
      /\ server \in {"up", "ended"} /\ raced \in BOOLEAN
      /\ servicePc \in [Workers -> Places]
  BY <1>a DEF ServiceTypes, Services!TypeOK, Services!Made
<1>c. 0 \notin I
  BY ServiceAssumed DEF Services!ServiceAssumption, Services!Instances
(* What is to be shown of a step: the types of what it writes, and the rest.   *)
<1>t. ASSUME /\ serviceStatus' \in {"running", "stopped", "error"}
             /\ instance' \in I \union {0} /\ thread' \in I \union {0}
             /\ instance' # 0 => work'[instance'] # "none"
             /\ thread' # 0 => work'[thread'] # "none"
             /\ work' \in [I -> {"none", "new", "up", "broken", "down"}]
             /\ threads' \in [I -> {"none", "new", "started", "ran"}]
             /\ new' \in [Workers -> I \union {0}]
             /\ \A w \in Workers : new'[w] # 0 => work'[new'[w]] # "none"
             /\ server' \in {"up", "ended"} /\ raced' \in BOOLEAN
      PROVE  Services!TypeOK'
  BY <1>t, <1>c DEF Services!TypeOK, Services!Made
<1>1. ASSUME NEW w \in Workers,
             Services!Request(w) \/ Services!Exit(w)
      PROVE  ServiceInv'
  <2>1. /\ UNCHANGED <<serviceStatus, instance, thread, work, threads, new, raced>>
        /\ servicePc' = servicePc /\ server' \in {"up", "ended"}
    BY <1>1, <1>b DEF Services!Request, Services!Exit, Services!Goto
  <2>2. Services!TypeOK'
    BY <1>t, <1>b, <2>1
  <2>3. ServiceTypes'
    BY <1>a, <2>1, <2>2 DEF ServiceTypes
  <2>4. (~raced => Calm)'
    BY <1>a, <2>1 DEF Calm, Doing, Active, At
  <2>5. QED
    BY <2>3, <2>4 DEF ServiceInv
<1>2. ASSUME NEW w \in Workers, Services!StartTest(w) PROVE ServiceInv'
  <2>1. /\ UNCHANGED <<serviceStatus, instance, thread, work, threads, new, server>>
        /\ servicePc[w] = "idle"
        /\ \/ servicePc' = servicePc /\ raced' = raced
           \/ /\ serviceStatus # "running"
              /\ servicePc' = [servicePc EXCEPT ![w] = "make"]
              /\ raced' = (raced \/ Services!Within(Services!InStart) # {})
    BY <1>2, <1>b DEF Services!StartTest, Services!Goto
  <2>2. Services!TypeOK'
    BY <1>t, <1>b, <2>1
  <2>3. ServiceTypes'
    BY <1>a, <1>b, <2>1, <2>2 DEF ServiceTypes
  <2>4. ASSUME ~raced' PROVE Calm'
    <3>1. ~raced /\ Calm
      BY <1>a, <1>b, <2>1, <2>4
    <3>2. CASE servicePc' = servicePc
      BY <2>1, <3>1, <3>2 DEF Calm, Doing, Active, At
    <3>3. CASE /\ serviceStatus # "running"
               /\ servicePc' = [servicePc EXCEPT ![w] = "make"]
               /\ Services!Within(Services!InStart) = {}
      <4>1. \A v \in Workers : servicePc[v] = "idle"
        BY <1>b, <3>1, <3>3 DEF Calm, Services!Within, Services!InStart
      <4>2. /\ servicePc'[w] = "make"
            /\ \A v \in Workers : v # w => servicePc'[v] = "idle"
        BY <1>b, <3>3, <4>1
      <4>3. ~At("mark") /\ ~At("join") /\ ~At("mark")'
        BY <4>1, <4>2 DEF At
      <4>4. QED
        BY <2>1, <3>1, <3>3, <4>2, <4>3 DEF Calm, Doing, Active
    <3>4. QED
      BY <2>1, <2>4, <3>2, <3>3
  <2>5. QED
    BY <2>3, <2>4 DEF ServiceInv
<1>3. ASSUME NEW w \in Workers, Services!StopTest(w) PROVE ServiceInv'
  <2>1. /\ UNCHANGED <<serviceStatus, instance, thread, work, threads, new, server>>
        /\ servicePc[w] = "idle"
        /\ \/ servicePc' = servicePc /\ raced' = raced
           \/ /\ serviceStatus = "running"
              /\ servicePc' = [servicePc EXCEPT ![w] = "stop"]
              /\ raced' = (raced \/ Services!Within(Services!InStop) # {})
    BY <1>3, <1>b DEF Services!StopTest, Services!Goto
  <2>2. Services!TypeOK'
    BY <1>t, <1>b, <2>1
  <2>3. ServiceTypes'
    BY <1>a, <1>b, <2>1, <2>2 DEF ServiceTypes
  <2>4. ASSUME ~raced' PROVE Calm'
    <3>1. ~raced /\ Calm
      BY <1>a, <1>b, <2>1, <2>4
    <3>2. CASE servicePc' = servicePc
      BY <2>1, <3>1, <3>2 DEF Calm, Doing, Active, At
    <3>3. CASE /\ serviceStatus = "running"
               /\ servicePc' = [servicePc EXCEPT ![w] = "stop"]
               /\ Services!Within(Services!InStop) = {}
      <4>1. \A v \in Workers : servicePc[v] = "idle"
        BY <1>b, <3>1, <3>3 DEF Calm, Services!Within, Services!InStop
      <4>2. /\ servicePc'[w] = "stop"
            /\ \A v \in Workers : v # w => servicePc'[v] = "idle"
        BY <1>b, <3>3, <4>1
      <4>3. ~At("join")
        BY <4>1 DEF At
      <4>4. QED
        BY <2>1, <3>1, <3>3, <4>2, <4>3 DEF Calm, Doing, Active
    <3>4. QED
      BY <2>1, <2>4, <3>2, <3>3
  <2>5. QED
    BY <2>3, <2>4 DEF ServiceInv
<1>4. ASSUME NEW w \in Workers, Services!StartMake(w) PROVE ServiceInv'
  <2>0. servicePc[w] = "make" /\ UNCHANGED <<thread, threads, server, raced>>
    BY <1>4 DEF Services!StartMake, Services!Goto
  <2>c. ~raced => /\ serviceStatus # "running"
                  /\ \A v \in Workers : v # w => servicePc[v] = "idle"
                  /\ \A i \in I : ~Active(i)
    BY <1>a, <1>b, <2>0 DEF Calm, At
  <2>1. ASSUME NEW i \in I, work[i] = "none",
               servicePc' = [servicePc EXCEPT ![w] = "thread"],
               work' = [work EXCEPT ![i] = "new"], instance' = i,
               new' = [new EXCEPT ![w] = i], serviceStatus' = serviceStatus
        PROVE  ServiceInv'
    <3>1. /\ \A j \in I : work[j] # "none" => work'[j] # "none"
          /\ work'[i] = "new"
          /\ \A v \in Workers : new'[v] # 0 => work'[new'[v]] # "none"
      BY <1>b, <2>1
    <3>2. /\ new' \in [Workers -> I \union {0}]
          /\ work' \in [I -> {"none", "new", "up", "broken", "down"}]
      BY <1>b, <2>1
    <3>3. Services!TypeOK'
      BY <1>t, <1>b, <1>c, <2>0, <2>1, <3>1, <3>2
    <3>4. ServiceTypes'
      BY <1>a, <1>b, <1>c, <2>0, <2>1, <3>1, <3>3 DEF ServiceTypes
    <3>5. ASSUME ~raced' PROVE Calm'
      <4>1. /\ servicePc'[w] = "thread" /\ new'[w] = i
            /\ \A v \in Workers : v # w => servicePc'[v] = "idle"
            /\ \A j \in I : ~Active(j)'
        BY <1>b, <2>0, <2>1, <2>c, <3>5 DEF Active
      <4>2. serviceStatus' # "running"
        BY <2>0, <2>1, <2>c, <3>5
      <4>3. QED
        BY <2>1, <4>1, <4>2 DEF Calm
    <3>6. QED
      BY <3>4, <3>5 DEF ServiceInv
  <2>2. ASSUME servicePc' = [servicePc EXCEPT ![w] = "idle"], serviceStatus' = "error",
               UNCHANGED <<work, instance, new>>
        PROVE  ServiceInv'
    <3>1. Services!TypeOK'
      BY <1>t, <1>b, <2>0, <2>2
    <3>2. ServiceTypes'
      BY <1>a, <1>b, <2>0, <2>2, <3>1 DEF ServiceTypes
    <3>3. ASSUME ~raced' PROVE Calm'
      <4>1. /\ \A v \in Workers : servicePc'[v] = "idle"
            /\ \A j \in I : ~Active(j)'
        BY <1>b, <2>0, <2>2, <2>c, <3>3 DEF Active
      <4>2. QED
        BY <2>2, <4>1 DEF Calm
    <3>4. QED
      BY <3>2, <3>3 DEF ServiceInv
  <2>3. QED
    BY <1>4, <2>1, <2>2 DEF Services!StartMake, Services!Goto, Services!Made
<1>5. ASSUME NEW w \in Workers, Services!StartThread(w) PROVE ServiceInv'
  <2>1. /\ servicePc[w] = "thread" /\ servicePc' = [servicePc EXCEPT ![w] = "launch"]
        /\ thread' = new[w] /\ threads' = [threads EXCEPT ![new[w]] = "new"]
        /\ UNCHANGED <<serviceStatus, instance, work, new, server, raced>>
    BY <1>5 DEF Services!StartThread, Services!Goto
  <2>2. new[w] \in I /\ work[new[w]] # "none" /\ instance # 0
    BY <1>a, <1>b, <2>1 DEF ServiceTypes
  <2>3. threads' \in [I -> {"none", "new", "started", "ran"}]
    BY <1>b, <2>1
  <2>4. Services!TypeOK'
    BY <1>t, <1>b, <2>1, <2>2, <2>3
  <2>5. ServiceTypes'
    BY <1>a, <1>b, <1>c, <2>1, <2>2, <2>4 DEF ServiceTypes
  <2>6. ASSUME ~raced' PROVE Calm'
    <3>1. /\ \A v \in Workers : v # w => servicePc[v] = "idle"
          /\ serviceStatus # "running" /\ new[w] = instance
          /\ \A i \in I : ~Active(i)
      BY <1>a, <1>b, <2>1, <2>6 DEF Calm, At
    <3>2. /\ servicePc'[w] = "launch" /\ \A v \in Workers : v # w => servicePc'[v] = "idle"
          /\ \A i \in I : ~Active(i)'
      BY <1>b, <2>1, <3>1 DEF Active
    <3>3. QED
      BY <2>1, <3>1, <3>2 DEF Calm
  <2>7. QED
    BY <2>5, <2>6 DEF ServiceInv
<1>6. ASSUME NEW w \in Workers, Services!StartLaunch(w) PROVE ServiceInv'
  <2>1. /\ servicePc[w] = "launch"
        /\ UNCHANGED <<instance, thread, work, new, server, raced>>
    BY <1>6 DEF Services!StartLaunch, Services!Goto
  <2>2. thread \in I /\ work[thread] # "none" /\ instance \in I
    BY <1>a, <1>b, <2>1 DEF ServiceTypes
  <2>c. ~raced => /\ \A v \in Workers : v # w => servicePc[v] = "idle"
                  /\ serviceStatus # "running" /\ thread = instance
                  /\ \A i \in I : ~Active(i)
    BY <1>a, <1>b, <2>1 DEF Calm, At
  <2>3. CASE /\ servicePc' = [servicePc EXCEPT ![w] = "mark"]
             /\ threads' = [threads EXCEPT ![thread] = "started"]
             /\ serviceStatus' = serviceStatus
    <3>1. threads' \in [I -> {"none", "new", "started", "ran"}]
      BY <1>b, <2>3
    <3>2. Services!TypeOK'
      BY <1>t, <1>b, <2>1, <2>3, <3>1
    <3>3. ServiceTypes'
      BY <1>a, <1>b, <1>c, <2>1, <2>2, <2>3, <3>2 DEF ServiceTypes
    <3>4. ASSUME ~raced' PROVE Calm'
      <4>1. /\ servicePc'[w] = "mark" /\ \A v \in Workers : v # w => servicePc'[v] = "idle"
            /\ threads'[instance] = "started"
            /\ \A i \in I : i # instance => threads'[i] = threads[i] /\ work'[i] = work[i]
        BY <1>b, <2>1, <2>2, <2>3, <2>c, <3>4
      <4>2. Doing(instance)' /\ At("mark")' /\ \A i \in I : Active(i)' => i = instance
        BY <2>1, <2>c, <3>4, <4>1 DEF Doing, Active, At
      <4>3. QED
        BY <2>1, <2>3, <2>c, <3>4, <4>1, <4>2 DEF Calm
    <3>5. QED
      BY <3>3, <3>4 DEF ServiceInv
  <2>4. CASE /\ servicePc' = [servicePc EXCEPT ![w] = "idle"]
             /\ serviceStatus' = "error" /\ threads' = threads
    <3>1. Services!TypeOK'
      BY <1>t, <1>b, <2>1, <2>4
    <3>2. ServiceTypes'
      BY <1>a, <1>b, <2>1, <2>4, <3>1 DEF ServiceTypes
    <3>3. ASSUME ~raced' PROVE Calm'
      <4>1. /\ \A v \in Workers : servicePc'[v] = "idle"
            /\ \A i \in I : ~Active(i)'
        BY <1>b, <2>1, <2>4, <2>c, <3>3 DEF Active
      <4>2. QED
        BY <2>4, <4>1 DEF Calm
    <3>4. QED
      BY <3>2, <3>3 DEF ServiceInv
  <2>5. QED
    BY <1>6, <2>3, <2>4 DEF Services!StartLaunch, Services!Goto
<1>7. ASSUME NEW w \in Workers, Services!StartMark(w) PROVE ServiceInv'
  <2>1. /\ servicePc[w] = "mark" /\ servicePc' = [servicePc EXCEPT ![w] = "idle"]
        /\ serviceStatus' = "running"
        /\ UNCHANGED <<instance, thread, work, threads, new, server, raced>>
    BY <1>7 DEF Services!StartMark, Services!Goto
  <2>2. Services!TypeOK'
    BY <1>t, <1>b, <2>1
  <2>3. ServiceTypes'
    BY <1>a, <1>b, <2>1, <2>2 DEF ServiceTypes
  <2>4. ASSUME ~raced' PROVE Calm'
    <3>1. /\ \A v \in Workers : v # w => servicePc[v] = "idle"
          /\ Doing(instance) /\ \A i \in I : Active(i) => i = instance
      BY <1>a, <1>b, <2>1, <2>4 DEF Calm
    <3>2. \A v \in Workers : servicePc'[v] = "idle"
      BY <1>b, <2>1, <3>1
    <3>3. Doing(instance)' /\ \A i \in I : Active(i)' => i = instance
      BY <2>1, <3>1 DEF Doing, Active
    <3>4. QED
      BY <2>1, <3>2, <3>3 DEF Calm
  <2>5. QED
    BY <2>3, <2>4 DEF ServiceInv
<1>8. ASSUME NEW i \in I, Services!ThreadRuns(i) PROVE ServiceInv'
  <2>1. /\ threads[i] = "started" /\ threads' = [threads EXCEPT ![i] = "ran"]
        /\ UNCHANGED <<serviceStatus, instance, thread, servicePc, new, server, raced>>
    BY <1>8 DEF Services!ThreadRuns, Services!Pending
  <2>2. PICK how \in {"up", "broken"} : work' = [work EXCEPT ![instance] = how]
    BY <1>8 DEF Services!ThreadRuns
  <2>3. instance \in I
    BY <1>a, <1>b, <2>1 DEF ServiceTypes
  <2>4. /\ work' \in [I -> {"none", "new", "up", "broken", "down"}]
        /\ threads' \in [I -> {"none", "new", "started", "ran"}]
        /\ \A j \in I : work[j] # "none" => work'[j] # "none"
    BY <1>b, <2>1, <2>2, <2>3
  <2>5. Services!TypeOK'
    BY <1>t, <1>b, <2>1, <2>3, <2>4
  <2>6. ServiceTypes'
    BY <1>a, <1>b, <1>c, <2>1, <2>3, <2>4, <2>5 DEF ServiceTypes
  <2>7. ASSUME ~raced' PROVE Calm'
    <3>1. Calm /\ i = instance
      BY <1>a, <2>1, <2>7 DEF Calm, Active
    <3>2. /\ Doing(instance)'
          /\ \A j \in I : j # instance => threads'[j] = threads[j] /\ work'[j] = work[j]
      BY <1>b, <2>1, <2>2, <2>3, <3>1 DEF Doing
    <3>3. \A j \in I : Active(j)' => j = instance
      BY <3>1, <3>2 DEF Calm, Active
    <3>4. /\ ~At("join") /\ Active(i)
          /\ serviceStatus # "running" => At("mark")
      BY <2>1, <3>1 DEF Calm, Active, At
    <3>5. \A w \in Workers : servicePc[w] # "join"
      BY <3>4 DEF At
    <3>6. QED
      BY <2>1, <3>1, <3>2, <3>3, <3>4, <3>5 DEF Calm, At
  <2>8. QED
    BY <2>6, <2>7 DEF ServiceInv
<1>9. ASSUME NEW w \in Workers, Services!StopInstance(w) PROVE ServiceInv'
  <2>1. /\ servicePc[w] = "stop"
        /\ UNCHANGED <<serviceStatus, instance, thread, threads, new, server>>
        /\ raced' = (raced \/ Services!Pending # {})
    BY <1>9 DEF Services!StopInstance, Services!Goto
  <2>2. PICK l \in {"join", "idle"} :
          /\ servicePc' = [servicePc EXCEPT ![w] = l]
          /\ work' = [work EXCEPT ![instance] = IF l = "join" THEN "down" ELSE "broken"]
    BY <1>9 DEF Services!StopInstance, Services!Goto
  <2>3. instance \in I
    BY <1>a, <1>b, <2>1 DEF ServiceTypes
  <2>4. /\ work' \in [I -> {"none", "new", "up", "broken", "down"}]
        /\ \A j \in I : work[j] # "none" => work'[j] # "none"
    BY <1>b, <2>2, <2>3
  <2>5. Services!TypeOK'
    BY <1>t, <1>b, <2>1, <2>3, <2>4
  <2>6. ServiceTypes'
    BY <1>a, <1>b, <1>c, <2>1, <2>2, <2>3, <2>4, <2>5 DEF ServiceTypes
  <2>7. ASSUME ~raced' PROVE Calm'
    <3>1. Calm /\ \A i \in I : threads[i] # "started"
      BY <1>a, <1>b, <2>1, <2>7 DEF Services!Pending
    <3>2. /\ \A v \in Workers : v # w => servicePc[v] = "idle"
          /\ serviceStatus = "running"
          /\ \A i \in I : work[i] = "up" => i = instance
      BY <1>b, <2>1, <3>1 DEF Calm, Active
    <3>3. servicePc'[w] = l /\ \A v \in Workers : v # w => servicePc'[v] = "idle"
      BY <1>b, <2>2, <3>2
    <3>4. \A i \in I : ~Active(i)'
      BY <1>b, <2>1, <2>2, <2>3, <3>1, <3>2 DEF Active
    <3>5. Doing(instance)' \/ At("join")'
      BY <1>b, <2>1, <2>2, <2>3, <3>3 DEF Doing, At
    <3>6. QED
      BY <2>1, <2>2, <3>2, <3>3, <3>4, <3>5 DEF Calm
  <2>8. QED
    BY <2>6, <2>7 DEF ServiceInv
<1>10. ASSUME NEW w \in Workers, Services!StopMark(w) PROVE ServiceInv'
  <2>1. /\ servicePc[w] = "join" /\ servicePc' = [servicePc EXCEPT ![w] = "idle"]
        /\ serviceStatus' = "stopped"
        /\ UNCHANGED <<instance, thread, work, threads, new, server, raced>>
    BY <1>10 DEF Services!StopMark, Services!Goto
  <2>2. Services!TypeOK'
    BY <1>t, <1>b, <2>1
  <2>3. ServiceTypes'
    BY <1>a, <1>b, <2>1, <2>2 DEF ServiceTypes
  <2>4. ASSUME ~raced' PROVE Calm'
    <3>1. /\ \A v \in Workers : v # w => servicePc[v] = "idle"
          /\ \A i \in I : ~Active(i)
      BY <1>a, <1>b, <2>1, <2>4 DEF Calm
    <3>2. \A v \in Workers : servicePc'[v] = "idle"
      BY <1>b, <2>1, <3>1
    <3>3. \A i \in I : ~Active(i)'
      BY <2>1, <3>1 DEF Active
    <3>4. QED
      BY <2>1, <3>2, <3>3 DEF Calm
  <2>5. QED
    BY <2>3, <2>4 DEF ServiceInv
<1>11. CASE UNCHANGED Services!vars
  <2>1. UNCHANGED <<serviceStatus, instance, thread, work, threads, servicePc, new, server,
                    raced>>
    BY <1>11 DEF Services!vars
  <2>2. Services!TypeOK'
    BY <1>t, <1>b, <2>1
  <2>3. QED
    BY <1>a, <2>1, <2>2 DEF ServiceInv, ServiceTypes, Calm, Doing, Active, At
<1>12. QED
  BY <1>1, <1>2, <1>3, <1>4, <1>5, <1>6, <1>7, <1>8, <1>9, <1>10, <1>11
  DEF Services!Next, Services!Serve

LEMMA ServiceInvBacked == ServiceInv => Services!TypeOK /\ Services!RunningBacked
<1> SUFFICES ASSUME ServiceInv, ~raced PROVE Services!RunningBacked
  BY DEF ServiceInv, ServiceTypes, Services!RunningBacked
<1>1. Calm /\ ServiceTypes
  BY DEF ServiceInv
<1>2. Services!Up \subseteq {instance}
  BY <1>1 DEF Calm, Active, Services!Up
<1>3. serviceStatus # "running" => Services!Up = {} \/ Services!Within({"mark"}) # {}
  BY <1>1 DEF Calm, Active, At, Services!Up, Services!Within
<1>4. ASSUME serviceStatus = "running"
      PROVE  \/ Services!Pending # {} \/ Services!Within({"join"}) # {}
             \/ instance # 0 /\ work[instance] \in {"up", "broken"}
  <2>1. instance \in Services!Instances
    BY <1>1, <1>4 DEF ServiceTypes, Services!TypeOK, Services!Made
  <2>2. CASE At("join")
    BY <2>2 DEF At, Services!Within
  <2>3. CASE Doing(instance)
    BY <1>1, <1>4, <2>1, <2>3 DEF Doing, Services!Pending, ServiceTypes
  <2>4. QED
    BY <1>1, <1>4, <2>2, <2>3 DEF Calm
<1>5. QED
  BY <1>2, <1>3, <1>4 DEF Services!RunningBacked

(* "stopped" tells of a stop that was asked for and "zombie" of a process that      *)
(* failed, in whatever order stops, ends and monitors come. For any number of          *)
(* workers: until two starts or two stops of a service overlap, or a stop overtakes    *)
(* the thread of a start, one instance is up at most; it is up, about to be, being      *)
(* stopped, or its start or stop has thrown, when the service is shown as running;      *)
(* and it is not up when the service is not shown as running, or about to be.      *)
THEOREM StatusIsBacked == TaskSpec => []WhatRunsBacked
<1>1. TaskSpec => []ProcsInv
  BY ProcsInvInit, ProcsStep, ProcsInvNext, PTL DEF TaskSpec
<1>2. TaskSpec => []ServiceInv
  BY ServiceInvInit, ServiceStep, ServiceInvNext, PTL DEF TaskSpec
<1>3. ProcsInv /\ ServiceInv => WhatRunsBacked
  BY ProcsInvTypes, ServiceInvBacked DEF WhatRunsBacked, ProcsInv, StatusHeld
<1>4. QED
  BY <1>1, <1>2, <1>3, PTL

-----------------------------------------------------------------------------
(* The files.  As long as a request is alone with the path, the file it has open   *)
(* is the one the path leads to, and that file is as its steps so far left it.  A     *)
(* file can be made for each call that is yet to open one.                     *)
Opening == {w \in Workers : handler[w] = "open"}

FileTypes ==
  /\ path \in 0 .. made /\ made \in Nat
  /\ calls \in 0 .. MaxCalls
  /\ content \in [1 .. MaxCalls -> Seq(Nat)]
  /\ handler \in [Workers -> {"idle", "exists", "stream", "length", "read", "has read",
                              "open", "write", "has written", "delete"}]
  /\ file \in [Workers -> 0 .. made] /\ pos \in [Workers -> Nat]
  /\ data \in [Workers -> Seq(Nat)] /\ before \in [Workers -> Seq(Int)]
  /\ alone \in [Workers -> BOOLEAN]

RoomForFiles ==
  /\ IsFiniteSet(Opening) /\ made + Cardinality(Opening) <= calls
  /\ \A w \in Workers : handler[w] \in {"length", "read", "write"} => file[w] # 0

FromSomewhere(i, byte) == byte = 0 \/ \E d \in Data : i \in DOMAIN d /\ d[i] = byte
RightBytes ==
  /\ \A f \in 1 .. MaxCalls : \A i \in DOMAIN content[f] : FromSomewhere(i, content[f][i])
  /\ \A w \in Workers : \A i \in DOMAIN data[w] : FromSomewhere(i, data[w][i])

Apart(w) ==
  handler[w] # "idle" => \A u \in Workers \ {w} : handler[u] \notin Files!Changing

Undisturbed(w) ==
  /\ handler[w] \in {"exists", "stream", "length", "read"} => before[w] = Files!At(path)
  /\ handler[w] \in {"length", "read", "write", "has written"} => path # 0 /\ file[w] = path
  /\ handler[w] = "read" => Len(data[w]) = Len(content[path])
  /\ handler[w] = "has read" => data[w] = before[w]
  /\ handler[w] = "write" =>
       /\ Len(content[path]) = pos[w] /\ pos[w] <= Len(data[w])
       /\ \A i \in 1 .. pos[w] : content[path][i] = data[w][i]
  /\ handler[w] = "has written" => content[path] = data[w]

FilesInv ==
  /\ FileTypes /\ RoomForFiles /\ RightBytes
  /\ \A w \in Workers : alone[w] => Apart(w) /\ Undisturbed(w)

LEMMA FilesStep == [TaskNext]_taskVars => [Files!Next]_(Files!vars)
BY DEF TaskNext, Asked, taskVars, fileVars, Files!vars

LEMMA FilesConstants == Data \subseteq Seq(Nat) /\ MaxCalls \in Nat
BY FilesAssumed DEF Files!FilesAssumption

LEMMA FilesInvInit == TaskInit => FilesInv
<1> SUFFICES ASSUME TaskInit PROVE FilesInv
  OBVIOUS
<1>1. Files!Init
  BY DEF TaskInit
<1>2. Opening = {}
  BY <1>1 DEF Files!Init, Opening
<1>3. IsFiniteSet(Opening) /\ Cardinality(Opening) = 0
  BY <1>2, FS_EmptySet
<1>4. FileTypes
  BY <1>1, FilesConstants DEF Files!Init, FileTypes, Files!Missing
<1>5. RoomForFiles /\ RightBytes
  BY <1>1, <1>3 DEF Files!Init, RoomForFiles, RightBytes
<1>6. \A w \in Workers : Apart(w) /\ Undisturbed(w)
  BY <1>1 DEF Files!Init, Apart, Undisturbed
<1>7. QED
  BY <1>4, <1>5, <1>6 DEF FilesInv

(* What follows of the ranges.                                              *)
FileRanges ==
  /\ path \in 0 .. MaxCalls /\ made \in 0 .. MaxCalls
  /\ path # 0 => path \in 1 .. MaxCalls
  /\ calls \in 0 .. MaxCalls /\ MaxCalls \in Nat
  /\ \A f \in 1 .. MaxCalls : content[f] \in Seq(Nat) /\ Len(content[f]) \in Nat
  /\ \A w \in Workers : data[w] \in Seq(Nat) /\ Len(data[w]) \in Nat
  /\ \A w \in Workers : file[w] \in 0 .. MaxCalls /\ pos[w] \in Nat
  /\ \A w \in Workers : handler[w] \in {"length", "read", "write"} => file[w] \in 1 .. MaxCalls

LEMMA FileFacts == FileTypes /\ RoomForFiles => FileRanges
<1> SUFFICES ASSUME FileTypes, RoomForFiles PROVE FileRanges
  OBVIOUS
<1>1. /\ path \in 0 .. made /\ made \in Nat /\ calls \in 0 .. MaxCalls
      /\ file \in [Workers -> 0 .. made] /\ pos \in [Workers -> Nat]
  BY DEF FileTypes
<1>2. Cardinality(Opening) \in Nat /\ made + Cardinality(Opening) <= calls
  BY FS_CardinalityType DEF RoomForFiles
<1>3. /\ made \in 0 .. MaxCalls /\ path \in 0 .. MaxCalls /\ MaxCalls \in Nat
      /\ path # 0 => path \in 1 .. MaxCalls
  BY <1>1, <1>2, FilesConstants
<1>4. \A f \in 1 .. MaxCalls : content[f] \in Seq(Nat)
  BY DEF FileTypes
<1>5. \A w \in Workers : data[w] \in Seq(Nat)
  BY DEF FileTypes
<1>6. \A s \in Seq(Nat) : Len(s) \in Nat
  OBVIOUS
<1>7. \A w \in Workers : file[w] \in 0 .. MaxCalls /\ pos[w] \in Nat
  BY <1>1, <1>3
<1>8. \A w \in Workers : handler[w] \in {"length", "read", "write"} => file[w] \in 1 .. MaxCalls
  BY <1>3, <1>7 DEF RoomForFiles
<1>9. QED
  BY <1>1, <1>3, <1>4, <1>5, <1>6, <1>7, <1>8 DEF FileRanges

LEMMA Zeros ==
  ASSUME NEW k \in Nat
  PROVE  [i \in 1 .. k |-> 0] \in Seq(Nat) /\ Len([i \in 1 .. k |-> 0]) = k
OBVIOUS

(* The bytes of an array, as long as a, after c was read into it.               *)
Filled(a, c) == [i \in DOMAIN a |-> IF i \in DOMAIN c THEN c[i] ELSE 0]

LEMMA FilledFacts ==
  ASSUME NEW a \in Seq(Nat), NEW c \in Seq(Nat)
  PROVE  /\ Filled(a, c) \in Seq(Nat)
         /\ Len(a) = Len(c) => Filled(a, c) = c
<1>1. PICK k \in Nat : k = Len(a)
  OBVIOUS
<1>2. DOMAIN a = 1 .. k
  BY <1>1
<1>3. \A i \in DOMAIN c : c[i] \in Nat
  OBVIOUS
<1>4. [i \in 1 .. k |-> IF i \in DOMAIN c THEN c[i] ELSE 0] \in [1 .. k -> Nat]
  BY <1>3
<1>5. [1 .. k -> Nat] \subseteq Seq(Nat)
  OBVIOUS
<1>6. ASSUME Len(a) = Len(c) PROVE Filled(a, c) = c
  <2>1. DOMAIN a = DOMAIN c
    BY <1>6
  <2>2. c = [i \in DOMAIN c |-> c[i]]
    OBVIOUS
  <2>3. [i \in DOMAIN c |-> IF i \in DOMAIN c THEN c[i] ELSE 0] = [i \in DOMAIN c |-> c[i]]
    OBVIOUS
  <2>4. QED
    BY <2>1, <2>2, <2>3 DEF Filled
<1>7. QED
  BY <1>2, <1>4, <1>5, <1>6 DEF Filled

(* The bytes of a file c after those of a from the position p to n were written.   *)
Written(a, c, p, n) ==
  [i \in 1 .. (IF n > Len(c) THEN n ELSE Len(c)) |->
     IF i \in p + 1 .. n THEN a[i] ELSE IF i \in DOMAIN c THEN c[i] ELSE 0]

LEMMA WrittenFacts ==
  ASSUME NEW a \in Seq(Nat), NEW c \in Seq(Nat), NEW p \in Nat, NEW n \in Nat,
         p < n, n <= Len(a)
  PROVE  /\ Written(a, c, p, n) \in Seq(Nat)
         /\ \A i \in DOMAIN Written(a, c, p, n) :
              \/ Written(a, c, p, n)[i] = 0
              \/ i \in DOMAIN a /\ Written(a, c, p, n)[i] = a[i]
              \/ i \in DOMAIN c /\ Written(a, c, p, n)[i] = c[i]
<1> DEFINE bytes == Written(a, c, p, n)
<1>1. PICK k \in Nat : k = IF n > Len(c) THEN n ELSE Len(c)
  OBVIOUS
<1>2. \A i \in p + 1 .. n : i \in DOMAIN a /\ a[i] \in Nat
  OBVIOUS
<1>3. \A i \in DOMAIN c : c[i] \in Nat
  OBVIOUS
<1>4. bytes = [i \in 1 .. k |-> IF i \in p + 1 .. n THEN a[i]
                                ELSE IF i \in DOMAIN c THEN c[i] ELSE 0]
  BY <1>1 DEF Written
<1>5. bytes \in [1 .. k -> Nat]
  BY <1>2, <1>3, <1>4
<1>6. [1 .. k -> Nat] \subseteq Seq(Nat)
  OBVIOUS
<1>7. \A i \in 1 .. k : bytes[i] = 0 \/ (i \in DOMAIN a /\ bytes[i] = a[i])
                                     \/ (i \in DOMAIN c /\ bytes[i] = c[i])
  BY <1>2, <1>4
<1>8. QED
  BY <1>5, <1>6, <1>7

LEMMA WrittenOn ==
  ASSUME NEW a \in Seq(Nat), NEW c \in Seq(Nat), NEW p \in Nat, NEW n \in Nat,
         p < n, n <= Len(a), Len(c) = p, \A i \in 1 .. p : c[i] = a[i]
  PROVE  /\ Len(Written(a, c, p, n)) = n
         /\ \A i \in 1 .. n : Written(a, c, p, n)[i] = a[i]
         /\ n = Len(a) => Written(a, c, p, n) = a
<1> DEFINE bytes == Written(a, c, p, n)
<1>1. bytes = [i \in 1 .. n |-> a[i]]
  BY DEF Written
<1>2. bytes \in Seq(Nat) /\ Len(bytes) = n
  <2>1. \A i \in 1 .. n : a[i] \in Nat
    OBVIOUS
  <2>2. bytes \in [1 .. n -> Nat]
    BY <1>1, <2>1
  <2>3. QED
    BY <2>2
<1>3. n = Len(a) => bytes = a
  BY <1>1
<1>4. QED
  BY <1>1, <1>2, <1>3

LEMMA FilesInvNext == FilesInv /\ [Files!Next]_(Files!vars) => FilesInv'
<1> SUFFICES ASSUME FilesInv, [Files!Next]_(Files!vars) PROVE FilesInv'
  OBVIOUS
<1> DEFINE C == Files!Changing
           O == Cardinality(Opening)
<1>a. /\ FileTypes /\ RoomForFiles /\ RightBytes
      /\ \A w \in Workers : alone[w] => Apart(w) /\ Undisturbed(w)
  BY DEF FilesInv
<1>b. O \in Nat /\ IsFiniteSet(Opening) /\ made + O <= calls
  BY <1>a, FS_CardinalityType DEF RoomForFiles
<1>c. FileRanges
  BY <1>a, FileFacts
<1>k. /\ handler \in [Workers -> {"idle", "exists", "stream", "length", "read", "has read",
                              "open", "write", "has written", "delete"}]
      /\ alone \in [Workers -> BOOLEAN]
      /\ file \in [Workers -> 0 .. MaxCalls] /\ pos \in [Workers -> Nat]
      /\ data \in [Workers -> Seq(Nat)]
      /\ before \in [Workers -> Seq(Int)] /\ content \in [1 .. MaxCalls -> Seq(Nat)]
  BY <1>a, <1>c DEF FileTypes, FileRanges
<1>d. ASSUME NEW v \in Workers, alone[v], UNCHANGED <<path, content>>,
             handler'[v] = handler[v], file'[v] = file[v], data'[v] = data[v],
             pos'[v] = pos[v], before'[v] = before[v],
             \A u \in Workers \ {v} : handler'[u] \in C => handler[u] \in C
      PROVE  Apart(v)' /\ Undisturbed(v)'
  <2>1. Apart(v) /\ Undisturbed(v)
    BY <1>a, <1>d
  <2>2. Apart(v)'
    BY <2>1, <1>d DEF Apart
  <2>3. Undisturbed(v)'
    BY <2>1, <1>d DEF Undisturbed, Files!At, Files!Missing
  <2>4. QED
    BY <2>2, <2>3
<1>e. ASSUME NEW w \in Workers, handler[w] \in C, alone' = alone,
             \A v \in Workers \ {w} : handler'[v] = handler[v]
      PROVE  \A v \in Workers \ {w} : alone'[v] => Apart(v)' /\ Undisturbed(v)'
  <2> SUFFICES ASSUME NEW v \in Workers \ {w}, alone[v] PROVE Apart(v)' /\ Undisturbed(v)'
    BY <1>e
  <2>1. handler'[v] = "idle"
    BY <1>a, <1>e DEF Apart
  <2>2. QED
    BY <2>1 DEF Apart, Undisturbed
<1>g. ASSUME NEW w \in Workers, NEW l, handler' = [handler EXCEPT ![w] = l],
             handler[w] # "open", l # "open"
      PROVE  Opening' = Opening
  BY <1>k, <1>g DEF Opening
<1>f. ASSUME NEW w \in Workers, NEW l \in {"exists", "open", "delete"}, NEW d \in Seq(Nat),
             Files!Begin(w, l), data' = [data EXCEPT ![w] = d],
             \A i \in DOMAIN d : FromSomewhere(i, d[i])
      PROVE  FilesInv'
  <2>1. /\ handler[w] = "idle" /\ handler' = [handler EXCEPT ![w] = l]
        /\ calls < MaxCalls /\ calls' = calls + 1
        /\ before' = [before EXCEPT ![w] = Files!At(path)]
        /\ UNCHANGED <<path, made, content, file, pos>>
    BY <1>f DEF Files!Begin, Files!Goto
  <2>2. alone' = [v \in Workers |->
          IF v = w THEN \A u \in Workers \ {w} : handler[u] \notin C
                   ELSE alone[v] /\ l \notin C]
    BY <1>f DEF Files!Begin
  <2> DEFINE lonely(v) == IF v = w THEN \A u \in Workers \ {w} : handler[u] \notin C
                                   ELSE alone[v] /\ l \notin C
  <2>a. \A v \in Workers : lonely(v) \in BOOLEAN
    BY Zenon
  <2>3. alone' \in [Workers -> BOOLEAN] /\ \A v \in Workers : alone'[v] = lonely(v)
    <3>1. alone' = [v \in Workers |-> lonely(v)]
      BY <2>2
    <3>2. QED
      BY ONLY <2>a, <3>1, Zenon
  <2>4. Files!At(path) \in Seq(Int)
    <3>1. CASE path = 0
      BY <3>1 DEF Files!At, Files!Missing
    <3>2. CASE path # 0
      <4>1. content[path] \in Seq(Nat)
        BY <3>2, <1>c DEF FileRanges
      <4>2. QED
        BY <3>2, <4>1 DEF Files!At
    <3>3. QED
      BY <3>1, <3>2
  <2>5. FileTypes'
    <3>1. handler' \in [Workers -> {"idle", "exists", "stream", "length", "read", "has read",
                              "open", "write", "has written", "delete"}]
      BY <1>k, <2>1
    <3>2. data' \in [Workers -> Seq(Nat)] /\ before' \in [Workers -> Seq(Int)]
      BY <1>k, <1>f, <2>1, <2>4
    <3>3. calls' \in 0 .. MaxCalls
      BY <1>c, <2>1 DEF FileRanges
    <3>4. QED
      BY <1>a, <2>1, <2>3, <3>1, <3>2, <3>3 DEF FileTypes
  <2>6. w \notin Opening /\ (Opening' = Opening \/ Opening' = Opening \union {w})
    BY <1>k, <2>1 DEF Opening
  <2>7. IsFiniteSet(Opening') /\ O' \in Nat /\ O' <= O + 1
    BY <1>b, <2>6, AddOne
  <2>8. RoomForFiles'
    <3>1. made' + O' <= calls'
      BY <1>b, <1>c, <2>1, <2>7 DEF FileRanges
    <3>2. \A v \in Workers : handler'[v] \in {"length", "read", "write"} => file'[v] # 0
      BY <1>a, <1>k, <1>f, <2>1 DEF RoomForFiles
    <3>3. QED
      BY <2>7, <3>1, <3>2 DEF RoomForFiles
  <2>9. RightBytes'
    BY <1>a, <1>k, <1>f, <2>1 DEF RightBytes
  <2>10. alone'[w] => Apart(w)' /\ Undisturbed(w)'
    <3>1. handler'[w] = l /\ before'[w] = Files!At(path)
      BY <1>k, <2>1
    <3>2. \A u \in Workers \ {w} : handler'[u] = handler[u]
      BY <1>k, <2>1
    <3>3. alone'[w] => Apart(w)'
      BY <2>3, <3>2 DEF Apart
    <3>4. Undisturbed(w)'
      BY <1>f, <2>1, <3>1 DEF Undisturbed, Files!At, Files!Missing
    <3>5. QED
      BY <3>3, <3>4
  <2>11. ASSUME NEW v \in Workers, v # w, alone'[v] PROVE Apart(v)' /\ Undisturbed(v)'
    <3>1. alone[v] /\ l \notin C
      BY <2>3, <2>11
    <3>2. handler'[v] = handler[v] /\ data'[v] = data[v] /\ before'[v] = before[v]
      BY <1>k, <1>f, <2>1, <2>11
    <3>3. \A u \in Workers \ {v} : handler'[u] \in C => handler[u] \in C
      BY <1>k, <2>1, <3>1
    <3>4. QED
      BY <1>d, <2>1, <3>1, <3>2, <3>3
  <2>12. QED
    BY <2>5, <2>8, <2>9, <2>10, <2>11 DEF FilesInv
<1>1. ASSUME NEW w \in Workers, Files!Begin(w, "exists"), data' = [data EXCEPT ![w] = <<>>]
      PROVE  FilesInv'
  <2>1. <<>> \in Seq(Nat) /\ \A i \in DOMAIN <<>> : FromSomewhere(i, <<>>[i])
    OBVIOUS
  <2>2. QED
    BY <1>1, <1>f, <2>1
<1>2. ASSUME NEW w \in Workers, NEW d \in Data, Files!Begin(w, "open"),
             data' = [data EXCEPT ![w] = d]
      PROVE  FilesInv'
  <2>1. d \in Seq(Nat) /\ \A i \in DOMAIN d : FromSomewhere(i, d[i])
    BY FilesConstants DEF FromSomewhere
  <2>2. QED
    BY <1>2, <1>f, <2>1
<1>3. ASSUME NEW w \in Workers, Files!Begin(w, "delete"), UNCHANGED data PROVE FilesInv'
  <2>1. /\ data[w] \in Seq(Nat) /\ data' = [data EXCEPT ![w] = data[w]]
        /\ \A i \in DOMAIN data[w] : FromSomewhere(i, data[w][i])
    BY <1>3, <1>a, <1>k DEF RightBytes
  <2>2. QED
    BY <1>3, <1>f, <2>1
<1>4. ASSUME NEW w \in Workers,
             \/ Files!Exists(w) \/ Files!Stream(w) \/ Files!Length(w) \/ Files!ReadBytes(w)
             \/ Files!Reply(w)
      PROVE  FilesInv'
  <2>1. /\ UNCHANGED <<path, made, content, pos, calls, alone, before>>
        /\ handler[w] \notin {"idle", "open", "write", "delete"}
    BY <1>4 DEF Files!Exists, Files!Stream, Files!Length, Files!ReadBytes, Files!Reply,
      Files!Goto, Files!request
  <2>2. PICK l \in {"idle", "stream", "length", "read", "has read"} :
          handler' = [handler EXCEPT ![w] = l]
    BY <1>4 DEF Files!Exists, Files!Stream, Files!Length, Files!ReadBytes, Files!Reply, Files!Goto
  <2>3. file' = file \/ file' = [file EXCEPT ![w] = path]
    BY <1>4 DEF Files!Exists, Files!Stream, Files!Length, Files!ReadBytes, Files!Reply
  <2>4. \E d \in Seq(Nat) : /\ data' = [data EXCEPT ![w] = d]
                            /\ \A i \in DOMAIN d : FromSomewhere(i, d[i])
    <3>1. CASE data' = data
      <4>1. /\ data[w] \in Seq(Nat) /\ data' = [data EXCEPT ![w] = data[w]]
            /\ \A i \in DOMAIN data[w] : FromSomewhere(i, data[w][i])
        BY <3>1, <1>a, <1>k DEF RightBytes
      <4>2. QED
        BY <4>1
    <3>2. CASE Files!Length(w)
      <4>1. PICK k : k = IF path = 0 THEN 0 ELSE Len(content[path])
        OBVIOUS
      <4>2. k \in Nat
        <5>1. CASE path = 0
          BY <4>1, <5>1
        <5>2. CASE path # 0
          <6>1. path \in 1 .. MaxCalls
            BY <5>2, <1>c DEF FileRanges
          <6>2. QED
            BY <4>1, <5>2, <6>1, <1>c DEF FileRanges
        <5>3. QED
          BY <5>1, <5>2
      <4> DEFINE d == [i \in 1 .. k |-> 0]
      <4>3. d \in Seq(Nat) /\ \A i \in DOMAIN d : d[i] = 0
        BY <4>2, Zeros
      <4>4. data' = [data EXCEPT ![w] = d]
        BY <3>2, <4>1 DEF Files!Length
      <4>5. \A i \in DOMAIN d : FromSomewhere(i, d[i])
        BY <4>3 DEF FromSomewhere
      <4>6. QED
        BY <4>3, <4>4, <4>5
    <3>3. CASE Files!ReadBytes(w)
      <4>1. file[w] \in 1 .. MaxCalls
        BY <3>3, <1>c DEF Files!ReadBytes, Files!Goto, FileRanges
      <4>2. PICK c \in Seq(Nat) : c = content[file[w]]
        BY <4>1, <1>k
      <4>3. PICK a \in Seq(Nat) : a = data[w]
        BY <1>k
      <4> DEFINE d == Filled(a, c)
      <4>4. d \in Seq(Nat)
        BY FilledFacts
      <4>5. data' = [data EXCEPT ![w] = d]
        BY <3>3, <4>2, <4>3, <1>k DEF Files!ReadBytes, Filled
      <4>6. \A i \in DOMAIN c : FromSomewhere(i, c[i])
        BY <4>1, <4>2, <1>a DEF RightBytes
      <4>7. \A i \in DOMAIN d : FromSomewhere(i, d[i])
        BY <4>6 DEF FromSomewhere, Filled
      <4>8. QED
        BY <4>4, <4>5, <4>7
    <3>4. QED
      BY <1>4, <3>1, <3>2, <3>3 DEF Files!Exists, Files!Stream, Files!Reply
  <2>p. PICK d \in Seq(Nat) : /\ data' = [data EXCEPT ![w] = d]
                              /\ \A i \in DOMAIN d : FromSomewhere(i, d[i])
    BY <2>4
  <2>5. FileTypes'
    <3>1. handler' \in [Workers -> {"idle", "exists", "stream", "length", "read", "has read",
                              "open", "write", "has written", "delete"}]
      BY <1>k, <2>1, <2>2
    <3>2. data' \in [Workers -> Seq(Nat)]
      BY <1>k, <2>p
    <3>3. file' \in [Workers -> 0 .. made']
      BY <1>a, <2>1, <2>3 DEF FileTypes
    <3>4. QED
      BY <1>a, <2>1, <3>1, <3>2, <3>3 DEF FileTypes
  <2>6. Opening' = Opening
    BY <1>g, <2>1, <2>2
  <2>7. handler'[w] \in {"length", "read", "write"} => file'[w] # 0
    <3>1. CASE Files!Stream(w)
      BY <3>1, <1>k DEF Files!Stream, Files!Goto
    <3>2. CASE Files!Length(w)
      BY <3>2, <1>a, <1>k DEF Files!Length, Files!Goto, RoomForFiles
    <3>3. QED
      BY <1>4, <1>k, <3>1, <3>2 DEF Files!Exists, Files!ReadBytes, Files!Reply, Files!Goto
  <2>8. RoomForFiles'
    <3>1. \A v \in Workers : handler'[v] \in {"length", "read", "write"} => file'[v] # 0
      BY <1>a, <1>k, <2>2, <2>3, <2>7 DEF RoomForFiles
    <3>2. QED
      BY <1>b, <2>1, <2>6, <3>1 DEF RoomForFiles
  <2>9. RightBytes'
    BY <1>a, <1>k, <2>1, <2>p DEF RightBytes
  <2>10. ASSUME NEW v \in Workers, v # w, alone'[v] PROVE Apart(v)' /\ Undisturbed(v)'
    <3>1. /\ alone[v] /\ handler'[v] = handler[v] /\ data'[v] = data[v]
          /\ file'[v] = file[v] /\ pos'[v] = pos[v] /\ before'[v] = before[v]
      BY <1>k, <2>1, <2>2, <2>3, <2>p, <2>10
    <3>2. \A u \in Workers \ {v} : handler'[u] \in C => handler[u] \in C
      BY <1>k, <2>2 DEF Files!Changing
    <3>3. QED
      BY <1>d, <2>1, <3>1, <3>2
  <2>11. ASSUME alone'[w] PROVE Apart(w)' /\ Undisturbed(w)'
    <3>1. alone[w] /\ Apart(w) /\ Undisturbed(w)
      BY <1>a, <2>1, <2>11
    <3>2. Apart(w)'
      BY <1>k, <2>1, <2>2, <3>1 DEF Apart
    <3>3. CASE handler'[w] = "idle"
      BY <3>2, <3>3 DEF Undisturbed
    <3>4. CASE Files!Exists(w) /\ path # 0
      <4>1. /\ handler[w] = "exists" /\ handler'[w] = "stream"
        BY <1>k, <3>4 DEF Files!Exists, Files!Goto
      <4>2. QED
        BY <2>1, <3>1, <3>2, <4>1 DEF Undisturbed, Files!At
    <3>5. CASE Files!Stream(w) /\ path # 0
      <4>1. handler[w] = "stream" /\ handler'[w] = "length" /\ file'[w] = path
        BY <1>k, <3>5 DEF Files!Stream, Files!Goto
      <4>2. QED
        BY <2>1, <3>1, <3>2, <3>5, <4>1 DEF Undisturbed, Files!At
    <3>6. CASE Files!Length(w)
      <4>1. /\ handler[w] = "length" /\ handler'[w] = "read" /\ file' = file
        BY <1>k, <3>6 DEF Files!Length, Files!Goto
      <4>2. path # 0 /\ file[w] = path /\ before[w] = Files!At(path)
        BY <3>1, <4>1 DEF Undisturbed
      <4>a. path \in 1 .. MaxCalls
        BY <4>2, <1>c DEF FileRanges
      <4>3. PICK k \in Nat : k = Len(content[path])
        BY <4>a, <1>c DEF FileRanges
      <4>4. data'[w] = [i \in 1 .. k |-> 0]
        BY <3>6, <4>2, <4>3, <1>k DEF Files!Length
      <4>5. Len(data'[w]) = Len(content[path])
        BY <4>3, <4>4, Zeros
      <4>6. QED
        BY <2>1, <3>2, <4>1, <4>2, <4>5 DEF Undisturbed, Files!At
    <3>7. CASE Files!ReadBytes(w)
      <4>1. /\ handler[w] = "read" /\ handler'[w] = "has read"
        BY <1>k, <3>7 DEF Files!ReadBytes, Files!Goto
      <4>2. /\ path # 0 /\ file[w] = path /\ before[w] = content[path]
            /\ Len(data[w]) = Len(content[path])
        BY <3>1, <4>1 DEF Undisturbed, Files!At
      <4>a. path \in 1 .. MaxCalls
        BY <4>2, <1>c DEF FileRanges
      <4>3. PICK c \in Seq(Nat) : c = content[path]
        BY <4>a, <1>c DEF FileRanges
      <4>4. PICK a \in Seq(Nat) : a = data[w]
        BY <1>k
      <4>5. data'[w] = Filled(a, c)
        BY <3>7, <4>2, <4>3, <4>4, <1>k DEF Files!ReadBytes, Filled
      <4>6. Filled(a, c) = c
        BY <4>2, <4>3, <4>4, FilledFacts
      <4>8. data'[w] = before'[w]
        BY <2>1, <4>2, <4>3, <4>5, <4>6
      <4>9. QED
        BY <3>2, <4>1, <4>8 DEF Undisturbed
    <3>8. QED
      BY <1>4, <1>k, <3>3, <3>4, <3>5, <3>6, <3>7
      DEF Files!Exists, Files!Stream, Files!Reply, Files!Goto
  <2>12. QED
    BY <2>5, <2>8, <2>9, <2>10, <2>11 DEF FilesInv
<1>5. ASSUME NEW w \in Workers, Files!Open(w) PROVE FilesInv'
  <2>1. /\ handler[w] = "open" /\ handler' = [handler EXCEPT ![w] = "write"]
        /\ UNCHANGED <<data, calls, alone, before>>
    BY <1>5 DEF Files!Open, Files!Goto, Files!request
  <2>2. w \in Opening /\ Opening' = Opening \ {w}
    BY <1>k, <2>1 DEF Opening
  <2>3. O \in Nat \ {0} /\ IsFiniteSet(Opening') /\ O' = O - 1
    BY <1>b, <2>2, RemoveOne
  <2>4. /\ made' \in made .. made + 1 /\ made' + O' <= calls
        /\ made' \in 1 .. MaxCalls /\ path' \in 1 .. made'
    <3>1. made \in Nat /\ calls \in 0 .. MaxCalls /\ path \in 0 .. made
      BY <1>a DEF FileTypes
    <3>2. /\ made' = (IF path = 0 THEN made + 1 ELSE made)
          /\ path' = (IF path = 0 THEN made' ELSE path)
      BY <1>5 DEF Files!Open
    <3>3. QED
      BY <3>1, <3>2, <1>b, <2>3, FilesConstants
  <2>5. PICK f \in 1 .. MaxCalls : f = path'
    BY <2>4, FilesConstants
  <2>b. /\ content' = [content EXCEPT ![f] = <<>>]
        /\ file' = [file EXCEPT ![w] = f] /\ pos' = [pos EXCEPT ![w] = 0]
    BY <1>5, <2>5 DEF Files!Open
  <2>6. FileTypes'
    <3>1. handler' \in [Workers -> {"idle", "exists", "stream", "length", "read", "has read",
                              "open", "write", "has written", "delete"}]
      BY <1>k, <2>1
    <3>a. <<>> \in Seq(Nat)
      OBVIOUS
    <3>b. content' \in [1 .. MaxCalls -> Seq(Nat)]
      BY <1>k, <2>b, <3>a
    <3>2. pos' \in [Workers -> Nat]
      BY <1>k, <2>b
    <3>3. file' \in [Workers -> 0 .. made']
      <4>1. file \in [Workers -> 0 .. made] /\ made \in Nat
        BY <1>a DEF FileTypes
      <4>2. f \in 0 .. made' /\ 0 .. made \subseteq 0 .. made'
        BY <4>1, <2>4, <2>5
      <4>3. QED
        BY <4>1, <4>2, <2>b
    <3>4. path' \in 0 .. made' /\ made' \in Nat
      BY <2>4
    <3>5. QED
      BY <1>a, <2>1, <3>1, <3>b, <3>2, <3>3, <3>4 DEF FileTypes
  <2>7. RoomForFiles'
    <3>1. f # 0
      BY FilesConstants
    <3>2. \A v \in Workers : handler'[v] \in {"length", "read", "write"} => file'[v] # 0
      BY <1>a, <1>k, <2>1, <2>b, <3>1 DEF RoomForFiles
    <3>3. QED
      BY <2>1, <2>3, <2>4, <3>2 DEF RoomForFiles
  <2>8. RightBytes'
    <3>1. \A g \in 1 .. MaxCalls : content'[g] = IF g = f THEN <<>> ELSE content[g]
      BY <1>k, <2>b
    <3>2. QED
      BY <1>a, <2>1, <3>1 DEF RightBytes
  <2>9. ASSUME alone'[w] PROVE Apart(w)' /\ Undisturbed(w)'
    <3>1. Apart(w)
      BY <1>a, <2>1, <2>9
    <3>2. Apart(w)'
      BY <1>k, <2>1, <3>1 DEF Apart
    <3>3. handler'[w] = "write" /\ data'[w] \in Seq(Nat)
      BY <1>k, <2>1
    <3>a. f # 0
      BY FilesConstants
    <3>6. file'[w] = f /\ pos'[w] = 0 /\ f # 0
      BY <1>k, <2>b, <3>a
    <3>7. content'[f] = <<>>
      BY <1>k, <2>b
    <3>4. Len(content'[f]) = 0 /\ Len(data'[w]) \in Nat
      BY <3>3, <3>7
    <3>5. QED
      BY <2>5, <3>2, <3>3, <3>4, <3>6, <3>7 DEF Undisturbed
  <2>10. \A v \in Workers \ {w} : alone'[v] => Apart(v)' /\ Undisturbed(v)'
    BY <1>e, <1>k, <2>1 DEF Files!Changing
  <2>11. QED
    BY <2>6, <2>7, <2>8, <2>9, <2>10 DEF FilesInv
<1>6. ASSUME NEW w \in Workers, Files!WriteBytes(w) PROVE FilesInv'
  <2>1. /\ handler[w] = "write"
        /\ UNCHANGED <<path, made, file, data, calls, alone, before>>
    BY <1>6 DEF Files!WriteBytes, Files!request
  <2>2. /\ file[w] \in 1 .. MaxCalls /\ pos[w] \in Nat
        /\ data[w] \in Seq(Nat) /\ Len(data[w]) \in Nat
    BY <1>c, <2>1 DEF FileRanges
  <2>3. content[file[w]] \in Seq(Nat)
    BY <1>k, <2>2
  <2>4. PICK a \in Seq(Nat) : a = data[w]
    BY <2>2
  <2>5. PICK c \in Seq(Nat) : c = content[file[w]]
    BY <2>3
  <2>6. PICK n \in pos[w] + 1 .. Len(a) :
          /\ pos' = [pos EXCEPT ![w] = n]
          /\ content' = [content EXCEPT ![file[w]] = Written(a, c, pos[w], n)]
          /\ Files!Goto(w, "write", IF n = Len(a) THEN "has written" ELSE "write")
    BY <1>6, <2>2, <2>4, <2>5, <1>k DEF Files!WriteBytes, Written
  <2> DEFINE bytes == Written(a, c, pos[w], n)
             l == IF n = Len(a) THEN "has written" ELSE "write"
  <2>7. n \in Nat /\ pos[w] < n /\ n <= Len(a)
    <3>1. Len(a) \in Nat /\ pos[w] \in Nat
      BY <2>2, <2>4
    <3>2. n \in pos[w] + 1 .. Len(a)
      BY <2>6
    <3>3. QED
      BY <3>1, <3>2
  <2>8. /\ bytes \in Seq(Nat)
        /\ \A i \in DOMAIN bytes : bytes[i] = 0 \/ (i \in DOMAIN a /\ bytes[i] = a[i])
                                              \/ (i \in DOMAIN c /\ bytes[i] = c[i])
    <3>1. PICK p \in Nat : p = pos[w]
      BY <2>2
    <3>2. p < n
      BY <2>7, <3>1
    <3>3. /\ Written(a, c, p, n) \in Seq(Nat)
          /\ \A i \in DOMAIN Written(a, c, p, n) :
               \/ Written(a, c, p, n)[i] = 0
               \/ i \in DOMAIN a /\ Written(a, c, p, n)[i] = a[i]
               \/ i \in DOMAIN c /\ Written(a, c, p, n)[i] = c[i]
      BY <2>7, <3>2, WrittenFacts
    <3>4. QED
      BY <3>1, <3>3
  <2>9. handler' = [handler EXCEPT ![w] = l] /\ l \in {"has written", "write"}
    BY <2>6 DEF Files!Goto
  <2>10. FileTypes'
    <3>1. handler' \in [Workers -> {"idle", "exists", "stream", "length", "read", "has read",
                              "open", "write", "has written", "delete"}]
      BY <1>k, <2>9
    <3>2. content' \in [1 .. MaxCalls -> Seq(Nat)] /\ pos' \in [Workers -> Nat]
      BY <1>k, <2>6, <2>7, <2>8
    <3>3. QED
      BY <1>a, <2>1, <3>1, <3>2 DEF FileTypes
  <2>11. RoomForFiles'
    <3>1. Opening' = Opening
      BY <1>g, <2>1, <2>9
    <3>2. \A v \in Workers : handler'[v] \in {"length", "read", "write"} => file'[v] # 0
      BY <1>a, <1>k, <2>1, <2>2, <2>9 DEF RoomForFiles
    <3>3. QED
      BY <1>b, <2>1, <3>1, <3>2 DEF RoomForFiles
  <2>12. RightBytes'
    <3>1. \A i \in DOMAIN a : FromSomewhere(i, a[i])
      BY <1>a, <2>4 DEF RightBytes
    <3>2. \A i \in DOMAIN c : FromSomewhere(i, c[i])
      BY <1>a, <2>2, <2>5 DEF RightBytes
    <3>3. \A i \in DOMAIN bytes : FromSomewhere(i, bytes[i])
      BY <2>8, <3>1, <3>2 DEF FromSomewhere
    <3>4. \A f \in 1 .. MaxCalls : content'[f] = IF f = file[w] THEN bytes ELSE content[f]
      BY <1>k, <2>6
    <3>5. QED
      BY <1>a, <2>1, <3>3, <3>4 DEF RightBytes
  <2>13. ASSUME alone'[w] PROVE Apart(w)' /\ Undisturbed(w)'
    <3>1. Apart(w) /\ Undisturbed(w)
      BY <1>a, <2>1, <2>13
    <3>2. Apart(w)'
      BY <1>k, <2>1, <2>9, <3>1 DEF Apart
    <3>3. /\ path # 0 /\ file[w] = path /\ Len(c) = pos[w]
          /\ \A i \in 1 .. pos[w] : c[i] = a[i]
      BY <2>1, <2>4, <2>5, <3>1 DEF Undisturbed
    <3>4. /\ Len(bytes) = n /\ \A i \in 1 .. n : bytes[i] = a[i]
          /\ n = Len(a) => bytes = a
      <4>1. PICK p \in Nat : p = pos[w]
        BY <2>2
      <4>2. n \in Nat /\ p < n /\ n <= Len(a) /\ Len(c) = p /\ \A i \in 1 .. p : c[i] = a[i]
        BY <2>7, <3>3, <4>1
      <4>3. /\ Len(Written(a, c, p, n)) = n
            /\ \A i \in 1 .. n : Written(a, c, p, n)[i] = a[i]
            /\ n = Len(a) => Written(a, c, p, n) = a
        BY <4>2, WrittenOn
      <4>4. QED
        BY <4>1, <4>3
    <3>5. /\ content'[path'] = bytes /\ path' = path /\ file'[w] = path /\ data'[w] = a
          /\ pos'[w] = n /\ handler'[w] = l
      BY <1>k, <2>1, <2>2, <2>4, <2>6, <2>9, <3>3
    <3>6. Undisturbed(w)'
      BY <2>7, <3>3, <3>4, <3>5 DEF Undisturbed
    <3>7. QED
      BY <3>2, <3>6
  <2>14. \A v \in Workers \ {w} : alone'[v] => Apart(v)' /\ Undisturbed(v)'
    BY <1>e, <1>k, <2>1, <2>9 DEF Files!Changing
  <2>15. QED
    BY <2>10, <2>11, <2>12, <2>13, <2>14 DEF FilesInv
<1>7. ASSUME NEW w \in Workers, Files!WriteFails(w) \/ Files!handleFileDelete(w)
      PROVE  FilesInv'
  <2>1. /\ handler[w] \in {"open", "write", "delete"}
        /\ handler' = [handler EXCEPT ![w] = "idle"]
        /\ path' \in {0, path}
        /\ UNCHANGED <<made, content, file, data, pos, calls, alone, before>>
    BY <1>7 DEF Files!WriteFails, Files!handleFileDelete, Files!Goto, Files!request
  <2>2. FileTypes'
    <3>1. handler' \in [Workers -> {"idle", "exists", "stream", "length", "read", "has read",
                              "open", "write", "has written", "delete"}]
      BY <1>k, <2>1
    <3>2. path' \in 0 .. made'
      <4>1. path \in 0 .. made /\ made \in Nat
        BY <1>a DEF FileTypes
      <4>2. QED
        BY <4>1, <2>1
    <3>3. QED
      BY <1>a, <2>1, <3>1, <3>2 DEF FileTypes
  <2>3. IsFiniteSet(Opening') /\ O' <= O
    <3>1. Opening' \subseteq Opening
      BY <1>k, <2>1 DEF Opening
    <3>2. QED
      BY <3>1, <1>b, FS_Subset
  <2>4. O' \in Nat /\ made \in Nat /\ calls \in Nat
    BY <2>3, <1>c, FS_CardinalityType DEF FileRanges
  <2>5. RoomForFiles'
    <3>1. \A v \in Workers : handler'[v] \in {"length", "read", "write"} => file'[v] # 0
      BY <1>a, <1>k, <2>1 DEF RoomForFiles
    <3>2. QED
      BY <1>b, <2>1, <2>3, <2>4, <3>1 DEF RoomForFiles
  <2>6. RightBytes'
    BY <1>a, <2>1 DEF RightBytes
  <2>7. Apart(w)' /\ Undisturbed(w)'
    <3>1. handler'[w] = "idle"
      BY <1>k, <2>1
    <3>2. QED
      BY <3>1 DEF Apart, Undisturbed
  <2>8. \A v \in Workers \ {w} : alone'[v] => Apart(v)' /\ Undisturbed(v)'
    BY <1>e, <1>k, <2>1 DEF Files!Changing
  <2>9. QED
    BY <2>2, <2>5, <2>6, <2>7, <2>8 DEF FilesInv
<1>8. CASE UNCHANGED Files!vars
  <2>1. FileTypes' /\ RoomForFiles' /\ RightBytes'
    BY <1>8, <1>a DEF Files!vars, FileTypes, RoomForFiles, RightBytes, Opening
  <2>2. \A v \in Workers : alone'[v] => Apart(v)' /\ Undisturbed(v)'
    BY <1>8, <1>d DEF Files!vars
  <2>3. QED
    BY <2>1, <2>2 DEF FilesInv
<1>9. QED
  BY <1>1, <1>2, <1>3, <1>4, <1>5, <1>6, <1>7, <1>8
  DEF Files!Next, Files!handleFileRead, Files!handleFileWrite

LEMMA FilesInvRight == FilesInv => FilesRight
<1> SUFFICES ASSUME FilesInv PROVE FilesRight
  OBVIOUS
<1>1. /\ FileTypes /\ RoomForFiles /\ RightBytes
      /\ \A w \in Workers : alone[w] => Undisturbed(w)
  BY DEF FilesInv
<1>2. Files!TypeOK
  <2>1. Cardinality(Opening) \in Nat
    BY <1>1, FS_CardinalityType DEF RoomForFiles
  <2>2. made \in Nat /\ calls \in Nat
    BY <1>1, FileFacts DEF FileRanges
  <2>3. made <= calls
    BY <1>1, <2>1, <2>2 DEF RoomForFiles
  <2>4. QED
    BY <1>1, <2>3 DEF FileTypes, Files!TypeOK
<1>3. ASSUME NEW w \in Workers, alone[w]
      PROVE  /\ handler[w] = "has read" => data[w] = before[w]
             /\ handler[w] = "has written" => Files!At(path) = data[w]
  BY <1>1, <1>3 DEF Undisturbed, Files!At
<1>4. DOMAIN content = 1 .. MaxCalls
  BY <1>1 DEF FileTypes
<1>5. QED
  BY <1>1, <1>2, <1>3, <1>4
  DEF FilesRight, Files!FilesRight, RightBytes, FromSomewhere

(* A read or a write of a path that no other request changes meanwhile gets or    *)
(* leaves exactly the bytes, and whatever overlaps, no byte is read or in a file    *)
(* that no client wrote at its place, but for 0.                             *)
THEOREM FileBytesRight == TaskSpec => []FilesRight
<1>1. TaskSpec => []FilesInv
  BY FilesInvInit, FilesStep, FilesInvNext, PTL DEF TaskSpec
<1>2. QED
  BY <1>1, FilesInvRight, PTL

-----------------------------------------------------------------------------
(* The replies.  A worker has a request of its own, which has no reply before the   *)
(* worker gives one; where the worker is tells what the request and the login are;  *)
(* and a login that was answered is complete.                                *)
Answering ==
  {"decode", "answer", "credentials", "permissions", "session", "checkAuth", "work",
   "rights", "stop services"}

StepFits(l, r, auth, perm) ==
  /\ l = "answer" => r.type \in {"PING", "other"}
  /\ l \in {"credentials", "permissions", "session"} => r.type = "AUTH"
  /\ l = "checkAuth" => r.type \in {"work", "SHUTDOWN"}
  /\ l = "work" => r.type = "work"
  /\ l \in {"rights", "refuse", "stop services", "stop", "sleep"} => r.type = "SHUTDOWN"
  /\ l \in {"permissions", "session", "work", "rights", "stop services"} => auth
  /\ l = "session" => perm = 7
  /\ l = "refuse" => ~r.greeted

ReplyFits(s, r, auth, perm) ==
  /\ s = "ok" /\ r.type \in {"work", "SHUTDOWN"} => auth
  /\ s = "ok" /\ r.type = "AUTH" => auth /\ perm = 7
  /\ r.greeted => s # "denied"
  /\ r.greeted /\ r.type = "SHUTDOWN" => s = "ok"

RequestRecord ==
  {r \in [type : Session!Types, content : {"good", "bad", "ill-typed", "garbled"},
          greeted : BOOLEAN] :
     r.content = "garbled" => r.type = "other"}
ReplyRecord == [request : Nat, status : {"ok", "error", "denied"}]

SessionTypes ==
  /\ authenticated \in BOOLEAN /\ permissions \in {0, 7} /\ running \in BOOLEAN
  /\ request \in [Workers -> 0 .. Len(requests)]
  /\ worker \in [Workers -> Answering \union {"idle", "refuse", "stop", "sleep"}]
  /\ requests \in Seq(RequestRecord)
  /\ replies \in Seq(ReplyRecord)
  /\ \A k \in DOMAIN replies : replies[k].request \in DOMAIN requests

OwnRequests ==
  \A w \in Workers :
    /\ worker[w] # "idle" =>
         /\ request[w] # 0
         /\ StepFits(worker[w], requests[request[w]], authenticated, permissions)
    /\ \A v \in Workers \ {w} : request[w] # 0 => request[v] # request[w]

RepliesSoFar ==
  \A w \in Workers :
    /\ worker[w] \in Answering => \A k \in DOMAIN replies : replies[k].request # request[w]
    /\ worker[w] = "refuse" =>
         \A k \in DOMAIN replies :
           replies[k].request = request[w] => replies[k].status = "denied"
    /\ worker[w] \in {"stop", "sleep"} =>
         \E k \in DOMAIN replies : replies[k].request = request[w] /\ replies[k].status = "ok"

LoginComplete ==
  /\ \A r \in DOMAIN requests : requests[r].greeted => authenticated /\ permissions = 7
  /\ \A k \in DOMAIN replies :
       ReplyFits(replies[k].status, requests[replies[k].request], authenticated, permissions)

NoneForgotten ==
  \A r \in DOMAIN requests : requests[r].content \in {"good", "bad"} =>
    \/ \E k \in DOMAIN replies : replies[k].request = r
    \/ \E w \in Workers : request[w] = r /\ worker[w] \in Answering \union {"refuse"}

OneReply ==
  \A j, k \in DOMAIN replies :
    j # k /\ replies[j].request = replies[k].request =>
      Session!SecondOf(j, k) \/ Session!SecondOf(k, j)

StopConfirmed ==
  ~running => \E k \in DOMAIN replies :
    replies[k].status = "ok" /\ requests[replies[k].request].type = "SHUTDOWN"

SessionInv ==
  /\ SessionTypes /\ OwnRequests /\ RepliesSoFar /\ LoginComplete /\ NoneForgotten
  /\ OneReply /\ StopConfirmed

LEMMA SessionStep == [TaskNext]_taskVars => [Session!Next]_(Session!vars)
BY DEF TaskNext, Asked, taskVars, sessionVars, Session!vars

LEMMA SessionInvInit == TaskInit => SessionInv
<1> SUFFICES ASSUME TaskInit PROVE SessionInv
  OBVIOUS
<1>1. Session!Init
  BY DEF TaskInit
<1>2. requests = <<>> /\ replies = <<>> /\ DOMAIN requests = {} /\ DOMAIN replies = {}
  BY <1>1 DEF Session!Init
<1>3. SessionTypes
  <2>1. authenticated \in BOOLEAN /\ running \in BOOLEAN
    BY <1>1, Zenon DEF Session!Init
  <2>2. requests \in Seq(RequestRecord) /\ replies \in Seq(ReplyRecord) /\ Len(requests) = 0
    BY <1>2
  <2>3. request \in [Workers -> 0 .. Len(requests)]
    BY <1>1, <2>2 DEF Session!Init
  <2>4. QED
    BY <1>1, <1>2, <2>1, <2>2, <2>3 DEF Session!Init, SessionTypes
<1>4. OwnRequests /\ RepliesSoFar
  BY <1>1, <1>2 DEF Session!Init, OwnRequests, RepliesSoFar, Answering
<1>5. LoginComplete /\ NoneForgotten /\ OneReply /\ StopConfirmed
  BY <1>1, <1>2 DEF Session!Init, LoginComplete, NoneForgotten, OneReply, StopConfirmed
<1>6. QED
  BY <1>3, <1>4, <1>5 DEF SessionInv

LEMMA SessionInvRight == SessionInv => RepliesRight
<1> SUFFICES ASSUME SessionInv PROVE RepliesRight
  OBVIOUS
<1>1. SessionTypes /\ LoginComplete /\ NoneForgotten /\ OneReply /\ StopConfirmed
  BY DEF SessionInv
<1>2. Session!TypeOK
  BY <1>1 DEF SessionTypes, Session!TypeOK
<1>3. ASSUME NEW r \in DOMAIN requests, Session!Done(r),
             requests[r].content \in {"good", "bad"}
      PROVE  \E k \in DOMAIN replies : replies[k].request = r
  BY <1>1, <1>3 DEF NoneForgotten, Session!Done, Answering
<1>4. ASSUME NEW k \in DOMAIN replies
      PROVE  LET r == requests[replies[k].request] IN
               /\ r.type \in {"work", "SHUTDOWN"} /\ replies[k].status = "ok" => authenticated
               /\ r.greeted => replies[k].status # "denied"
               /\ r.greeted /\ r.type = "SHUTDOWN" => replies[k].status = "ok"
  BY <1>1 DEF LoginComplete, ReplyFits
<1>5. Session!RepliesRight
  BY <1>1, <1>3, <1>4 DEF Session!RepliesRight, Session!Requests, OneReply, StopConfirmed
<1>6. QED
  BY <1>2, <1>5 DEF RepliesRight

LEMMA Appended ==
  ASSUME NEW R, NEW s \in Seq(R), NEW x \in R
  PROVE  /\ Append(s, x) \in Seq(R)
         /\ Len(s) \in Nat /\ Len(Append(s, x)) = Len(s) + 1
         /\ DOMAIN Append(s, x) = DOMAIN s \union {Len(s) + 1} /\ Len(s) + 1 \notin DOMAIN s
         /\ Append(s, x)[Len(s) + 1] = x
         /\ \A i \in DOMAIN s : Append(s, x)[i] = s[i] /\ i < Len(s) + 1
OBVIOUS

LEMMA SessionInvNext == SessionInv /\ [Session!Next]_(Session!vars) => SessionInv'
<1> SUFFICES ASSUME SessionInv, [Session!Next]_(Session!vars) PROVE SessionInv'
  OBVIOUS
<1> DEFINE Places == Answering \union {"idle", "refuse", "stop", "sleep"}
           own(w) == requests[request[w]]
<1>a. /\ SessionTypes /\ OwnRequests /\ RepliesSoFar /\ LoginComplete /\ NoneForgotten
      /\ OneReply /\ StopConfirmed
  BY DEF SessionInv
<1>b. /\ authenticated \in BOOLEAN /\ permissions \in {0, 7} /\ running \in BOOLEAN
      /\ request \in [Workers -> 0 .. Len(requests)] /\ worker \in [Workers -> Places]
      /\ requests \in Seq(RequestRecord) /\ replies \in Seq(ReplyRecord)
      /\ \A k \in DOMAIN replies : replies[k].request \in DOMAIN requests
  BY <1>a DEF SessionTypes
<1>c. \A w \in Workers : worker[w] # "idle" => request[w] \in DOMAIN requests
  <2>1. \A w \in Workers : request[w] \in 0 .. Len(requests)
    BY <1>b
  <2>2. DOMAIN requests = 1 .. Len(requests) /\ Len(requests) \in Nat
    BY <1>b
  <2>3. QED
    BY <1>a, <2>1, <2>2 DEF OwnRequests
<1>m. ASSUME NEW w \in Workers, NEW l \in Answering \union {"idle", "refuse", "sleep"},
             worker' = [worker EXCEPT ![w] = l],
             UNCHANGED <<request, requests, replies>>,
             worker[w] \in Answering \union {"stop"},
             authenticated' \in BOOLEAN, permissions' \in {0, 7}, running' \in BOOLEAN,
             authenticated => authenticated', permissions = 7 => permissions' = 7,
             ~running' => ~running \/ worker[w] = "stop",
             l # "idle" => StepFits(l, own(w), authenticated', permissions'),
             l = "idle" => own(w).content \notin {"good", "bad"},
             l = "sleep" <=> worker[w] = "stop"
      PROVE  SessionInv'
  <2>1. worker'[w] = l /\ \A v \in Workers \ {w} : worker'[v] = worker[v]
    BY <1>b, <1>m
  <2>2. SessionTypes'
    BY <1>b, <1>m DEF SessionTypes
  <2>3. OwnRequests'
    <3>1. request[w] # 0
      BY <1>a, <1>m DEF OwnRequests, Answering
    <3>2. ASSUME NEW v \in Workers, v # w, worker[v] # "idle"
          PROVE  StepFits(worker[v], own(v), authenticated', permissions')
      BY <1>a, <1>m, <3>2 DEF OwnRequests, StepFits
    <3>3. QED
      BY <1>a, <1>m, <2>1, <3>1, <3>2 DEF OwnRequests
  <2>4. RepliesSoFar'
    <3> SUFFICES ASSUME NEW v \in Workers
                 PROVE  /\ worker'[v] \in Answering =>
                             \A k \in DOMAIN replies : replies[k].request # request[v]
                        /\ worker'[v] = "refuse" =>
                             \A k \in DOMAIN replies :
                               replies[k].request = request[v] =>
                                 replies[k].status = "denied"
                        /\ worker'[v] \in {"stop", "sleep"} =>
                             \E k \in DOMAIN replies :
                               replies[k].request = request[v] /\ replies[k].status = "ok"
      BY <1>m DEF RepliesSoFar
    <3>1. CASE v # w
      BY <1>a, <2>1, <3>1 DEF RepliesSoFar
    <3>2. CASE v = w /\ worker[w] = "stop"
      BY <1>a, <1>m, <2>1, <3>2 DEF RepliesSoFar, Answering
    <3>3. CASE v = w /\ worker[w] \in Answering
      BY <1>a, <1>m, <2>1, <3>3 DEF RepliesSoFar, Answering
    <3>4. QED
      BY <1>m, <3>1, <3>2, <3>3
  <2>5. LoginComplete'
    BY <1>a, <1>m DEF LoginComplete, ReplyFits
  <2>6. NoneForgotten'
    <3> SUFFICES ASSUME NEW r \in DOMAIN requests, requests[r].content \in {"good", "bad"},
                        NEW v \in Workers, request[v] = r,
                        worker[v] \in Answering \union {"refuse"}
                 PROVE  worker'[v] \in Answering \union {"refuse"}
      BY <1>a, <1>m DEF NoneForgotten
    <3>1. CASE v = w
      BY <1>m, <2>1, <3>1 DEF Answering
    <3>2. CASE v # w
      BY <2>1, <3>2
    <3>3. QED
      BY <3>1, <3>2
  <2>7. OneReply'
    BY <1>a, <1>m DEF OneReply, Session!SecondOf
  <2>8. StopConfirmed'
    <3>1. worker[w] = "stop" => own(w).type = "SHUTDOWN"
      BY <1>a DEF OwnRequests, StepFits
    <3>2. worker[w] = "stop" => \E k \in DOMAIN replies :
            replies[k].request = request[w] /\ replies[k].status = "ok"
      BY <1>a DEF RepliesSoFar
    <3>3. QED
      BY <1>a, <1>m, <3>1, <3>2 DEF StopConfirmed
  <2>9. QED
    BY <2>2, <2>3, <2>4, <2>5, <2>6, <2>7, <2>8 DEF SessionInv
<1>r. ASSUME NEW w \in Workers, NEW l \in {"idle", "refuse", "stop"},
             NEW s \in {"ok", "error", "denied"},
             worker' = [worker EXCEPT ![w] = l], Session!Answer(w, s),
             UNCHANGED <<authenticated, permissions, request, requests, running>>,
             worker[w] \in Answering \union {"refuse"},
             worker[w] = "refuse" => l = "idle" /\ s = "error",
             l = "refuse" => s = "denied" /\ own(w).type = "SHUTDOWN" /\ ~own(w).greeted,
             l = "stop" => s = "ok" /\ own(w).type = "SHUTDOWN",
             ReplyFits(s, own(w), authenticated, permissions)
      PROVE  SessionInv'
  <2>n. PICK n : n = Len(replies) + 1
    OBVIOUS
  <2> DEFINE reply == [request |-> request[w], status |-> s]
  <2>1. worker'[w] = l /\ \A v \in Workers \ {w} : worker'[v] = worker[v]
    BY <1>b, <1>r
  <2>2. worker[w] # "idle" /\ request[w] # 0 /\ request[w] \in DOMAIN requests
    BY <1>a, <1>c, <1>r DEF OwnRequests, Answering
  <2>3. reply \in ReplyRecord
    <3>1. DOMAIN requests \subseteq Nat
      BY <1>b
    <3>2. QED
      BY <2>2, <3>1 DEF ReplyRecord
  <2>4. replies' = Append(replies, reply)
    BY <1>r DEF Session!Answer
  <2>5. /\ replies' \in Seq(ReplyRecord) /\ n \in Nat
        /\ DOMAIN replies' = DOMAIN replies \union {n} /\ n \notin DOMAIN replies
        /\ replies'[n].request = request[w] /\ replies'[n].status = s
        /\ \A k \in DOMAIN replies : replies'[k] = replies[k] /\ k < n
    <3>1. /\ replies' \in Seq(ReplyRecord) /\ n \in Nat
          /\ DOMAIN replies' = DOMAIN replies \union {n} /\ n \notin DOMAIN replies
          /\ replies'[n] = reply
          /\ \A k \in DOMAIN replies : replies'[k] = replies[k] /\ k < n
      BY <1>b, <2>n, <2>3, <2>4, Appended
    <3>2. QED
      BY <3>1
  <2> HIDE DEF reply
  <2>6. SessionTypes'
    BY <1>b, <1>r, <2>2, <2>5 DEF SessionTypes
  <2>7. OwnRequests'
    <3>1. l # "idle" => StepFits(l, own(w), authenticated, permissions)
      BY <1>r DEF StepFits
    <3>2. QED
      BY <1>a, <1>r, <2>1, <2>2, <3>1 DEF OwnRequests
  <2>8. RepliesSoFar'
    <3>1. ASSUME NEW v \in Workers, v # w, worker[v] # "idle" PROVE request[v] # request[w]
      BY <1>a, <2>2, <3>1 DEF OwnRequests
    <3>2. ASSUME NEW v \in Workers, v # w
          PROVE  /\ worker'[v] \in Answering =>
                      \A k \in DOMAIN replies' : replies'[k].request # request'[v]
                 /\ worker'[v] = "refuse" =>
                      \A k \in DOMAIN replies' : replies'[k].request = request'[v] =>
                        replies'[k].status = "denied"
                 /\ worker'[v] \in {"stop", "sleep"} =>
                      \E k \in DOMAIN replies' :
                        replies'[k].request = request'[v] /\ replies'[k].status = "ok"
      <4>1. worker'[v] = worker[v] /\ request'[v] = request[v]
        BY <1>r, <2>1, <3>2
      <4>2. worker[v] # "idle" => request[v] # replies'[n].request
        BY <2>5, <3>1, <3>2
      <4>3. \A k \in DOMAIN replies' : k # n => k \in DOMAIN replies /\ replies'[k] = replies[k]
        BY <2>5
      <4>4. DOMAIN replies \subseteq DOMAIN replies'
        BY <2>5
      <4>5. "idle" \notin Answering
        BY DEF Answering
      <4>6. /\ worker[v] \in Answering =>
                 \A k \in DOMAIN replies : replies[k].request # request[v]
            /\ worker[v] = "refuse" =>
                 \A k \in DOMAIN replies : replies[k].request = request[v] =>
                   replies[k].status = "denied"
            /\ worker[v] \in {"stop", "sleep"} =>
                 \E k \in DOMAIN replies :
                   replies[k].request = request[v] /\ replies[k].status = "ok"
        BY <1>a DEF RepliesSoFar
      <4>7. QED
        BY <2>5, <4>1, <4>2, <4>3, <4>4, <4>5, <4>6
    <3>3. /\ l \notin Answering
          /\ l = "refuse" =>
               \A k \in DOMAIN replies' : replies'[k].request = request'[w] =>
                 replies'[k].status = "denied"
          /\ l \in {"stop", "sleep"} =>
               \E k \in DOMAIN replies' :
                 replies'[k].request = request'[w] /\ replies'[k].status = "ok"
      BY <1>a, <1>r, <2>5 DEF RepliesSoFar, Answering
    <3>4. QED
      BY <2>1, <3>2, <3>3 DEF RepliesSoFar
  <2>9. LoginComplete'
    BY <1>a, <1>r, <2>5 DEF LoginComplete
  <2>10. NoneForgotten'
    BY <1>a, <1>r, <2>1, <2>5 DEF NoneForgotten
  <2>11. OneReply'
    <3>1. ASSUME NEW j \in DOMAIN replies, replies[j].request = request[w]
          PROVE  Session!SecondOf(j, n)'
      <4>1. worker[w] = "refuse" /\ replies[j].status = "denied"
        BY <1>a, <1>r, <3>1 DEF RepliesSoFar
      <4>2. own(w).type = "SHUTDOWN"
        BY <1>a, <2>2, <4>1 DEF OwnRequests, StepFits
      <4>3. /\ j < n /\ requests'[replies'[j].request].type = "SHUTDOWN"
            /\ replies'[j].status = "denied" /\ replies'[n].status = "error"
        BY <1>r, <2>5, <3>1, <4>1, <4>2
      <4>4. QED
        BY <4>3 DEF Session!SecondOf
    <3>2. ASSUME NEW j \in DOMAIN replies, NEW k \in DOMAIN replies, Session!SecondOf(j, k)
          PROVE  Session!SecondOf(j, k)'
      BY <1>r, <2>5, <3>2 DEF Session!SecondOf
    <3>3. QED
      BY <1>a, <1>r, <2>5, <3>1, <3>2 DEF OneReply
  <2>12. StopConfirmed'
    BY <1>a, <1>r, <2>5 DEF StopConfirmed
  <2>13. QED
    BY <2>6, <2>7, <2>8, <2>9, <2>10, <2>11, <2>12 DEF SessionInv
<1>t. \A w \in Workers : worker[w] # "idle" => own(w) \in RequestRecord
  <2>1. \A r \in DOMAIN requests : requests[r] \in RequestRecord
    BY <1>b
  <2>2. QED
    BY <1>c, <2>1
<1>s. ASSUME NEW r \in RequestRecord
      PROVE  /\ r.type \in {"PING", "AUTH", "work", "SHUTDOWN", "other"}
             /\ r.content \in {"good", "bad", "ill-typed", "garbled"}
             /\ r.content = "garbled" => r.type = "other"
  BY DEF RequestRecord, Session!Types
<1>f. \A w \in Workers : worker[w] # "idle" =>
        StepFits(worker[w], own(w), authenticated, permissions)
  BY <1>a DEF OwnRequests
<1>g. \A w \in Workers : worker[w] # "idle" /\ own(w).greeted =>
        authenticated /\ permissions = 7
  BY <1>a, <1>c DEF LoginComplete
<1>1. ASSUME NEW w \in Workers, Session!Take(w) PROVE SessionInv'
  <2>1. /\ worker[w] = "idle" /\ worker' = [worker EXCEPT ![w] = "decode"]
        /\ UNCHANGED <<authenticated, permissions, replies, running>>
    BY <1>1 DEF Session!Take, Session!Goto, Session!login
  <2>g. PICK g : g = \E k \in DOMAIN replies :
                       replies[k].status = "ok" /\ requests[replies[k].request].type = "AUTH"
    OBVIOUS
  <2>2. PICK m \in Session!Messages :
          requests' = Append(requests, [type |-> m.type, content |-> m.content,
                                        greeted |-> g])
    BY <1>1, <2>g DEF Session!Take
  <2> DEFINE x == [type |-> m.type, content |-> m.content, greeted |-> g]
  <2>3. x \in RequestRecord
    <3>1. g \in BOOLEAN
      BY <2>g, Zenon
    <3>2. /\ m.type \in Session!Types
          /\ m.content \in {"good", "bad", "ill-typed", "garbled"}
          /\ m.content = "garbled" => m.type = "other"
      BY DEF Session!Messages, Session!Types
    <3>3. QED
      BY <3>1, <3>2 DEF RequestRecord
  <2>4. PICK n : n = Len(requests) + 1
    OBVIOUS
  <2>5. /\ requests' \in Seq(RequestRecord) /\ n \in Nat /\ Len(requests') = n
        /\ DOMAIN requests' = DOMAIN requests \union {n} /\ n \notin DOMAIN requests
        /\ requests'[n].greeted = g
        /\ \A r \in DOMAIN requests : requests'[r] = requests[r]
    <3>1. /\ requests' \in Seq(RequestRecord) /\ n \in Nat /\ Len(requests') = n
          /\ DOMAIN requests' = DOMAIN requests \union {n} /\ n \notin DOMAIN requests
          /\ requests'[n] = x
          /\ \A r \in DOMAIN requests : requests'[r] = requests[r]
      <4> HIDE DEF x
      <4>1. requests' = Append(requests, x)
        BY <2>2 DEF x
      <4>2. QED
        BY <1>b, <2>3, <2>4, <4>1, Appended
    <3>2. QED
      BY <3>1
  <2>6. request' = [request EXCEPT ![w] = n]
    BY <1>1, <2>5 DEF Session!Take
  <2>7. /\ worker'[w] = "decode" /\ request'[w] = n
        /\ \A v \in Workers \ {w} : worker'[v] = worker[v] /\ request'[v] = request[v]
    BY <1>b, <2>1, <2>6
  <2>8. n # 0 /\ \A v \in Workers : request[v] # n
    <3>1. Len(requests) \in Nat /\ n = Len(requests) + 1
      BY <1>b, <2>4
    <3>2. \A v \in Workers : request[v] \in 0 .. Len(requests)
      BY <1>b
    <3>3. QED
      BY <3>1, <3>2
  <2>9. SessionTypes'
    <3>1. request' \in [Workers -> 0 .. Len(requests')]
      <4>1. Len(requests) \in Nat /\ n = Len(requests) + 1
        BY <1>b, <2>4
      <4>2. n \in 0 .. n /\ 0 .. Len(requests) \subseteq 0 .. n
        BY <4>1
      <4>3. QED
        BY <1>b, <2>5, <2>6, <4>2
    <3>2. worker' \in [Workers -> Places]
      BY <1>b, <2>1 DEF Answering
    <3>3. QED
      BY <1>b, <2>1, <2>5, <3>1, <3>2 DEF SessionTypes
  <2>10. OwnRequests'
    <3>1. StepFits("decode", requests'[n], authenticated, permissions)
      BY DEF StepFits
    <3>2. \A v \in Workers \ {w} : worker[v] # "idle" => requests'[request[v]] = own(v)
      BY <1>c, <2>5
    <3>3. QED
      BY <1>a, <2>1, <2>7, <2>8, <3>1, <3>2 DEF OwnRequests
  <2>11. RepliesSoFar'
    <3>1. \A k \in DOMAIN replies : replies[k].request # n
      BY <1>b, <2>5
    <3>2. QED
      <4> SUFFICES ASSUME NEW v \in Workers
                   PROVE  /\ worker'[v] \in Answering =>
                               \A k \in DOMAIN replies : replies[k].request # request'[v]
                          /\ worker'[v] = "refuse" =>
                               \A k \in DOMAIN replies :
                                 replies[k].request = request'[v] => replies[k].status = "denied"
                          /\ worker'[v] \in {"stop", "sleep"} =>
                               \E k \in DOMAIN replies :
                                 replies[k].request = request'[v] /\ replies[k].status = "ok"
        BY <2>1 DEF RepliesSoFar
      <4>1. CASE v = w
        BY <2>7, <3>1, <4>1
      <4>2. CASE v # w
        BY <1>a, <2>7, <4>2 DEF RepliesSoFar
      <4>3. QED
        BY <4>1, <4>2
  <2>12. LoginComplete'
    <3>1. g => authenticated /\ permissions = 7
      BY <1>a, <2>g DEF LoginComplete, ReplyFits
    <3>2. \A k \in DOMAIN replies : requests'[replies[k].request] = requests[replies[k].request]
      BY <1>b, <2>5
    <3>3. QED
      BY <1>a, <2>1, <2>5, <3>1, <3>2 DEF LoginComplete
  <2>13. NoneForgotten'
    <3>1. ASSUME NEW r \in DOMAIN requests, requests[r].content \in {"good", "bad"}
          PROVE  \/ \E k \in DOMAIN replies : replies[k].request = r
                 \/ \E v \in Workers : request'[v] = r /\ worker'[v] \in Answering \union {"refuse"}
      <4>1. "idle" \notin Answering \union {"refuse"}
        BY DEF Answering
      <4>2. \A v \in Workers : worker[v] \in Answering \union {"refuse"} =>
              worker'[v] = worker[v] /\ request'[v] = request[v]
        BY <2>1, <2>7, <4>1
      <4>3. QED
        BY <1>a, <3>1, <4>2 DEF NoneForgotten
    <3>2. request'[w] = n /\ worker'[w] \in Answering
      BY <2>7 DEF Answering
    <3>3. QED
      BY <2>1, <2>5, <3>1, <3>2 DEF NoneForgotten
  <2>14. OneReply' /\ StopConfirmed'
    <3>1. \A k \in DOMAIN replies : requests'[replies[k].request] = requests[replies[k].request]
      BY <1>b, <2>5
    <3>2. QED
      BY <1>a, <2>1, <3>1 DEF OneReply, Session!SecondOf, StopConfirmed
  <2>15. QED
    BY <2>9, <2>10, <2>11, <2>12, <2>13, <2>14 DEF SessionInv
<1>2. ASSUME NEW w \in Workers, Session!Dispatch(w) PROVE SessionInv'
  <2>1. /\ worker[w] = "decode"
        /\ UNCHANGED <<authenticated, permissions, request, requests, replies, running>>
    BY <1>2 DEF Session!Dispatch, Session!login
  <2>2. own(w) \in RequestRecord
    BY <1>t, <2>1
  <2>3. PICK l \in {"idle", "answer", "credentials", "checkAuth"} :
          /\ worker' = [worker EXCEPT ![w] = l]
          /\ l = "idle" => own(w).content = "garbled"
          /\ l = "answer" => own(w).type \in {"PING", "other"}
          /\ l = "credentials" => own(w).type = "AUTH"
          /\ l = "checkAuth" => own(w).type \in {"work", "SHUTDOWN"}
    <3> DEFINE r == own(w)
               l == CASE r.content = "garbled" -> "idle"
                      [] r.content # "garbled" /\ r.type \in {"PING", "other"} -> "answer"
                      [] r.type = "AUTH" -> "credentials"
                      [] OTHER -> "checkAuth"
    <3>1. worker' = [worker EXCEPT ![w] = l]
      BY <1>2 DEF Session!Dispatch, Session!Goto, Session!Request
    <3>2. /\ r.type \in {"PING", "AUTH", "work", "SHUTDOWN", "other"}
          /\ r.content = "garbled" => r.type = "other"
      BY <1>s, <2>2
    <3>3. \/ l = "idle" /\ r.content = "garbled"
          \/ l = "answer" /\ r.type \in {"PING", "other"}
          \/ l = "credentials" /\ r.type = "AUTH"
          \/ l = "checkAuth" /\ r.type \in {"work", "SHUTDOWN"}
      BY <3>2
    <3>4. QED
      BY <3>1, <3>3
  <2>4. l # "idle" => StepFits(l, own(w), authenticated, permissions)
    BY <2>3 DEF StepFits
  <2>5. l \in Answering \union {"idle"} /\ worker[w] \in Answering
    BY <2>1 DEF Answering
  <2>6. QED
    BY <1>b, <1>m, <2>1, <2>3, <2>4, <2>5
<1>3. ASSUME NEW w \in Workers, Session!handlePing(w) PROVE SessionInv'
  <2>1. /\ worker[w] = "answer" /\ worker' = [worker EXCEPT ![w] = "idle"]
        /\ UNCHANGED <<authenticated, permissions, request, requests, running>>
    BY <1>3 DEF Session!handlePing, Session!Goto, Session!login
  <2>2. PICK s \in {"ok", "error"} : Session!Answer(w, s)
    BY <1>3 DEF Session!handlePing
  <2>3. own(w).type \in {"PING", "other"}
    BY <1>f, <2>1 DEF StepFits
  <2>4. ReplyFits(s, own(w), authenticated, permissions) /\ worker[w] \in Answering
    BY <2>1, <2>3 DEF ReplyFits, Answering
  <2>5. QED
    BY <1>r, <2>1, <2>2, <2>4
<1>4. ASSUME NEW w \in Workers, Session!AuthRefused(w) PROVE SessionInv'
  <2>1. /\ worker[w] = "credentials" /\ worker' = [worker EXCEPT ![w] = "idle"]
        /\ UNCHANGED <<authenticated, permissions, request, requests, running>>
        /\ own(w).content # "good"
        /\ IF own(w).content = "bad" THEN Session!Answer(w, "error") ELSE UNCHANGED replies
    BY <1>4 DEF Session!AuthRefused, Session!Goto, Session!login, Session!Request
  <2>2. worker[w] \in Answering /\ ReplyFits("error", own(w), authenticated, permissions)
    BY <1>f, <2>1 DEF StepFits, ReplyFits, Answering
  <2>3. CASE own(w).content = "bad"
    BY <1>r, <2>1, <2>2, <2>3
  <2>4. CASE own(w).content # "bad"
    BY <1>b, <1>m, <2>1, <2>2, <2>4
  <2>5. QED
    BY <2>3, <2>4
<1>5. ASSUME NEW w \in Workers, Session!AuthGiven(w) PROVE SessionInv'
  <2>1. /\ worker[w] = "credentials" /\ worker' = [worker EXCEPT ![w] = "permissions"]
        /\ authenticated' = TRUE
        /\ UNCHANGED <<permissions, request, requests, replies, running>>
    BY <1>5 DEF Session!AuthGiven, Session!Goto
  <2>2. /\ worker[w] \in Answering /\ "permissions" \in Answering
        /\ StepFits("permissions", own(w), authenticated', permissions')
    BY <1>f, <2>1 DEF StepFits, Answering
  <2>3. authenticated' \in BOOLEAN /\ permissions' \in {0, 7} /\ running' \in BOOLEAN
    BY <1>b, <2>1
  <2>4. QED
    BY <1>m, <2>1, <2>2, <2>3
<1>6. ASSUME NEW w \in Workers, Session!Permissions(w) PROVE SessionInv'
  <2>1. /\ worker[w] = "permissions" /\ worker' = [worker EXCEPT ![w] = "session"]
        /\ permissions' = 7
        /\ UNCHANGED <<authenticated, request, requests, replies, running>>
    BY <1>6 DEF Session!Permissions, Session!Goto
  <2>2. /\ worker[w] \in Answering /\ "session" \in Answering
        /\ StepFits("session", own(w), authenticated', permissions')
    BY <1>f, <2>1 DEF StepFits, Answering
  <2>3. authenticated' \in BOOLEAN /\ permissions' \in {0, 7} /\ running' \in BOOLEAN
    BY <1>b, <2>1
  <2>4. QED
    BY <1>m, <2>1, <2>2, <2>3
<1>7. ASSUME NEW w \in Workers, Session!AuthAnswered(w) PROVE SessionInv'
  <2>1. /\ worker[w] = "session" /\ worker' = [worker EXCEPT ![w] = "idle"]
        /\ UNCHANGED <<authenticated, permissions, request, requests, running>>
        /\ Session!Answer(w, "ok")
    BY <1>7 DEF Session!AuthAnswered, Session!Goto, Session!login
  <2>2. worker[w] \in Answering /\ ReplyFits("ok", own(w), authenticated, permissions)
    BY <1>f, <2>1 DEF StepFits, ReplyFits, Answering
  <2>3. QED
    BY <1>r, <2>1, <2>2
<1>8. ASSUME NEW w \in Workers, Session!checkAuth(w) PROVE SessionInv'
  <2>1. /\ worker[w] = "checkAuth"
        /\ UNCHANGED <<authenticated, permissions, request, requests, running>>
        /\ worker' = [worker EXCEPT ![w] =
             IF own(w).type = "SHUTDOWN"
               THEN IF authenticated THEN "rights" ELSE "refuse"
               ELSE IF authenticated THEN "work" ELSE "idle"]
        /\ IF authenticated THEN UNCHANGED replies ELSE Session!Answer(w, "denied")
    BY <1>8 DEF Session!checkAuth, Session!Goto, Session!login, Session!Request
  <2>2. worker[w] \in Answering /\ own(w).type \in {"work", "SHUTDOWN"}
    BY <1>f, <2>1 DEF StepFits, Answering
  <2>3. CASE authenticated
    <3>1. PICK l \in {"rights", "work"} : /\ worker' = [worker EXCEPT ![w] = l]
                                          /\ StepFits(l, own(w), authenticated, permissions)
      BY <2>1, <2>2, <2>3 DEF StepFits
    <3>2. l \in Answering
      BY DEF Answering
    <3>3. QED
      <4>1. /\ worker[w] # "stop" /\ l # "idle" /\ l # "sleep"
            /\ l \in Answering \union {"idle", "refuse", "sleep"}
            /\ worker[w] \in Answering \union {"stop"}
        BY <2>1, <2>2, <3>1, <3>2
      <4>2. UNCHANGED <<authenticated, permissions, request, requests, replies, running>>
        BY <2>1, <2>3
      <4>3. QED
        BY <1>b, <1>m, <3>1, <4>1, <4>2
  <2>4. CASE ~authenticated
    <3>1. ~own(w).greeted
      BY <1>g, <2>1, <2>4
    <3>2. PICK l \in {"refuse", "idle"} : /\ worker' = [worker EXCEPT ![w] = l]
                                          /\ l = "refuse" => own(w).type = "SHUTDOWN"
      BY <2>1, <2>4
    <3>3. ReplyFits("denied", own(w), authenticated, permissions)
      BY <3>1 DEF ReplyFits
    <3>4. QED
      BY <1>r, <2>1, <2>2, <2>4, <3>1, <3>2, <3>3
  <2>5. QED
    BY <2>3, <2>4
<1>9. ASSUME NEW w \in Workers, Session!Work(w) PROVE SessionInv'
  <2>1. /\ worker[w] = "work" /\ worker' = [worker EXCEPT ![w] = "idle"]
        /\ UNCHANGED <<authenticated, permissions, request, requests, running>>
    BY <1>9 DEF Session!Work, Session!Goto, Session!login
  <2>2. \/ own(w).content = "ill-typed" /\ UNCHANGED replies
        \/ \E s \in {"ok", "error"} : Session!Answer(w, s)
    BY <1>9 DEF Session!Work, Session!Request
  <2>3. /\ worker[w] \in Answering /\ own(w).type = "work"
        /\ authenticated
    BY <1>f, <2>1 DEF StepFits, Answering
  <2>4. CASE own(w).content = "ill-typed" /\ UNCHANGED replies
    BY <1>b, <1>m, <2>1, <2>3, <2>4
  <2>5. ASSUME NEW s \in {"ok", "error"}, Session!Answer(w, s) PROVE SessionInv'
    <3>1. ReplyFits(s, own(w), authenticated, permissions)
      BY <2>3 DEF ReplyFits
    <3>2. QED
      BY <1>r, <2>1, <2>3, <2>5, <3>1
  <2>6. QED
    BY <2>2, <2>4, <2>5
<1>10. ASSUME NEW w \in Workers, Session!Rights(w) PROVE SessionInv'
  <2>1. /\ worker[w] = "rights"
        /\ UNCHANGED <<authenticated, permissions, request, requests, replies, running>>
        /\ worker' = [worker EXCEPT ![w] =
                        IF permissions < 7 THEN "refuse" ELSE "stop services"]
    BY <1>10 DEF Session!Rights, Session!Goto, Session!login
  <2>2. /\ worker[w] \in Answering /\ own(w).type = "SHUTDOWN" /\ authenticated
        /\ own(w).greeted => permissions = 7
    BY <1>f, <1>g, <2>1 DEF StepFits, Answering
  <2>3. PICK l \in {"refuse", "stop services"} :
          /\ worker' = [worker EXCEPT ![w] = l]
          /\ StepFits(l, own(w), authenticated, permissions)
    <3>1. CASE permissions < 7
      <4>1. worker' = [worker EXCEPT ![w] = "refuse"] /\ ~own(w).greeted
        BY <2>1, <2>2, <3>1
      <4>2. QED
        BY <2>2, <4>1 DEF StepFits
    <3>2. CASE ~(permissions < 7)
      <4>1. worker' = [worker EXCEPT ![w] = "stop services"]
        BY <2>1, <3>2
      <4>2. QED
        BY <2>2, <4>1 DEF StepFits
    <3>3. QED
      BY <3>1, <3>2
  <2>4. /\ worker[w] # "stop" /\ l # "idle" /\ l # "sleep"
        /\ l \in Answering \union {"idle", "refuse", "sleep"}
        /\ worker[w] \in Answering \union {"stop"}
    BY <2>1, <2>2 DEF Answering
  <2>5. QED
    BY <1>b, <1>m, <2>1, <2>3, <2>4, ZenonT(30)
<1>11. ASSUME NEW w \in Workers, Session!Refuse(w) PROVE SessionInv'
  <2>1. /\ worker[w] = "refuse" /\ worker' = [worker EXCEPT ![w] = "idle"]
        /\ UNCHANGED <<authenticated, permissions, request, requests, running>>
        /\ Session!Answer(w, "error")
    BY <1>11 DEF Session!Refuse, Session!Goto, Session!login
  <2>2. ReplyFits("error", own(w), authenticated, permissions)
    BY <1>f, <2>1 DEF StepFits, ReplyFits
  <2>3. QED
    BY <1>r, <2>1, <2>2
<1>12. ASSUME NEW w \in Workers, Session!Confirm(w) PROVE SessionInv'
  <2>1. /\ worker[w] = "stop services" /\ worker' = [worker EXCEPT ![w] = "stop"]
        /\ UNCHANGED <<authenticated, permissions, request, requests, running>>
        /\ Session!Answer(w, "ok")
    BY <1>12 DEF Session!Confirm, Session!Goto, Session!login
  <2>2. /\ worker[w] \in Answering /\ own(w).type = "SHUTDOWN"
        /\ ReplyFits("ok", own(w), authenticated, permissions)
    BY <1>f, <2>1 DEF StepFits, ReplyFits, Answering
  <2>3. QED
    BY <1>r, <2>1, <2>2
<1>13. ASSUME NEW w \in Workers, Session!Stop(w) PROVE SessionInv'
  <2>1. /\ worker[w] = "stop" /\ worker' = [worker EXCEPT ![w] = "sleep"]
        /\ running' = FALSE
        /\ UNCHANGED <<authenticated, permissions, request, requests, replies>>
    BY <1>13 DEF Session!Stop, Session!Goto, Session!login
  <2>2. StepFits("sleep", own(w), authenticated, permissions)
    BY <1>f, <2>1 DEF StepFits
  <2>3. QED
    BY <1>b, <1>m, <2>1, <2>2
<1>14. CASE UNCHANGED Session!vars
  <2>1. SessionTypes' /\ OwnRequests' /\ RepliesSoFar'
    BY <1>14, <1>a DEF Session!vars, SessionTypes, OwnRequests, RepliesSoFar
  <2>2. LoginComplete' /\ NoneForgotten' /\ OneReply' /\ StopConfirmed'
    BY <1>14, <1>a
    DEF Session!vars, LoginComplete, NoneForgotten, OneReply, StopConfirmed, Session!SecondOf
  <2>3. QED
    BY <2>1, <2>2 DEF SessionInv
<1>15. QED
  BY <1>1, <1>2, <1>3, <1>4, <1>5, <1>6, <1>7, <1>8, <1>9, <1>10, <1>11, <1>12, <1>13, <1>14
  DEF Session!Next, Session!handleAuth, Session!handleShutdown

(* However a client's messages overlap, each is answered as the login allows, and   *)
(* once, but for a denied shutdown and what cannot be read; a client whose login was  *)
(* answered is not denied; and the server stops for a confirmed shutdown only.   *)
THEOREM RepliesStayRight == TaskSpec => []RepliesRight
<1>1. TaskSpec => []SessionInv
  BY SessionInvInit, SessionStep, SessionInvNext, PTL DEF TaskSpec
<1>2. QED
  BY <1>1, SessionInvRight, PTL
=============================================================================
