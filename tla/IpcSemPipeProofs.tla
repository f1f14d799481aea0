--------------------------- MODULE IpcSemPipeProofs ---------------------------
(***************************************************************************)
(* Theorems about MCIpcSemPipe, for any number of threads, any arguments of  *)
(* the create calls and any amounts: the units of a semaphore are accounted  *)
(* for, and a pipe holds the newest part of its stream and gives it out in   *)
(* order.                                                                  *)
(***************************************************************************)
EXTENDS MCIpcSemPipe, Integers, FiniteSetsExt, FiniteSetTheorems,
        WellFoundedInduction, TLAPS

-----------------------------------------------------------------------------
(* Facts about MapThenSumSet over a finite set, for the counts that several  *)
(* threads contribute to: the units held of a semaphore, the bytes promised  *)
(* to a pipe.  MapThenSumSet is a recursive function on the subsets; that     *)
(* there is such a function, and only one, is shown by the smallest subset   *)
(* for which it would fail.                                                *)

SumOver(f, S) == MapThenSumSet(LAMBDA x : f[x], S)

Chosen(s) == CHOOSE x \in s : TRUE
Rest(s) == s \ {Chosen(s)}

(* What g has to be at s to sum f up.                                       *)
SumStep(f, g, s) == IF s = {} THEN 0 ELSE f[Chosen(s)] + g[Rest(s)]
Sums(f, S, g) == g = [s \in SUBSET S |-> SumStep(f, g, s)]

-----------------------------------------------------------------------------
LEMMA NatMin ==
  ASSUME NEW T, T \subseteq Nat, T # {}
  PROVE \E n \in T : \A m \in T : ~ (m < n)
<1>1. PICK n \in T : \A m \in T : ~ (<<m, n>> \in OpToRel(<, Nat))
  BY NatLessThanWellFounded, WFMin
<1>2. \A m \in T : m < n => <<m, n>> \in OpToRel(<, Nat)
  BY DEF OpToRel
<1>3. QED
  BY <1>1, <1>2

(* A non-empty subset of a finite set loses one element when it loses its   *)
(* chosen one.                                                             *)
LEMMA RestSmaller ==
  ASSUME NEW S, IsFiniteSet(S), NEW s \in SUBSET S, s # {}
  PROVE  /\ Chosen(s) \in s /\ Rest(s) \in SUBSET S
         /\ Cardinality(s) \in Nat /\ Cardinality(Rest(s)) \in Nat
         /\ Cardinality(s) # 0
         /\ Cardinality(Rest(s)) = Cardinality(s) - 1
<1>1. Chosen(s) \in s /\ Rest(s) \in SUBSET S
  BY DEF Chosen, Rest
<1>2. IsFiniteSet(s) /\ IsFiniteSet(Rest(s))
  BY <1>1, FS_Subset
<1>3. Cardinality(Rest(s)) = Cardinality(s) - 1
  BY <1>1, <1>2, FS_RemoveElement DEF Rest
<1>4. QED
  BY <1>1, <1>2, <1>3, FS_CardinalityType, FS_EmptySet

LEMMA SumsExist ==
  ASSUME NEW S, IsFiniteSet(S), NEW f \in [S -> Int]
  PROVE  \E g \in [SUBSET S -> Int] : Sums(f, S, g)
<1> DEFINE
     Small(n) == {s \in SUBSET S : Cardinality(s) <= n}
     Upto(g, n) == \A s \in Small(n) : g[s] = SumStep(f, g, s)
     Bad == {n \in Nat : ~ \E g \in [SUBSET S -> Int] : Upto(g, n)}
<1>1. \A s \in SUBSET S : Cardinality(s) \in Nat
  BY FS_Subset, FS_CardinalityType
<1>2. 0 \notin Bad
  <2> DEFINE zero == [s \in SUBSET S |-> 0]
  <2>1. \A s \in Small(0) : s = {}
    BY <1>1, RestSmaller
  <2>2. zero \in [SUBSET S -> Int] /\ Upto(zero, 0)
    BY <2>1 DEF SumStep
  <2>3. QED
    BY <2>2
<1>3. ASSUME NEW n \in Nat, n + 1 \in Bad PROVE n \in Bad
  <2> SUFFICES ASSUME NEW g \in [SUBSET S -> Int], Upto(g, n)
               PROVE \E h \in [SUBSET S -> Int] : Upto(h, n + 1)
    BY <1>3
  <2> DEFINE h == [s \in SUBSET S |-> SumStep(f, g, s)]
  <2>1. \A s \in SUBSET S : s # {} => Chosen(s) \in S /\ Rest(s) \in SUBSET S
    BY RestSmaller
  <2>2. h \in [SUBSET S -> Int]
    BY <2>1 DEF SumStep
  <2>3. ASSUME NEW s \in Small(n + 1) PROVE h[s] = SumStep(f, h, s)
    <3>1. CASE s = {}
      BY <3>1 DEF SumStep
    <3>2. CASE s # {}
      <4>1. Rest(s) \in Small(n)
        BY <3>2, RestSmaller
      <4>2. h[Rest(s)] = g[Rest(s)]
        BY <4>1
      <4>3. QED
        BY <3>2, <4>2 DEF SumStep
    <3>3. QED
      BY <3>1, <3>2
  <2>4. QED
    BY <2>2, <2>3
<1>4. Bad = {}
  <2> SUFFICES ASSUME Bad # {} PROVE FALSE
    OBVIOUS
  <2>1. PICK n \in Bad : \A m \in Bad : ~ (m < n)
    <3> HIDE DEF Bad
    <3>1. Bad \subseteq Nat
      BY DEF Bad
    <3>2. QED
      BY <3>1, NatMin
  <2>2. n \in Nat /\ n # 0
    BY <2>1, <1>2
  <2>3. n - 1 \in Nat /\ n = (n - 1) + 1 /\ n - 1 < n
    BY <2>2
  <2>4. n - 1 \in Bad
    BY <1>3, <2>1, <2>3
  <2>5. QED
    BY <2>1, <2>3, <2>4
<1>5. Cardinality(S) \notin Bad /\ Cardinality(S) \in Nat
  BY <1>1, <1>4
<1>6. PICK g \in [SUBSET S -> Int] : Upto(g, Cardinality(S))
  BY <1>5
<1>7. \A s \in SUBSET S : s \in Small(Cardinality(S))
  BY <1>1, FS_Subset
<1>8. QED
  BY <1>6, <1>7 DEF Sums

(* Two functions that agree, set by set, as soon as they agree on the rest. *)
LEMMA SubsetsBelow ==
  ASSUME NEW S, IsFiniteSet(S), NEW Bad, Bad \subseteq SUBSET S,
         {} \notin Bad, \A s \in Bad : Rest(s) \in Bad
  PROVE  Bad = {}
<1> SUFFICES ASSUME Bad # {} PROVE FALSE
  OBVIOUS
<1> DEFINE Counts == {Cardinality(s) : s \in Bad}
<1>1. \A s \in Bad :
        /\ Cardinality(s) \in Nat /\ Cardinality(Rest(s)) \in Nat
        /\ Cardinality(Rest(s)) = Cardinality(s) - 1
  BY RestSmaller
<1>2. Counts \subseteq Nat /\ Counts # {}
  BY <1>1
<1>3. PICK s \in Bad : \A t \in Bad : ~ (Cardinality(t) < Cardinality(s))
  <2>1. PICK n \in Counts : \A m \in Counts : ~ (m < n)
    <3> HIDE DEF Counts
    <3> QED BY <1>2, NatMin
  <2>2. QED
    BY <2>1
<1>4. ~ (Cardinality(Rest(s)) < Cardinality(s))
  BY <1>3
<1>5. QED
  BY <1>1, <1>4

(* MapThenSumSet is the value of that function.                             *)
LEMMA SumIs ==
  ASSUME NEW S, IsFiniteSet(S), NEW f \in [S -> Int],
         NEW g \in [SUBSET S -> Int], Sums(f, S, g)
  PROVE  SumOver(f, S) = g[S]
<1>1. ASSUME NEW h, h = [s \in SUBSET S |-> SumStep(f, h, s)]
      PROVE h = g
  <2> DEFINE Bad == {s \in SUBSET S : h[s] # g[s]}
  <2>1. \A s \in SUBSET S : h[s] = SumStep(f, h, s) /\ g[s] = SumStep(f, g, s)
    BY <1>1 DEF Sums
  <2>2. {} \notin Bad
    BY <2>1 DEF SumStep
  <2>3. \A s \in Bad : Rest(s) \in Bad
    BY <2>1, <2>2, RestSmaller DEF SumStep
  <2>4. Bad = {}
    <3> HIDE DEF Bad
    <3>1. Bad \subseteq SUBSET S
      BY DEF Bad
    <3>2. QED
      BY <2>2, <2>3, <3>1, SubsetsBelow
  <2>5. h = [s \in SUBSET S |-> h[s]]
    BY <1>1
  <2>6. g = [s \in SUBSET S |-> g[s]]
    OBVIOUS
  <2>7. QED
    BY <2>4, <2>5, <2>6
<1>2. g = [s \in SUBSET S |-> SumStep(f, g, s)]
  BY DEF Sums
<1>3. \A h : h = [s \in SUBSET S |-> SumStep(f, h, s)] => h = g
  BY <1>1
<1>4. QED
  BY <1>2, <1>3 DEF SumOver, MapThenSumSet, MapThenFoldSet, SumStep, Chosen, Rest
-----------------------------------------------------------------------------
LEMMA SumType ==
  ASSUME NEW S, IsFiniteSet(S), NEW f \in [S -> Int]
  PROVE  SumOver(f, S) \in Int
<1>1. PICK g \in [SUBSET S -> Int] : Sums(f, S, g)
  BY SumsExist
<1>2. SumOver(f, S) = g[S]
  BY <1>1, SumIs
<1>3. QED
  BY <1>2

(* The sum of zeros.                                                       *)
LEMMA SumZero ==
  ASSUME NEW S, IsFiniteSet(S), NEW f \in [S -> Int], \A x \in S : f[x] = 0
  PROVE  SumOver(f, S) = 0
<1>1. PICK g \in [SUBSET S -> Int] : Sums(f, S, g)
  BY SumsExist
<1> DEFINE Bad == {s \in SUBSET S : g[s] # 0}
<1>2. \A s \in SUBSET S : g[s] = SumStep(f, g, s)
  BY <1>1 DEF Sums
<1>3. {} \notin Bad
  BY <1>2 DEF SumStep
<1>4. ASSUME NEW s \in Bad PROVE Rest(s) \in Bad
  <2>1. s \in SUBSET S /\ s # {}
    BY <1>3
  <2>2. Chosen(s) \in S /\ Rest(s) \in SUBSET S
    BY <2>1, RestSmaller
  <2>3. g[s] = f[Chosen(s)] + g[Rest(s)] /\ g[Rest(s)] \in Int
    BY <1>2, <2>1, <2>2 DEF SumStep
  <2>4. QED
    BY <2>2, <2>3
<1>5. Bad = {}
  <2> HIDE DEF Bad
  <2>1. Bad \subseteq SUBSET S
    BY DEF Bad
  <2>2. QED
    BY <1>3, <1>4, <2>1, SubsetsBelow
<1>6. QED
  BY <1>1, <1>5, SumIs

(* A sum of natural numbers is one, and no term is larger.                  *)
LEMMA SumOfNats ==
  ASSUME NEW S, IsFiniteSet(S), NEW f \in [S -> Int], \A x \in S : f[x] >= 0
  PROVE  SumOver(f, S) \in Nat /\ \A x \in S : f[x] <= SumOver(f, S)
<1>1. PICK g \in [SUBSET S -> Int] : Sums(f, S, g)
  BY SumsExist
<1> DEFINE Good(s) == g[s] >= 0 /\ \A x \in s : f[x] <= g[s]
           Bad == {s \in SUBSET S : ~ Good(s)}
<1>2. \A s \in SUBSET S : g[s] = SumStep(f, g, s)
  BY <1>1 DEF Sums
<1>3. {} \notin Bad
  BY <1>2 DEF SumStep
<1>4. ASSUME NEW s \in Bad PROVE Rest(s) \in Bad
  <2> SUFFICES ASSUME Good(Rest(s)) PROVE Good(s)
    <3>1. s \in SUBSET S /\ s # {} /\ ~ Good(s)
      BY <1>3
    <3>2. QED
      BY <3>1, RestSmaller
  <2>1. s \in SUBSET S /\ s # {}
    BY <1>3
  <2>2. Chosen(s) \in S /\ Rest(s) \in SUBSET S
    BY <2>1, RestSmaller
  <2>3. g[s] = f[Chosen(s)] + g[Rest(s)] /\ g[Rest(s)] \in Int
    BY <1>2, <2>1, <2>2 DEF SumStep
  <2>4. f[Chosen(s)] \in Int /\ f[Chosen(s)] >= 0 /\ g[Rest(s)] >= 0
    BY <2>2
  <2>5. ASSUME NEW x \in s PROVE f[x] <= g[s]
    <3>1. x = Chosen(s) \/ x \in Rest(s)
      BY DEF Rest
    <3>2. f[x] \in Int
      BY <2>1
    <3>3. x \in Rest(s) => f[x] <= g[Rest(s)]
      OBVIOUS
    <3>4. QED
      BY <2>3, <2>4, <3>1, <3>2, <3>3
  <2>6. QED
    BY <2>3, <2>4, <2>5
<1>5. Bad = {}
  <2> HIDE DEF Bad
  <2>1. Bad \subseteq SUBSET S
    BY DEF Bad
  <2>2. QED
    BY <1>3, <1>4, <2>1, SubsetsBelow
<1>6. QED
  BY <1>1, <1>5, SumIs

(* One term of a sum changes.                                              *)
LEMMA SumUpdate ==
  ASSUME NEW S, IsFiniteSet(S), NEW f \in [S -> Int], NEW new \in [S -> Int],
         NEW p \in S, \A x \in S \ {p} : new[x] = f[x]
  PROVE  SumOver(new, S) = SumOver(f, S) - f[p] + new[p]
<1> DEFINE v == new[p]
<1>1. v \in Int
  OBVIOUS
<1>2. PICK g \in [SUBSET S -> Int] : Sums(f, S, g)
  BY SumsExist
<1>3. PICK h \in [SUBSET S -> Int] : Sums(new, S, h)
  BY <1>1, SumsExist
<1> DEFINE Moved(s) == IF p \in s THEN g[s] - f[p] + v ELSE g[s]
           Bad == {s \in SUBSET S : h[s] # Moved(s)}
<1>4. \A s \in SUBSET S : g[s] = SumStep(f, g, s) /\ h[s] = SumStep(new, h, s)
  BY <1>2, <1>3 DEF Sums
<1>5. {} \notin Bad
  BY <1>4 DEF SumStep
<1>6. ASSUME NEW s \in Bad PROVE Rest(s) \in Bad
  <2> SUFFICES ASSUME h[Rest(s)] = Moved(Rest(s)) PROVE h[s] = Moved(s)
    <3>1. s \in SUBSET S /\ s # {} /\ h[s] # Moved(s)
      BY <1>5
    <3>2. QED
      BY <3>1, RestSmaller
  <2>1. s \in SUBSET S /\ s # {}
    BY <1>5
  <2>2. Chosen(s) \in s /\ Chosen(s) \in S /\ Rest(s) \in SUBSET S
    BY <2>1, RestSmaller
  <2>3. /\ g[s] = f[Chosen(s)] + g[Rest(s)]
        /\ h[s] = new[Chosen(s)] + h[Rest(s)]
    BY <1>4, <2>1, <2>2 DEF SumStep
  <2>4. f[Chosen(s)] \in Int /\ f[p] \in Int /\ g[Rest(s)] \in Int
    BY <2>2
  <2>5. CASE p = Chosen(s)
    <3>1. p \in s /\ p \notin Rest(s)
      BY <2>2, <2>5 DEF Rest
    <3>2. h[s] = v + g[Rest(s)] /\ g[s] = f[p] + g[Rest(s)]
      BY <2>3, <2>5, <3>1
    <3>3. QED
      BY <2>4, <3>1, <3>2
  <2>6. CASE p # Chosen(s)
    <3>1. p \in s <=> p \in Rest(s)
      BY <2>6 DEF Rest
    <3>2. new[Chosen(s)] = f[Chosen(s)]
      BY <2>2, <2>6
    <3>3. QED
      BY <2>3, <2>4, <3>1, <3>2
  <2>7. QED
    BY <2>5, <2>6
<1>7. Bad = {}
  <2> HIDE DEF Bad
  <2>1. Bad \subseteq SUBSET S
    BY DEF Bad
  <2>2. QED
    BY <1>5, <1>6, <2>1, SubsetsBelow
<1>8. h[S] = g[S] - f[p] + v
  BY <1>7
<1>9. QED
  BY <1>1, <1>2, <1>3, <1>8, SumIs

-----------------------------------------------------------------------------
(* The semaphore.                                                          *)

Acquiring == {"P", "recheck", "wait", "asleep"}

(* The inductive invariant.  What a thread is about to do to the value was   *)
(* decided when it came in: the sign of its op says which way it went, what  *)
(* it acquires stays within the bound, and what it releases it holds.       *)
Errands ==
  /\ \A p \in Procs : pc[p] = "V" => op[p] \in Ops /\ op[p] > 0
  /\ \A p \in Procs : pc[p] \in Acquiring =>
       op[p] \in Ops /\ op[p] < 0 /\ held[p] - op[p] <= MaxHeld
  /\ ~ rogue => \A p \in Procs : pc[p] = "V" => op[p] <= held[p]

Conserved ==
  SaneArguments /\ ~ rogue => value + SumOver(held, Procs) = Initial

SemInv == TypeOK /\ Errands /\ ValueInRange /\ Conserved

LEMMA HeldSum == UnitsConserved <=> Conserved
BY DEF UnitsConserved, Conserved, SumOver, MapThenSumSet, MapThenFoldSet

LEMMA Integral ==
  /\ IntMax \in Nat /\ Initial \in Int /\ MaxVal \in Int /\ MaxHeld \in Nat
  /\ MaxCloses \in Nat /\ MaxPins \in Nat /\ IsFiniteSet(Procs)
  /\ Initial \in Int32 /\ MaxVal \in Int32 /\ Ops \subseteq Int32
  /\ Int32 \subseteq Int
BY SemAssumption, ObjectAssumption DEF Int32

LEMMA MinOfTwo ==
  ASSUME NEW a \in Int, NEW b \in Int
  PROVE  Min({a, b}) = IF a <= b THEN a ELSE b
BY DEF Min

(* The sum of two ints is an int again.                                    *)
LEMMA WrapFits ==
  ASSUME NEW a \in Int32, NEW b \in Int32
  PROVE  /\ Wrap(a + b) \in Int32
         /\ -IntMax - 1 <= a + b /\ a + b <= IntMax => Wrap(a + b) = a + b
<1>1. /\ IntMax \in Nat /\ a \in Int /\ b \in Int
      /\ -IntMax - 1 <= a /\ a <= IntMax /\ -IntMax - 1 <= b /\ b <= IntMax
  BY Integral DEF Int32
<1>2. Wrap(a + b) \in Int /\ -IntMax - 1 <= Wrap(a + b) /\ Wrap(a + b) <= IntMax
  BY <1>1 DEF Wrap
<1>3. -IntMax - 1 <= a + b /\ a + b <= IntMax => Wrap(a + b) = a + b
  BY <1>1 DEF Wrap
<1>4. QED
  BY <1>2, <1>3, Integral DEF Int32

LEMMA SemInvInit == ObjInit /\ Init => SemInv
<1> SUFFICES ASSUME Init PROVE SemInv
  OBVIOUS
<1>1. ObjTypeOK
  BY Integral DEF Init, ObjInit, ObjTypeOK
<1>2. TypeOK
  <2>1. value \in Int32 /\ op \in [Procs -> Int32] /\ held \in [Procs -> 0 .. MaxHeld]
    BY Integral DEF Init, Int32
  <2>2. holders = {p \in Procs : pc[p] # "idle"}
    BY DEF Init, ObjInit
  <2>3. rogue \in BOOLEAN
    BY Zenon DEF Init
  <2>4. QED
    BY <1>1, <2>1, <2>2, <2>3 DEF Init, TypeOK
<1>3. Errands
  BY DEF Init, Errands, Acquiring
<1>4. ValueInRange
  BY Integral DEF Init, ValueInRange, SaneArguments
<1>5. Conserved
  <2>1. SumOver(held, Procs) = 0
    <3>1. held \in [Procs -> Int] /\ \A p \in Procs : held[p] = 0
      BY DEF Init
    <3>2. QED
      BY <3>1, Integral, SumZero
  <2>2. QED
    BY <2>1, Integral DEF Conserved, Init
<1>6. QED
  BY <1>2, <1>3, <1>4, <1>5 DEF SemInv

(* The object's part of a step keeps the object's types.                    *)
LEMMA ObjTypes ==
  ASSUME ObjTypeOK, NEW p \in Procs,
         Install \/ Acquire(p) \/ Release(p) \/ Close \/ UNCHANGED objVars
  PROVE  ObjTypeOK'
<1> USE Integral DEF ObjTypeOK
<1>1. CASE Install
  BY <1>1 DEF Install
<1>2. CASE Acquire(p)
  BY <1>2 DEF Acquire
<1>3. CASE Release(p)
  BY <1>3 DEF Release
<1>4. CASE CloseDrop
  BY <1>4 DEF CloseDrop
<1>5. CASE CloseLast
  BY <1>5 DEF CloseLast
<1>6. CASE UNCHANGED objVars
  BY <1>6 DEF objVars
<1>7. QED
  BY <1>1, <1>2, <1>3, <1>4, <1>5, <1>6 DEF Close

(* The sum of the units held moves with those of one thread.                *)
LEMMA HeldMoves ==
  ASSUME held \in [Procs -> Int], held' \in [Procs -> Int], NEW p \in Procs,
         \A q \in Procs \ {p} : held'[q] = held[q]
  PROVE  SumOver(held', Procs) = SumOver(held, Procs) - held[p] + held'[p]
<1>1. IsFiniteSet(Procs)
  BY ObjectAssumption
<1>2. QED
  BY <1>1, SumUpdate

(* A thread inside the semaphore goes on, and may change the value and what  *)
(* it holds.  What is left to show is about that thread alone.              *)
LEMMA SemGoesOn ==
  ASSUME SemInv, NEW p \in Procs, NEW v \in Int32, NEW h \in 0 .. MaxHeld,
         NEW to \in {"wake", "recheck", "wait", "asleep", "leave"},
         pc[p] # "idle", pc' = [pc EXCEPT ![p] = to],
         value' = v, held' = [held EXCEPT ![p] = h],
         UNCHANGED <<objVars, op, rogue>>,
         to \in Acquiring => pc[p] \in Acquiring /\ h = held[p],
         SaneArguments => 0 <= v /\ v <= MaxVal,
         SaneArguments /\ ~ rogue => v + h = value + held[p]
  PROVE  SemInv'
<1>1. /\ pc \in [Procs -> {"idle", "V", "wake", "P", "recheck", "wait", "asleep",
                           "leave"}]
      /\ held \in [Procs -> 0 .. MaxHeld] /\ value \in Int32 /\ value \in Int
  BY Integral DEF SemInv, TypeOK
<1>2. /\ pc'[p] = to /\ held'[p] = h
      /\ \A q \in Procs \ {p} : pc'[q] = pc[q] /\ held'[q] = held[q]
  BY <1>1
<1>3. ObjTypeOK'
  BY ObjTypes DEF SemInv, TypeOK
<1>4. TypeOK'
  <2>1. /\ pc' \in [Procs -> {"idle", "V", "wake", "P", "recheck", "wait",
                              "asleep", "leave"}]
        /\ held' \in [Procs -> 0 .. MaxHeld]
    BY <1>1
  <2>2. holders' = {q \in Procs : pc'[q] # "idle"}
    <3>1. holders = {q \in Procs : pc[q] # "idle"} /\ holders' = holders
      BY DEF SemInv, TypeOK, objVars
    <3>2. \A q \in Procs : pc'[q] # "idle" <=> pc[q] # "idle"
      BY <1>2
    <3>3. QED
      BY <3>1, <3>2
  <2>3. rogue' \in BOOLEAN
    BY Zenon DEF SemInv, TypeOK
  <2>4. op' \in [Procs -> Int32]
    BY DEF SemInv, TypeOK
  <2>5. QED
    BY <1>3, <2>1, <2>2, <2>3, <2>4 DEF TypeOK
<1>5. Errands'
  <2>1. \A q \in Procs : pc'[q] = "V" => pc[q] = "V" /\ held'[q] = held[q]
    BY <1>2
  <2>2. \A q \in Procs :
          pc'[q] \in Acquiring => pc[q] \in Acquiring /\ held'[q] = held[q]
    BY <1>2
  <2>3. QED
    BY <2>1, <2>2 DEF SemInv, Errands
<1>6. ValueInRange'
  BY DEF ValueInRange, SaneArguments
<1>7. Conserved'
  <2>1. held \in [Procs -> Int] /\ h \in Int /\ v \in Int
    BY <1>1, Integral
  <2>2. SumOver(held', Procs) = SumOver(held, Procs) - held[p] + h
    <3>1. held' \in [Procs -> Int] /\ \A q \in Procs \ {p} : held'[q] = held[q]
      BY <1>2, <2>1
    <3>2. SumOver(held', Procs) = SumOver(held, Procs) - held[p] + held'[p]
      BY <2>1, <3>1, HeldMoves
    <3>3. QED
      BY <1>2, <3>2
  <2>3. SumOver(held, Procs) \in Int /\ held[p] \in Int
    BY <2>1, Integral, SumType
  <2>4. QED
    BY <1>1, <2>1, <2>2, <2>3, Integral DEF SemInv, Conserved, SaneArguments
<1>8. QED
  BY <1>4, <1>5, <1>6, <1>7 DEF SemInv

(* A thread comes in or leaves, or the object does: the value stays.        *)
LEMMA SemComesAndGoes ==
  ASSUME SemInv, [Next]_vars, NEW p \in Procs,
         \/ Create \/ CloseSem \/ Leave(p) \/ UNCHANGED vars
         \/ \E n \in Ops : Enter(p, n)
  PROVE  SemInv'
<1> DEFINE Places == {"idle", "V", "wake", "P", "recheck", "wait", "asleep", "leave"}
<1>1. /\ pc \in [Procs -> Places] /\ op \in [Procs -> Int32]
      /\ held \in [Procs -> 0 .. MaxHeld] /\ value \in Int32 /\ rogue \in BOOLEAN
      /\ holders = {q \in Procs : pc[q] # "idle"} /\ ObjTypeOK
  BY Zenon DEF SemInv, TypeOK
<1>2. value' = value /\ held' = held
  BY DEF Create, CloseSem, Leave, Enter, vars
<1>3. ValueInRange'
  BY <1>2 DEF SemInv, ValueInRange, SaneArguments
<1>4. ASSUME rogue => rogue' PROVE Conserved'
  BY <1>2, <1>4 DEF SemInv, Conserved, SaneArguments
<1>5. CASE Create \/ CloseSem \/ UNCHANGED vars
  <2>1. UNCHANGED <<holders, value, pc, op, held, rogue>>
    BY <1>5 DEF Create, CloseSem, Install, Close, CloseDrop, CloseLast, vars,
                objVars
  <2>2. ObjTypeOK'
    BY <1>1, <1>5, ObjTypes DEF Create, CloseSem, vars
  <2>3. TypeOK'
    BY <1>1, <2>1, <2>2, Zenon DEF TypeOK
  <2>4. Errands'
    BY <2>1 DEF SemInv, Errands
  <2>5. QED
    BY <1>3, <1>4, <2>1, <2>3, <2>4 DEF SemInv
<1>6. CASE Leave(p)
  <2>1. /\ pc[p] = "leave" /\ pc' = [pc EXCEPT ![p] = "idle"]
        /\ op' = [op EXCEPT ![p] = 0] /\ rogue' = rogue
        /\ holders' = holders \ {p}
    BY <1>6 DEF Leave, Goto, Release
  <2>2. /\ pc' \in [Procs -> Places] /\ pc'[p] = "idle"
        /\ \A q \in Procs \ {p} : pc'[q] = pc[q] /\ op'[q] = op[q]
    BY <1>1, <2>1
  <2>3. ObjTypeOK'
    BY <1>1, <1>6, ObjTypes DEF Leave
  <2>4. holders' = {q \in Procs : pc'[q] # "idle"}
    BY <1>1, <2>1, <2>2
  <2>5. op' \in [Procs -> Int32]
    <3>1. 0 \in Int32
      BY Integral DEF Int32
    <3>2. QED
      BY <1>1, <2>1, <3>1
  <2>6. TypeOK'
    BY <1>1, <1>2, <2>1, <2>2, <2>3, <2>4, <2>5, Zenon DEF TypeOK
  <2>7. Errands'
    <3>1. \A q \in Procs : pc'[q] \in Acquiring \union {"V"} =>
            q # p /\ pc'[q] = pc[q] /\ op'[q] = op[q]
      BY <2>2 DEF Acquiring
    <3>2. QED
      BY <1>2, <2>1, <3>1 DEF SemInv, Errands
  <2>8. QED
    BY <1>3, <1>4, <2>1, <2>6, <2>7 DEF SemInv
<1>7. ASSUME NEW n \in Ops, Enter(p, n) PROVE SemInv'
  <2> DEFINE to == IF n > 0 THEN "V" ELSE IF n < 0 THEN "P" ELSE "leave"
  <2>1. /\ pc[p] = "idle" /\ pc' = [pc EXCEPT ![p] = to]
        /\ op' = [op EXCEPT ![p] = n] /\ rogue' = (rogue \/ n > held[p])
        /\ holders' = holders \cup {p} /\ held[p] - n <= MaxHeld
    BY <1>7 DEF Enter, Goto, Acquire
  <2>2. to \in Places /\ to # "idle"
    OBVIOUS
  <2>3. /\ pc' \in [Procs -> Places] /\ pc'[p] = to /\ op'[p] = n
        /\ \A q \in Procs \ {p} : pc'[q] = pc[q] /\ op'[q] = op[q]
    BY <1>1, <2>1, <2>2
  <2>4. ObjTypeOK'
    BY <1>1, <1>7, ObjTypes DEF Enter
  <2>5. holders' = {q \in Procs : pc'[q] # "idle"}
    <3> HIDE DEF to
    <3> QED BY <1>1, <2>1, <2>2, <2>3
  <2>6. n \in Int32 /\ n \in Int
    BY Integral
  <2>7. op' \in [Procs -> Int32]
    BY <1>1, <2>1, <2>6
  <2>8. rogue' \in BOOLEAN
    BY <1>1, <2>1
  <2>9. TypeOK'
    BY <1>1, <1>2, <2>3, <2>4, <2>5, <2>7, <2>8, Zenon DEF TypeOK
  <2>10. Errands'
    <3>1. to = "V" => n > 0
      BY <2>6
    <3>2. to \in Acquiring => n < 0
      BY <2>6 DEF Acquiring
    <3>3. ~ rogue' => ~ rogue /\ n <= held[p]
      <4>1. held[p] \in Int
        BY <1>1
      <4>2. ~ rogue' => ~ rogue /\ ~ (n > held[p])
        BY <1>1, <2>1, Zenon
      <4>3. QED
        BY <2>6, <4>1, <4>2
    <3> HIDE DEF to
    <3>4. \A q \in Procs : pc'[q] = "V" => op'[q] \in Ops /\ op'[q] > 0
      BY <2>3, <3>1 DEF SemInv, Errands
    <3>5. \A q \in Procs : pc'[q] \in Acquiring =>
            op'[q] \in Ops /\ op'[q] < 0 /\ held'[q] - op'[q] <= MaxHeld
      BY <1>2, <2>1, <2>3, <3>2 DEF SemInv, Errands
    <3>6. ~ rogue' => \A q \in Procs : pc'[q] = "V" => op'[q] <= held'[q]
      BY <1>2, <2>3, <3>3 DEF SemInv, Errands
    <3>7. QED
      BY <3>4, <3>5, <3>6 DEF Errands
  <2>11. QED
    BY <1>3, <1>4, <2>1, <2>9, <2>10 DEF SemInv
<1>8. QED
  BY <1>5, <1>6, <1>7

LEMMA SemInvNext == SemInv /\ [Next]_vars => SemInv'
<1> SUFFICES ASSUME SemInv, [Next]_vars PROVE SemInv'
  OBVIOUS
<1>1. /\ pc \in [Procs -> {"idle", "V", "wake", "P", "recheck", "wait", "asleep",
                           "leave"}]
      /\ op \in [Procs -> Int32] /\ held \in [Procs -> 0 .. MaxHeld]
      /\ value \in Int32
  BY DEF SemInv, TypeOK
<1>2. value \in Int /\ \A p \in Procs : op[p] \in Int /\ held[p] \in Int
  <2>1. \A p \in Procs : op[p] \in Int32 /\ held[p] \in Int
    BY <1>1
  <2>2. QED
    BY <1>1, <2>1, Integral
<1>3. held = [p \in Procs |-> held[p]]
  BY <1>1
<1>4. ASSUME NEW p \in Procs, V(p) PROVE SemInv'
  <2> DEFINE sum == Wrap(value + op[p])
             h == IF op[p] > held[p] THEN 0 ELSE held[p] - op[p]
  <2>1. pc[p] = "V" /\ op[p] > 0
    BY <1>4 DEF V, Goto, SemInv, Errands
  <2>2. sum \in Int32 /\ sum \in Int
    BY <1>1, WrapFits, Integral
  <2>3. Min({sum, MaxVal}) = IF sum <= MaxVal THEN sum ELSE MaxVal
    BY <2>2, Integral, MinOfTwo
  <2>4. h \in 0 .. MaxHeld
    BY <1>1, <1>2, <2>1, Integral
  <2>5. SaneArguments => sum = value + op[p] /\ 0 <= sum
    <3>1. SaneArguments =>
            0 <= value /\ value <= MaxVal /\ MaxVal + op[p] <= IntMax
      BY <2>1, <1>4 DEF SemInv, ValueInRange, Errands, SaneArguments
    <3>2. SaneArguments => -IntMax - 1 <= value + op[p] /\ value + op[p] <= IntMax
      BY <1>2, <2>1, <3>1, Integral
    <3>3. QED
      BY <1>1, <1>2, <2>1, <3>1, <3>2, WrapFits
  <2>6. SaneArguments /\ ~ rogue => op[p] <= held[p] /\ sum <= MaxVal
    <3>1. held \in [Procs -> Int] /\ \A q \in Procs : held[q] >= 0
      BY <1>1, Integral
    <3>2. held[p] <= SumOver(held, Procs) /\ SumOver(held, Procs) \in Int
      BY <3>1, Integral, SumOfNats
    <3>3. SaneArguments /\ ~ rogue => op[p] <= held[p]
      BY <2>1 DEF SemInv, Errands
    <3>4. SaneArguments /\ ~ rogue =>
            value + SumOver(held, Procs) = Initial /\ Initial <= MaxVal
      BY DEF SemInv, Conserved, SaneArguments
    <3>5. QED
      BY <1>2, <2>5, <3>2, <3>3, <3>4, Integral
  <2>7. /\ pc' = [pc EXCEPT ![p] = "wake"] /\ value' = Min({sum, MaxVal})
        /\ held' = [held EXCEPT ![p] = h]
        /\ UNCHANGED <<objVars, op, rogue>>
    BY <1>4, <1>1 DEF V, Goto
  <2> HIDE DEF sum, h
  <2>8. Min({sum, MaxVal}) \in Int32
    BY <2>2, <2>3, Integral
  <2>9. SaneArguments => 0 <= Min({sum, MaxVal}) /\ Min({sum, MaxVal}) <= MaxVal
    BY <2>2, <2>3, <2>5, Integral DEF SaneArguments
  <2>10. SaneArguments /\ ~ rogue => Min({sum, MaxVal}) + h = value + held[p]
    BY <1>2, <2>2, <2>3, <2>5, <2>6 DEF h
  <2>11. QED
    BY <2>1, <2>4, <2>7, <2>8, <2>9, <2>10, SemGoesOn DEF Acquiring
<1>5. ASSUME NEW p \in Procs, P(p) PROVE SemInv'
  <2> DEFINE sum == Wrap(value + op[p])
             h == held[p] - op[p]
  <2>1. pc[p] \in Acquiring /\ op[p] < 0 /\ h <= MaxHeld
    BY <1>5 DEF P, Goto, SemInv, Errands, Acquiring
  <2>2. sum \in Int32 /\ sum \in Int /\ sum >= 0
    BY <1>1, <1>5, WrapFits, Integral DEF P, Fits
  <2>3. h \in 0 .. MaxHeld
    <3>1. held[p] \in 0 .. MaxHeld
      BY <1>1
    <3>2. QED
      BY <1>2, <2>1, <3>1, Integral
  <2>4. SaneArguments => sum = value + op[p] /\ sum <= MaxVal
    <3>1. SaneArguments => 0 <= value /\ value <= MaxVal
      BY DEF SemInv, ValueInRange
    <3>2. -IntMax - 1 <= op[p] /\ op[p] <= IntMax /\ MaxVal <= IntMax
      BY <1>1, Integral DEF Int32
    <3>3. SaneArguments => -IntMax - 1 <= value + op[p] /\ value + op[p] <= IntMax
      BY <1>2, <2>1, <3>1, <3>2, Integral
    <3>4. SaneArguments => sum = value + op[p]
      BY <1>1, <3>3, WrapFits
    <3>5. QED
      BY <1>2, <2>1, <3>1, <3>4, Integral
  <2>5. /\ pc' = [pc EXCEPT ![p] = "leave"] /\ value' = sum
        /\ held' = [held EXCEPT ![p] = h]
        /\ UNCHANGED <<objVars, op, rogue>>
    BY <1>5, <1>1 DEF P, Goto
  <2>6. pc[p] # "idle" /\ "leave" \notin Acquiring
    BY <2>1 DEF Acquiring
  <2>7. SaneArguments /\ ~ rogue => sum + h = value + held[p]
    BY <1>2, <2>4
  <2> HIDE DEF sum, h
  <2>8. QED
    BY <2>2, <2>3, <2>4, <2>5, <2>6, <2>7, SemGoesOn
<1>6. ASSUME NEW p \in Procs, NEW to \in {"recheck", "wait", "asleep", "leave"},
             pc[p] \in Acquiring, pc' = [pc EXCEPT ![p] = to],
             UNCHANGED <<objVars, value, op, held, rogue>>
      PROVE  SemInv'
  <2>1. held' = [held EXCEPT ![p] = held[p]] /\ value' = value
    BY <1>1, <1>6
  <2>2. held[p] \in 0 .. MaxHeld
    BY <1>1
  <2>3. SaneArguments => 0 <= value /\ value <= MaxVal
    BY DEF SemInv, ValueInRange
  <2>4. pc[p] # "idle"
    BY <1>6 DEF Acquiring
  <2>5. QED
    BY <1>1, <1>6, <2>1, <2>2, <2>3, <2>4, SemGoesOn
<1>7. ASSUME NEW p \in Procs, Wake(p) PROVE SemInv'
  <2>1. /\ pc[p] = "wake" /\ UNCHANGED <<objVars, value, op, held, rogue>>
        /\ pc' = [q \in Procs |-> IF q = p THEN "leave"
                                  ELSE IF pc[q] = "asleep" THEN "wait" ELSE pc[q]]
    BY <1>7 DEF Wake
  <2>2. \A q \in Procs :
          /\ pc'[q] = "V" => pc[q] = "V"
          /\ pc'[q] \in Acquiring => pc[q] \in Acquiring
          /\ pc'[q] # "idle" <=> pc[q] # "idle"
    BY <2>1 DEF Acquiring
  <2>3. ObjTypeOK'
    BY <1>7, <2>1, ObjTypes DEF SemInv, TypeOK
  <2>4. holders' = {q \in Procs : pc'[q] # "idle"}
    <3>1. holders = {q \in Procs : pc[q] # "idle"} /\ holders' = holders
      BY <2>1 DEF SemInv, TypeOK, objVars
    <3>2. QED
      BY <2>2, <3>1
  <2>5. pc' \in [Procs -> {"idle", "V", "wake", "P", "recheck", "wait", "asleep",
                           "leave"}]
    BY <1>1, <2>1
  <2>6. TypeOK'
    BY <2>1, <2>3, <2>4, <2>5, Zenon DEF SemInv, TypeOK
  <2>7. Errands'
    BY <2>1, <2>2 DEF SemInv, Errands
  <2>8. QED
    BY <2>1, <2>6, <2>7 DEF SemInv, ValueInRange, SaneArguments, Conserved
<1>8. ASSUME NEW p \in Procs, PNoWait(p) \/ PBlock(p) \/ PTestWait(p) \/ PSignal(p)
      PROVE  SemInv'
  <2>1. PICK to \in {"recheck", "wait", "asleep", "leave"} :
          pc' = [pc EXCEPT ![p] = to]
    BY <1>8 DEF PNoWait, PBlock, PTestWait, PSignal, Goto
  <2>2. pc[p] \in Acquiring /\ UNCHANGED <<objVars, value, op, held, rogue>>
    BY <1>8 DEF PNoWait, PBlock, PTestWait, PSignal, Goto, Acquiring
  <2>3. QED
    BY <1>6, <2>1, <2>2
<1>9. CASE Create \/ CloseSem \/ UNCHANGED vars
  <2>1. CASE Procs # {}
    <3>1. PICK p \in Procs : TRUE
      BY <2>1
    <3>2. QED
      BY <1>9, <3>1, SemComesAndGoes
  <2>2. CASE Procs = {}
    <3>1. UNCHANGED <<holders, value, pc, op, held, rogue>>
      BY <1>9 DEF Create, CloseSem, Install, Close, CloseDrop, CloseLast, vars,
                  objVars
    <3>2. ObjTypeOK'
      BY <1>9, Integral DEF SemInv, TypeOK, ObjTypeOK, Create, CloseSem, Install,
                            Close, CloseDrop, CloseLast, vars, objVars
    <3>3. QED
      BY <3>1, <3>2 DEF SemInv, TypeOK, Errands, ValueInRange, SaneArguments,
                        Conserved
  <2>3. QED
    BY <2>1, <2>2
<1>10. ASSUME NEW p \in Procs, Leave(p) \/ Refuse(p) \/ \E n \in Ops : Enter(p, n)
       PROVE  SemInv'
  BY <1>10, SemComesAndGoes DEF Refuse
<1>11. QED
  BY <1>4, <1>5, <1>7, <1>8, <1>9, <1>10 DEF Next, Advance
-----------------------------------------------------------------------------
(* The pipe.                                                               *)

Places == {"idle", "write", "wrote", "wsleep", "read", "got", "rsleep", "leave"}

(* Available and Move, of any positions.                                    *)
Used(r, w, s) == IF w >= r THEN w - r ELSE s - r + w
Along(pos, n, s) == IF pos + n >= s THEN pos + n - s ELSE pos + n
Bytes == Used(read_pos, write_pos, size)

(* What a writer in its loop has still to write.                            *)
Promised(p) == IF pc[p] \in {"write", "wrote", "wsleep"} THEN todo[p] ELSE 0

PipeTypes ==
  /\ ObjTypeOK
  /\ size \in Nat
  /\ buffer \in [0 .. size - 1 -> 0 .. MaxWritten]
  /\ read_pos \in Nat /\ write_pos \in Nat
  /\ size > 0 => read_pos < size /\ write_pos < size
  /\ size = 0 => read_pos = 0 /\ write_pos = 0
  /\ pc \in [Procs -> Places]
  /\ todo \in [Procs -> Nat] /\ seen \in [Procs -> Nat]
  /\ asked \in 0 .. MaxWritten /\ written \in Nat
  /\ consumed \in Nat /\ last \in Nat

(* The inductive invariant.  That every byte has its number within what was  *)
(* asked for takes the sum of what all writers have still to write; that     *)
(* readers get the bytes in order takes that the last byte read is older     *)
(* than all in the buffer.                                                 *)
Within == written + SumOver([p \in Procs |-> Promised(p)], Procs) <= asked
Unused == stage = "new" => size = 0 /\ written = 0 /\ consumed = 0 /\ last = 0
Newest ==
  \A k \in 0 .. Bytes - 1 : buffer[Along(read_pos, k, size)] = written - Bytes + 1 + k
Forward == last <= written - Bytes
Whole == \E k \in Int : written - consumed - Bytes = k * size

(* A thread is in the loop of a call as long as it has something to move.    *)
Looping ==
  \A p \in Procs : pc[p] \in {"write", "wsleep", "read", "rsleep"} => todo[p] > 0

PipeInv == PipeTypes /\ Looping /\ Within /\ Unused /\ Newest /\ Forward /\ Whole

LEMMA PipeBounds ==
  /\ Sizes \subseteq Nat /\ Lengths \subseteq Nat /\ MaxWritten \in Nat
  /\ MaxCloses \in Nat /\ MaxPins \in Nat /\ IsFiniteSet(Procs)
BY PipeAssumed, ObjectAssumption DEF Pipe!PipeAssumption

(* The arithmetic of the ring.                                             *)
LEMMA BytesInRing ==
  ASSUME PipeTypes
  PROVE  /\ Bytes \in Nat /\ (size > 0 => Bytes < size) /\ (size = 0 => Bytes = 0)
         /\ Pipe!Available = Bytes /\ Pipe!FreeSpace = size - Bytes
BY DEF PipeTypes, Bytes, Used, Pipe!Available, Pipe!FreeSpace

LEMMA RingWrites ==
  ASSUME NEW s \in Nat, NEW r \in Nat, NEW w \in Nat, r < s, w < s,
         NEW n \in Nat, n > 0, n <= s - Used(r, w, s)
  PROVE  /\ Along(w, n, s) \in Nat /\ Along(w, n, s) < s
         /\ Used(r, Along(w, n, s), s) =
              IF Used(r, w, s) + n = s THEN 0 ELSE Used(r, w, s) + n
BY DEF Used, Along

LEMMA RingReads ==
  ASSUME NEW s \in Nat, NEW r \in Nat, NEW w \in Nat, r < s, w < s,
         NEW n \in Nat, n > 0, n <= Used(r, w, s)
  PROVE  /\ Along(r, n, s) \in Nat /\ Along(r, n, s) < s
         /\ Used(Along(r, n, s), w, s) = Used(r, w, s) - n
         /\ \A k \in Nat : k < Used(r, w, s) - n =>
              Along(Along(r, n, s), k, s) = Along(r, n + k, s)
BY DEF Used, Along

(* The slots a write fills are those behind the bytes that are there.        *)
LEMMA RingSlots ==
  ASSUME NEW s \in Nat, NEW r \in Nat, NEW w \in Nat, r < s, w < s,
         NEW n \in Nat, n > 0, Used(r, w, s) + n < s,
         NEW k \in Nat, k < Used(r, w, s) + n,
         NEW x, x = Along(r, k, s)
  PROVE  /\ x \in 0 .. s - 1
         /\ k < Used(r, w, s) => ~ (x >= w /\ x < w + n) /\ ~ (x + s < w + n)
         /\ k >= Used(r, w, s) =>
              \/ x >= w /\ x < w + n /\ x - w = k - Used(r, w, s)
              \/ x < w /\ x + s < w + n /\ x + s - w = k - Used(r, w, s)
BY DEF Used, Along

LEMMA PipeInvInit == Init /\ Pipe!Init => PipeInv
<1> SUFFICES ASSUME Init, Pipe!Init PROVE PipeInv
  OBVIOUS
<1> USE PipeBounds DEF Pipe!Init
<1>1. ObjTypeOK
  BY DEF Init, ObjInit, ObjTypeOK
<1>2. PipeTypes
  BY <1>1 DEF PipeTypes, Places
<1>3. Within
  <2> DEFINE none == [p \in Procs |-> Promised(p)]
  <2>1. none \in [Procs -> Int] /\ \A p \in Procs : none[p] = 0
    BY DEF Promised
  <2>2. SumOver(none, Procs) = 0
    BY <2>1, SumZero
  <2>3. QED
    BY <2>2 DEF Within
<1>4. Bytes = 0
  BY DEF Bytes, Used
<1>5. Looping /\ Unused /\ Newest /\ Forward
  BY <1>4 DEF Init, Looping, Unused, Newest, Forward
<1>6. Whole
  <2>1. written - consumed - Bytes = 0 * size
    BY <1>4
  <2>2. QED
    BY <2>1 DEF Whole
<1>7. QED
  BY <1>2, <1>3, <1>5, <1>6 DEF PipeInv

(* Every byte written, and every byte promised, is within the bound.        *)
LEMMA WrittenWithin ==
  ASSUME PipeTypes, Within
  PROVE  /\ written <= asked
         /\ \A p \in Procs : written + Promised(p) <= asked
<1> DEFINE f == [p \in Procs |-> Promised(p)]
<1>1. f \in [Procs -> Int] /\ \A p \in Procs : f[p] >= 0
  BY DEF PipeTypes, Promised
<1>2. SumOver(f, Procs) \in Nat /\ \A p \in Procs : f[p] <= SumOver(f, Procs)
  <2> HIDE DEF f
  <2> QED BY <1>1, PipeBounds, SumOfNats
<1>3. \A p \in Procs : f[p] = Promised(p) /\ Promised(p) \in Nat
  BY DEF PipeTypes, Promised
<1>4. written \in Nat /\ asked \in Nat /\ written + SumOver(f, Procs) <= asked
  BY DEF Within, PipeTypes
<1> HIDE DEF f
<1>5. QED
  BY <1>2, <1>3, <1>4

(* What one thread has to write changes; no other's does.                   *)
LEMMA PromisesMove ==
  ASSUME PipeTypes, PipeTypes', Within, NEW p \in Procs,
         \A q \in Procs \ {p} : Promised(q)' = Promised(q),
         written' + Promised(p)' - asked' <= written + Promised(p) - asked
  PROVE  Within'
<1> DEFINE f == [q \in Procs |-> Promised(q)]
<1>1. f \in [Procs -> Int] /\ f' \in [Procs -> Int]
  <2>1. \A q \in Procs : Promised(q) \in Int
    BY DEF PipeTypes, Promised
  <2>2. \A q \in Procs : Promised(q)' \in Int
    BY DEF PipeTypes, Promised
  <2>3. QED
    BY <2>1, <2>2
<1>2. \A q \in Procs \ {p} : f'[q] = f[q]
  OBVIOUS
<1>3. f[p] = Promised(p) /\ f'[p] = Promised(p)'
  OBVIOUS
<1>4. SumOver(f', Procs) = SumOver(f, Procs) - f[p] + f'[p]
  <2>1. IsFiniteSet(Procs)
    BY PipeBounds
  <2> HIDE DEF f
  <2>2. QED
    BY <1>1, <1>2, <2>1, SumUpdate
<1>5. SumOver(f, Procs) \in Int /\ f[p] \in Int /\ f'[p] \in Int
  <2>1. IsFiniteSet(Procs)
    BY PipeBounds
  <2> HIDE DEF f
  <2>2. QED
    BY <1>1, <2>1, SumType
<1>6. /\ written \in Int /\ asked \in Int /\ written' \in Int /\ asked' \in Int
      /\ written + SumOver(f, Procs) <= asked
  BY DEF PipeTypes, Within
<1>7. written' + SumOver(f', Procs) <= asked'
  <2> HIDE DEF f
  <2> QED BY <1>3, <1>4, <1>5, <1>6
<1>8. QED
  BY <1>7 DEF Within

(* A step of a thread outside the critical sections: the ring stays, and the *)
(* thread has promised no more than before but for what it now asks to write. *)
LEMMA PipeStays ==
  ASSUME PipeInv, NEW p \in Procs,
         \/ \E n \in Lengths : Pipe!Enter(p, n, "write") \/ Pipe!Enter(p, n, "read")
         \/ Pipe!Leave(p) \/ Pipe!Signal(p)
         \/ Pipe!WriteBlock(p) \/ Pipe!ReadBlock(p)
  PROVE  PipeInv'
<1>1. UNCHANGED <<size, buffer, read_pos, write_pos, written, consumed, last, stage>>
  BY DEF Pipe!Enter, Pipe!Leave, Pipe!Signal, Pipe!WriteBlock, Pipe!ReadBlock,
         Pipe!Block, Pipe!pipe, Pipe!history, Pipe!objVars, Pipe!Acquire,
         Pipe!Release
<1>2. Unused' /\ Newest' /\ Forward' /\ Whole'
  BY <1>1 DEF PipeInv, Unused, Newest, Forward, Whole, Bytes
<1>3. /\ pc \in [Procs -> Places] /\ todo \in [Procs -> Nat] /\ seen \in [Procs -> Nat]
      /\ asked \in 0 .. MaxWritten /\ ObjTypeOK /\ written \in Nat
  BY DEF PipeInv, PipeTypes
<1>4. ASSUME ObjTypeOK', pc' \in [Procs -> Places], todo' \in [Procs -> Nat],
             seen' \in [Procs -> Nat], asked' \in 0 .. MaxWritten
      PROVE  PipeTypes'
  BY <1>1, <1>4 DEF PipeInv, PipeTypes
<1>5. ASSUME PipeTypes',
             \A q \in Procs \ {p} : pc'[q] = pc[q] /\ todo'[q] = todo[q],
             pc'[p] \in {"write", "wsleep", "read", "rsleep"} => todo'[p] > 0,
             Promised(p)' - asked' <= Promised(p) - asked
      PROVE  PipeInv'
  <2>1. \A q \in Procs \ {p} : Promised(q)' = Promised(q)
    BY <1>5 DEF Promised
  <2>2. /\ Promised(p) \in Int /\ Promised(p)' \in Int
        /\ asked \in Int /\ asked' \in Int
    BY <1>5 DEF PipeInv, PipeTypes, Promised
  <2>3. written' + Promised(p)' - asked' <= written + Promised(p) - asked
    BY <1>1, <1>3, <1>5, <2>2
  <2>4. Within'
    BY <1>5, <2>1, <2>3, PromisesMove DEF PipeInv
  <2>5. Looping'
    BY <1>5 DEF PipeInv, Looping
  <2>6. QED
    BY <1>2, <1>5, <2>4, <2>5 DEF PipeInv
<1>6. ASSUME NEW n \in Lengths, NEW loop \in {"write", "read"},
             Pipe!Enter(p, n, loop)
      PROVE  PipeInv'
  <2> DEFINE to == IF n > 0 THEN loop ELSE "leave"
  <2>1. n \in Nat
    BY PipeBounds
  <2>2. /\ pc[p] = "idle" /\ pc' = [pc EXCEPT ![p] = to]
        /\ todo' = [todo EXCEPT ![p] = n] /\ seen' = seen
        /\ asked' = (IF loop = "write" THEN asked + n ELSE asked)
        /\ asked' <= MaxWritten /\ Acquire(p)
    BY <1>6 DEF Pipe!Enter, Pipe!Goto, Pipe!Acquire, Acquire
  <2>3. to \in Places
    BY DEF Places
  <2>4. ObjTypeOK'
    BY <1>3, <2>2, ObjTypes
  <2>5. asked' \in 0 .. MaxWritten
    BY <1>3, <2>1, <2>2, PipeBounds
  <2>6. /\ pc' \in [Procs -> Places] /\ todo' \in [Procs -> Nat]
        /\ pc'[p] = to /\ todo'[p] = n
        /\ \A q \in Procs \ {p} : pc'[q] = pc[q] /\ todo'[q] = todo[q]
    BY <1>3, <2>1, <2>2, <2>3
  <2>7. Promised(p) = 0 /\ Promised(p)' = IF loop = "write" THEN n ELSE 0
    <3>1. Promised(p) = 0
      BY <2>2 DEF Promised
    <3>2. n = 0 \/ n > 0
      BY <2>1
    <3>3. QED
      BY <3>1, <3>2, <1>6, <2>6 DEF Promised
  <2>8. Promised(p)' - asked' <= Promised(p) - asked
    BY <1>3, <2>1, <2>2, <2>7, PipeBounds
  <2>9. PipeTypes'
    BY <1>3, <1>4, <2>2, <2>4, <2>5, <2>6
  <2>10. pc'[p] \in {"write", "wsleep", "read", "rsleep"} => todo'[p] > 0
    BY <2>6
  <2>11. QED
    BY <1>5, <2>6, <2>8, <2>9, <2>10
<1>7. ASSUME NEW to \in {"idle", "leave", "wsleep", "rsleep"},
             pc' = [pc EXCEPT ![p] = to], ObjTypeOK', asked' = asked,
             to = "wsleep" => pc[p] = "write",
             to = "rsleep" => pc[p] = "read",
             todo' = todo \/ (to = "idle" /\ todo' = [todo EXCEPT ![p] = 0]),
             seen' = seen \/ seen' = [seen EXCEPT ![p] = 0]
      PROVE  PipeInv'
  <2>1. /\ pc' \in [Procs -> Places] /\ pc'[p] = to
        /\ todo' \in [Procs -> Nat] /\ seen' \in [Procs -> Nat]
        /\ \A q \in Procs \ {p} : pc'[q] = pc[q] /\ todo'[q] = todo[q]
    BY <1>3, <1>7 DEF Places
  <2>2. Promised(p) \in Nat /\ (Promised(p)' = 0 \/ Promised(p)' = Promised(p))
    BY <1>3, <1>7, <2>1 DEF Promised
  <2>3. Promised(p)' - asked' <= Promised(p) - asked
    BY <1>3, <1>7, <2>2, PipeBounds
  <2>4. PipeTypes'
    BY <1>3, <1>4, <1>7, <2>1
  <2>5. pc'[p] \in {"write", "wsleep", "read", "rsleep"} => todo'[p] > 0
    BY <1>7, <2>1 DEF PipeInv, Looping
  <2>6. QED
    BY <1>5, <2>1, <2>3, <2>4, <2>5
<1>8. CASE Pipe!Leave(p)
  <2>1. Release(p)
    BY <1>8 DEF Pipe!Leave, Pipe!Release, Release
  <2>2. ObjTypeOK'
    BY <1>3, <2>1, ObjTypes
  <2>3. /\ pc' = [pc EXCEPT ![p] = "idle"] /\ todo' = [todo EXCEPT ![p] = 0]
        /\ asked' = asked /\ seen' = seen
    BY <1>8 DEF Pipe!Leave, Pipe!Goto, Pipe!history
  <2>4. QED
    BY <1>7, <2>2, <2>3
<1>9. CASE Pipe!Signal(p) \/ Pipe!WriteBlock(p) \/ Pipe!ReadBlock(p)
  <2>1. UNCHANGED objVars
    BY <1>9 DEF Pipe!Signal, Pipe!WriteBlock, Pipe!ReadBlock, Pipe!Block,
                Pipe!objVars, objVars
  <2>2. ObjTypeOK'
    BY <1>3, <2>1, ObjTypes
  <2>3. /\ asked' = asked /\ todo' = todo
        /\ seen' = seen \/ seen' = [seen EXCEPT ![p] = 0]
    BY <1>9 DEF Pipe!Signal, Pipe!WriteBlock, Pipe!ReadBlock, Pipe!Block,
                Pipe!history
  <2>4. PICK to \in {"leave", "wsleep", "rsleep"} :
          /\ pc' = [pc EXCEPT ![p] = to]
          /\ to = "wsleep" => pc[p] = "write"
          /\ to = "rsleep" => pc[p] = "read"
    BY <1>9 DEF Pipe!Signal, Pipe!WriteBlock, Pipe!ReadBlock, Pipe!Block, Pipe!Goto
  <2>5. QED
    BY <1>7, <2>2, <2>3, <2>4
<1>10. QED
  BY <1>6, <1>8, <1>9

(* The others are woken.                                                   *)
LEMMA PipeRouses ==
  ASSUME PipeInv, NEW p \in Procs, Pipe!WriteWake(p) \/ Pipe!ReadWake(p)
  PROVE  PipeInv'
<1>1. PICK from \in {"wrote", "got"}, loop \in {"write", "read"},
           sleep \in {"wsleep", "rsleep"} :
        /\ from = "wrote" <=> loop = "write"
        /\ pc[p] = from
        /\ pc' = [q \in Procs |->
                    IF q = p THEN IF todo[p] > 0 THEN loop ELSE "leave"
                    ELSE IF pc[q] = sleep /\ seen[q] > 0
                         THEN IF sleep = "wsleep" THEN "write" ELSE "read"
                    ELSE pc[q]]
        /\ UNCHANGED <<objVars, size, buffer, read_pos, write_pos, asked, written,
                       consumed, last, todo, seen>>
  BY DEF Pipe!WriteWake, Pipe!ReadWake, Pipe!Rouse, Pipe!objVars, objVars, Pipe!pipe,
         Pipe!history
<1>2. /\ pc \in [Procs -> Places] /\ todo \in [Procs -> Nat] /\ ObjTypeOK
  BY DEF PipeInv, PipeTypes
<1>3. pc' \in [Procs -> Places]
  BY <1>1, <1>2 DEF Places
<1>4. ObjTypeOK'
  BY <1>1, <1>2, ObjTypes
<1>5. PipeTypes'
  BY <1>1, <1>3, <1>4 DEF PipeInv, PipeTypes
<1>6. \A q \in Procs : Promised(q)' = Promised(q)
  <2>1. \A q \in Procs \ {p} :
          pc'[q] \in {"write", "wrote", "wsleep"} <=> pc[q] \in {"write", "wrote", "wsleep"}
    BY <1>1
  <2>2. \A q \in Procs \ {p} : Promised(q)' = Promised(q)
    BY <1>1, <2>1 DEF Promised
  <2>3. Promised(p)' = Promised(p)
    <3>1. todo[p] \in Nat /\ pc'[p] = IF todo[p] > 0 THEN loop ELSE "leave"
      BY <1>1, <1>2
    <3>2. todo[p] = 0 \/ todo[p] > 0
      BY <3>1
    <3>3. QED
      BY <1>1, <3>1, <3>2 DEF Promised
  <2>4. QED
    BY <2>2, <2>3
<1>7. Within'
  <2>1. [q \in Procs |-> Promised(q)]' = [q \in Procs |-> Promised(q)]
    BY <1>6
  <2>2. QED
    BY <1>1, <2>1 DEF PipeInv, Within
<1>8. stage' = stage
  BY <1>1 DEF objVars
<1>9. Unused' /\ Newest' /\ Forward' /\ Whole'
  BY <1>1, <1>8 DEF PipeInv, Unused, Newest, Forward, Whole, Bytes
<1>10. Looping'
  <2>1. \A q \in Procs \ {p} :
          pc'[q] \in {"write", "wsleep", "read", "rsleep"} =>
            pc[q] \in {"write", "wsleep", "read", "rsleep"}
    BY <1>1
  <2>2. pc'[p] \in {"write", "wsleep", "read", "rsleep"} => todo[p] > 0
    BY <1>1
  <2>3. QED
    BY <1>1, <2>1, <2>2 DEF PipeInv, Looping
<1>11. QED
  BY <1>5, <1>7, <1>9, <1>10 DEF PipeInv

(* A round of the loop of write_pipe.                                       *)
LEMMA PipeWrites ==
  ASSUME PipeInv, NEW p \in Procs, Pipe!WriteChunk(p)
  PROVE  PipeInv'
<1> DEFINE n == IF todo[p] < size - Bytes THEN todo[p] ELSE size - Bytes
<1>1. /\ Bytes \in Nat /\ size \in Nat
      /\ size > 0 => Bytes < size
      /\ size = 0 => Bytes = 0
  BY BytesInRing DEF PipeInv, PipeTypes
<1>2. /\ pc[p] = "write" /\ pc' = [pc EXCEPT ![p] = "wrote"]
      /\ size - Bytes > 0
      /\ buffer' = Pipe!Filled(n)
      /\ write_pos' = Along(write_pos, n, size)
      /\ written' = written + n
      /\ todo' = [todo EXCEPT ![p] = @ - n]
      /\ UNCHANGED <<stage, size, read_pos, asked, consumed, last, seen>>
      /\ UNCHANGED objVars
  <2>1. Pipe!FreeSpace = size - Bytes
    BY BytesInRing DEF PipeInv
  <2>2. Pipe!Smaller(todo[p], Pipe!FreeSpace) = n
    BY <2>1 DEF Pipe!Smaller
  <2>3. QED
    BY <2>1, <2>2 DEF Pipe!WriteChunk, Pipe!Goto, Pipe!Move, Along, Pipe!objVars,
                      objVars
<1>3. /\ pc \in [Procs -> Places] /\ todo \in [Procs -> Nat] /\ ObjTypeOK
      /\ asked \in 0 .. MaxWritten /\ written \in Nat /\ last \in Nat
      /\ consumed \in Nat
      /\ buffer \in [0 .. size - 1 -> 0 .. MaxWritten] /\ seen \in [Procs -> Nat]
      /\ read_pos \in Nat /\ write_pos \in Nat /\ MaxWritten \in Nat
      /\ todo[p] \in Nat
  BY PipeBounds DEF PipeInv, PipeTypes
<1>4. /\ n \in Nat /\ n > 0 /\ n <= todo[p] /\ n <= size - Bytes /\ size > 0
      /\ Bytes < size
  <2>1. todo[p] > 0
    BY <1>2 DEF PipeInv, Looping
  <2>2. QED
    BY <1>1, <1>2, <1>3, <2>1
<1>5. read_pos < size /\ write_pos < size
  BY <1>4 DEF PipeInv, PipeTypes
<1>6. written + n <= asked
  <2>1. written + Promised(p) <= asked
    BY WrittenWithin DEF PipeInv
  <2>2. Promised(p) = todo[p]
    BY <1>2 DEF Promised
  <2>3. QED
    BY <1>3, <1>4, <2>1, <2>2
<1> HIDE DEF n
<1>7. /\ write_pos' \in Nat /\ write_pos' < size
      /\ Bytes' = IF Bytes + n = size THEN 0 ELSE Bytes + n
  <2>1. Bytes = Used(read_pos, write_pos, size)
    BY DEF Bytes
  <2>2. Bytes' = Used(read_pos, Along(write_pos, n, size), size)
    BY <1>2 DEF Bytes
  <2>3. /\ Along(write_pos, n, size) \in Nat /\ Along(write_pos, n, size) < size
        /\ Used(read_pos, Along(write_pos, n, size), size) =
             IF Bytes + n = size THEN 0 ELSE Bytes + n
    <3>1. n <= size - Used(read_pos, write_pos, size)
      BY <1>4, <2>1
    <3>2. /\ size \in Nat /\ read_pos \in Nat /\ write_pos \in Nat /\ n \in Nat
          /\ read_pos < size /\ write_pos < size /\ n > 0
      BY <1>1, <1>3, <1>4, <1>5
    <3>3. QED
      BY ONLY <2>1, <3>1, <3>2, RingWrites
  <2>4. QED
    BY <1>2, <2>2, <2>3
<1>8. buffer' \in [0 .. size - 1 -> 0 .. MaxWritten]
  <2>1. \A s \in 0 .. size - 1 :
          /\ s >= write_pos /\ s < write_pos + n =>
               written + 1 + (s - write_pos) \in 0 .. MaxWritten
          /\ s < write_pos /\ s + size < write_pos + n =>
               written + 1 + (s + size - write_pos) \in 0 .. MaxWritten
    BY <1>1, <1>3, <1>4, <1>5, <1>6
  <2>2. \A s \in 0 .. size - 1 : buffer[s] \in 0 .. MaxWritten
    BY <1>3
  <2>3. \A s \in 0 .. size - 1 : s \in Int
    OBVIOUS
  <2>4. \A s \in 0 .. size - 1 :
          s >= write_pos /\ ~ (s < write_pos + n) => ~ (s + size < write_pos + n)
    BY <1>1, <1>3, <1>4
  <2>5. ASSUME NEW s \in 0 .. size - 1
        PROVE  (IF s >= write_pos /\ s < write_pos + n
                THEN written + 1 + (s - write_pos)
                ELSE IF s + size < write_pos + n
                     THEN written + 1 + (s + size - write_pos)
                     ELSE buffer[s]) \in 0 .. MaxWritten
    <3>1. s \in Int /\ (s >= write_pos \/ s < write_pos)
      BY <1>3
    <3>2. QED
      BY <2>1, <2>2, <2>4, <3>1
  <2>6. QED
    BY <1>2, <2>5 DEF Pipe!Filled, Pipe!Slots
<1>9. /\ pc' \in [Procs -> Places] /\ todo' \in [Procs -> Nat]
      /\ pc'[p] = "wrote" /\ todo'[p] = todo[p] - n
      /\ \A q \in Procs \ {p} : pc'[q] = pc[q] /\ todo'[q] = todo[q]
  <2>1. todo[p] - n \in Nat /\ "wrote" \in Places
    BY <1>3, <1>4 DEF Places
  <2>2. QED
    BY <1>2, <1>3, <2>1
<1>10. PipeTypes'
  <2>1. ObjTypeOK'
    BY <1>2, <1>3, ObjTypes
  <2>2. written' \in Nat /\ write_pos' < size' /\ read_pos' < size' /\ size' # 0
    BY <1>2, <1>3, <1>4, <1>5, <1>7
  <2>3. /\ size' \in Nat /\ read_pos' \in Nat /\ write_pos' \in Nat
        /\ buffer' \in [0 .. size' - 1 -> 0 .. MaxWritten]
    BY <1>1, <1>2, <1>3, <1>7, <1>8
  <2>4. /\ seen' \in [Procs -> Nat] /\ asked' \in 0 .. MaxWritten
        /\ consumed' \in Nat /\ last' \in Nat
    BY <1>2, <1>3
  <2>5. QED
    BY <1>9, <2>1, <2>2, <2>3, <2>4, Zenon DEF PipeTypes
<1>11. Within'
  <2>1. \A q \in Procs \ {p} : Promised(q)' = Promised(q)
    BY <1>9 DEF Promised
  <2>2. Promised(p) = todo[p] /\ Promised(p)' = todo[p] - n
    BY <1>2, <1>9 DEF Promised
  <2>3. written' + Promised(p)' - asked' <= written + Promised(p) - asked
    BY <1>2, <1>3, <1>4, <2>2
  <2>4. QED
    BY <1>10, <2>1, <2>3, PromisesMove DEF PipeInv
<1>12. Unused'
  BY <1>2, <1>4 DEF PipeInv, Unused
<1>13. Newest'
  <2> SUFFICES ASSUME NEW k \in 0 .. Bytes' - 1
      PROVE buffer'[Along(read_pos, k, size)] = written' - Bytes' + 1 + k
    BY <1>2 DEF Newest
  <2>1. /\ k \in Nat /\ Bytes' = Bytes + n /\ Bytes + n < size /\ k < Bytes + n
    BY <1>1, <1>4, <1>7
  <2> DEFINE x == Along(read_pos, k, size)
  <2>2. Bytes = Used(read_pos, write_pos, size)
    BY DEF Bytes
  <2>3. /\ x \in 0 .. size - 1
        /\ k < Bytes => ~ (x >= write_pos /\ x < write_pos + n)
                        /\ ~ (x + size < write_pos + n)
        /\ k >= Bytes =>
             \/ x >= write_pos /\ x < write_pos + n /\ x - write_pos = k - Bytes
             \/ /\ x < write_pos /\ x + size < write_pos + n
                /\ x + size - write_pos = k - Bytes
    <3>1. Used(read_pos, write_pos, size) + n < size
      BY <2>1, <2>2
    <3>2. k < Used(read_pos, write_pos, size) + n
      BY <2>1, <2>2
    <3>3. /\ size \in Nat /\ read_pos \in Nat /\ write_pos \in Nat /\ n \in Nat
          /\ read_pos < size /\ write_pos < size /\ n > 0
      BY <1>1, <1>3, <1>4, <1>5
    <3>4. k \in Nat
      BY <2>1
    <3>5. QED
      BY ONLY <2>2, <3>1, <3>2, <3>3, <3>4, RingSlots
  <2> HIDE DEF x
  <2>4. buffer'[x] = IF x >= write_pos /\ x < write_pos + n
                     THEN written + 1 + (x - write_pos)
                     ELSE IF x + size < write_pos + n
                          THEN written + 1 + (x + size - write_pos)
                          ELSE buffer[x]
    BY <1>2, <2>3 DEF Pipe!Filled, Pipe!Slots
  <2>5. CASE k < Bytes
    <3>1. buffer'[x] = buffer[x]
      BY <2>3, <2>4, <2>5
    <3>2. k \in 0 .. Bytes - 1
      BY <1>1, <2>1, <2>5
    <3>3. buffer[x] = written - Bytes + 1 + k
      BY <3>2 DEF PipeInv, Newest, x
    <3>4. QED
      BY <1>1, <1>2, <1>3, <1>4, <2>1, <3>1, <3>3 DEF x
  <2>6. CASE k >= Bytes
    <3>1. x \in Int
      BY <2>3
    <3>2. buffer'[x] = written + 1 + (k - Bytes)
      BY <1>3, <2>3, <2>4, <2>6, <3>1
    <3>3. QED
      BY <1>1, <1>2, <1>3, <1>4, <2>1, <3>2 DEF x
  <2>7. QED
    BY <1>1, <2>1, <2>5, <2>6
<1>14. Forward'
  <2>1. last <= written - Bytes
    BY DEF PipeInv, Forward
  <2>2. QED
    BY <1>1, <1>2, <1>3, <1>4, <1>7, <2>1 DEF Forward
<1>15. Whole'
  <2>1. PICK k \in Int : written - consumed - Bytes = k * size
    BY DEF PipeInv, Whole
  <2>2. written' - consumed' - Bytes' =
          written - consumed - Bytes + (IF Bytes + n = size THEN size ELSE 0)
    BY <1>1, <1>2, <1>3, <1>4, <1>7
  <2>3. (k + 1) * size = k * size + size
    BY <1>1, <2>1
  <2>4. \E j \in Int : written' - consumed' - Bytes' = j * size
    <3>1. CASE Bytes + n = size
      <4>1. written' - consumed' - Bytes' = (k + 1) * size
        BY <2>1, <2>2, <2>3, <3>1
      <4>2. QED
        BY <4>1
    <3>2. CASE Bytes + n # size
      <4>1. k * size \in Int
        BY <1>1
      <4>2. written' - consumed' - Bytes' = k * size
        BY <2>1, <2>2, <3>2, <4>1
      <4>3. QED
        BY <4>2
    <3>3. QED
      BY <3>1, <3>2
  <2>5. QED
    BY <1>2, <2>4 DEF Whole
<1>16. Looping'
  BY <1>9 DEF PipeInv, Looping
<1>17. QED
  BY <1>10, <1>11, <1>12, <1>13, <1>14, <1>15, <1>16 DEF PipeInv

(* What a round of the loop of read_pipe finds: n bytes, of which the first  *)
(* is the oldest in the buffer.                                            *)
LEMMA PipeFinds ==
  ASSUME PipeInv, NEW p \in Procs, Pipe!ReadChunk(p)
  PROVE  \E n \in Nat :
           /\ n > 0 /\ n <= todo[p] /\ n <= Bytes /\ Bytes < size
           /\ pc' = [pc EXCEPT ![p] = "got"] /\ pc[p] = "read"
           /\ last' = buffer[Along(read_pos, n - 1, size)]
           /\ read_pos' = Along(read_pos, n, size)
           /\ consumed' = consumed + n
           /\ todo' = [todo EXCEPT ![p] = @ - n]
           /\ UNCHANGED <<stage, size, buffer, write_pos, asked, written, seen>>
           /\ UNCHANGED objVars
<1> DEFINE n == Pipe!Smaller(todo[p], Bytes)
<1>1. /\ Bytes \in Nat /\ size \in Nat /\ todo[p] \in Nat
      /\ size > 0 => Bytes < size
      /\ size = 0 => Bytes = 0
      /\ Pipe!Available = Bytes
  BY BytesInRing DEF PipeInv, PipeTypes
<1>2. Bytes > 0 /\ Bytes < size /\ todo[p] > 0
  BY <1>1 DEF Pipe!ReadChunk, Pipe!Goto, PipeInv, Looping
<1>3. n \in Nat /\ n > 0 /\ n <= todo[p] /\ n <= Bytes
  BY <1>1, <1>2 DEF Pipe!Smaller
<1>4. QED
  BY <1>1, <1>2, <1>3 DEF Pipe!ReadChunk, Pipe!Goto, Pipe!Move, Along, Pipe!objVars,
                          objVars

(* A round of the loop of read_pipe.  What it reads last is newer than what   *)
(* was read before, and older than what is left.                            *)
LEMMA PipeReads ==
  ASSUME PipeInv, NEW p \in Procs, Pipe!ReadChunk(p)
  PROVE  PipeInv' /\ buffer[read_pos] > last /\ last' > last
<1>1. PICK n \in Nat :
        /\ n > 0 /\ n <= todo[p] /\ n <= Bytes /\ Bytes < size
        /\ pc' = [pc EXCEPT ![p] = "got"] /\ pc[p] = "read"
        /\ last' = buffer[Along(read_pos, n - 1, size)]
        /\ read_pos' = Along(read_pos, n, size)
        /\ consumed' = consumed + n
        /\ todo' = [todo EXCEPT ![p] = @ - n]
        /\ UNCHANGED <<stage, size, buffer, write_pos, asked, written, seen>>
        /\ UNCHANGED objVars
  BY PipeFinds
<1>2. /\ pc \in [Procs -> Places] /\ todo \in [Procs -> Nat] /\ ObjTypeOK
      /\ asked \in 0 .. MaxWritten /\ written \in Nat /\ last \in Nat
      /\ consumed \in Nat
      /\ buffer \in [0 .. size - 1 -> 0 .. MaxWritten] /\ seen \in [Procs -> Nat]
      /\ read_pos \in Nat /\ write_pos \in Nat /\ size \in Nat
      /\ todo[p] \in Nat /\ Bytes \in Nat
  BY BytesInRing DEF PipeInv, PipeTypes
<1>3. size > 0 /\ read_pos < size /\ write_pos < size
  BY <1>1, <1>2 DEF PipeInv, PipeTypes
<1>4. /\ read_pos' \in Nat /\ read_pos' < size
      /\ Bytes' = Bytes - n
      /\ \A k \in Nat : k < Bytes - n =>
           Along(read_pos', k, size) = Along(read_pos, n + k, size)
  <2>1. Bytes = Used(read_pos, write_pos, size)
    BY DEF Bytes
  <2>2. Bytes' = Used(Along(read_pos, n, size), write_pos, size)
    BY <1>1 DEF Bytes
  <2>3. /\ Along(read_pos, n, size) \in Nat /\ Along(read_pos, n, size) < size
        /\ Used(Along(read_pos, n, size), write_pos, size) = Bytes - n
        /\ \A k \in Nat : k < Bytes - n =>
             Along(Along(read_pos, n, size), k, size) = Along(read_pos, n + k, size)
    <3>1. n <= Used(read_pos, write_pos, size)
      BY <1>1, <2>1
    <3>2. n > 0
      BY <1>1
    <3>3. /\ size \in Nat /\ read_pos \in Nat /\ write_pos \in Nat /\ n \in Nat
          /\ read_pos < size /\ write_pos < size
      BY <1>2, <1>3
    <3>4. QED
      BY ONLY <2>1, <3>1, <3>2, <3>3, RingReads
  <2>4. QED
    BY <1>1, <2>2, <2>3
<1>5. last' = written - Bytes + n
  <2>1. n - 1 \in 0 .. Bytes - 1
    BY <1>1, <1>2
  <2>2. buffer[Along(read_pos, n - 1, size)] = written - Bytes + 1 + (n - 1)
    BY <2>1 DEF PipeInv, Newest
  <2>3. QED
    BY <1>1, <1>2, <2>2
<1>6. last <= written - Bytes
  BY DEF PipeInv, Forward
<1>7. buffer[read_pos] > last /\ last' > last
  <2>1. 0 \in 0 .. Bytes - 1
    BY <1>1, <1>2
  <2>2. buffer[Along(read_pos, 0, size)] = written - Bytes + 1 + 0
    BY <2>1 DEF PipeInv, Newest
  <2>3. Along(read_pos, 0, size) = read_pos
    BY <1>2, <1>3 DEF Along
  <2>4. buffer[read_pos] = written - Bytes + 1
    BY <1>2, <2>2, <2>3
  <2>5. QED
    BY <1>1, <1>2, <1>5, <1>6, <2>4
<1>8. /\ pc' \in [Procs -> Places] /\ todo' \in [Procs -> Nat]
      /\ pc'[p] = "got"
      /\ \A q \in Procs \ {p} : pc'[q] = pc[q] /\ todo'[q] = todo[q]
  <2>1. todo[p] - n \in Nat /\ "got" \in Places
    BY <1>1, <1>2 DEF Places
  <2>2. QED
    BY <1>1, <1>2, <2>1
<1>9. PipeTypes'
  <2>1. ObjTypeOK'
    BY <1>1, <1>2, ObjTypes
  <2>2. /\ last' \in Nat /\ consumed' \in Nat /\ written' \in Nat
        /\ write_pos' < size' /\ read_pos' < size' /\ size' # 0
    BY <1>1, <1>2, <1>3, <1>4, <1>5, <1>6
  <2>3. /\ size' \in Nat /\ read_pos' \in Nat /\ write_pos' \in Nat
        /\ buffer' \in [0 .. size' - 1 -> 0 .. MaxWritten]
    BY <1>1, <1>2, <1>4
  <2>4. seen' \in [Procs -> Nat] /\ asked' \in 0 .. MaxWritten
    BY <1>1, <1>2
  <2>5. QED
    BY <1>8, <2>1, <2>2, <2>3, <2>4, Zenon DEF PipeTypes
<1>10. Within'
  <2>1. \A q \in Procs \ {p} : Promised(q)' = Promised(q)
    BY <1>8 DEF Promised
  <2>2. Promised(p) = 0 /\ Promised(p)' = 0
    BY <1>1, <1>8 DEF Promised
  <2>3. written' + Promised(p)' - asked' <= written + Promised(p) - asked
    BY <1>1, <1>2, <2>2
  <2>4. QED
    BY <1>9, <2>1, <2>3, PromisesMove DEF PipeInv
<1>11. Unused'
  BY <1>1, <1>3 DEF PipeInv, Unused
<1>12. Newest'
  <2> SUFFICES ASSUME NEW k \in 0 .. Bytes' - 1
      PROVE buffer[Along(read_pos', k, size)] = written - Bytes' + 1 + k
    BY <1>1 DEF Newest
  <2>1. k \in Nat /\ k < Bytes - n /\ n + k \in 0 .. Bytes - 1
    BY <1>1, <1>2, <1>4
  <2>2. buffer[Along(read_pos, n + k, size)] = written - Bytes + 1 + (n + k)
    BY <2>1 DEF PipeInv, Newest
  <2>3. Along(read_pos', k, size) = Along(read_pos, n + k, size)
    BY <1>4, <2>1
  <2>4. QED
    BY <1>2, <1>4, <2>1, <2>2, <2>3
<1>13. Forward'
  BY <1>1, <1>2, <1>4, <1>5 DEF Forward
<1>14. Whole'
  <2>1. PICK k \in Int : written - consumed - Bytes = k * size
    BY DEF PipeInv, Whole
  <2>2. written' - consumed' - Bytes' = written - consumed - Bytes
    BY <1>1, <1>2, <1>4
  <2>3. written' - consumed' - Bytes' = k * size'
    BY <1>1, <2>1, <2>2
  <2>4. QED
    BY <2>3 DEF Whole
<1>15. Looping'
  BY <1>8 DEF PipeInv, Looping
<1>16. QED
  BY <1>7, <1>9, <1>10, <1>11, <1>12, <1>13, <1>14, <1>15 DEF PipeInv

LEMMA PipeCreated == PipeInv /\ Pipe!Create => PipeInv'
<1> SUFFICES ASSUME PipeInv, Pipe!Create PROVE PipeInv'
  OBVIOUS
<1>1. /\ stage = "new" /\ stage' = "mapped" /\ size' \in Nat
      /\ buffer' = [s \in 0 .. size' - 1 |-> 0]
      /\ UNCHANGED <<read_pos, write_pos, asked, written, consumed, last, pc, todo,
                     seen>>
  BY PipeBounds DEF Pipe!Create, Pipe!Install, Pipe!history
<1>2. /\ read_pos = 0 /\ write_pos = 0 /\ written = 0 /\ consumed = 0 /\ last = 0
      /\ size = 0
  BY <1>1 DEF PipeInv, Unused, PipeTypes
<1>3. ObjTypeOK'
  BY DEF PipeInv, PipeTypes, ObjTypeOK, Pipe!Create, Pipe!Install
<1>4. buffer' \in [0 .. size' - 1 -> 0 .. MaxWritten]
  <2>1. 0 \in 0 .. MaxWritten
    BY PipeBounds
  <2>2. QED
    BY <1>1, <2>1
<1>5. /\ pc \in [Procs -> Places] /\ todo \in [Procs -> Nat] /\ seen \in [Procs -> Nat]
      /\ asked \in 0 .. MaxWritten
  BY DEF PipeInv, PipeTypes
<1>6. PipeTypes'
  BY <1>1, <1>2, <1>3, <1>4, <1>5 DEF PipeTypes
<1>7. Within' /\ Looping'
  <2>1. [q \in Procs |-> Promised(q)]' = [q \in Procs |-> Promised(q)]
    BY <1>1 DEF Promised
  <2>2. QED
    BY <1>1, <2>1 DEF PipeInv, Within, Looping
<1>8. Bytes' = 0
  BY <1>1, <1>2 DEF Bytes, Used
<1>9. Unused' /\ Newest' /\ Forward'
  BY <1>1, <1>2, <1>8 DEF Unused, Newest, Forward
<1>10. Whole'
  <2>1. 0 * size' = 0
    <3>1. \A n \in Nat : 0 * n = 0
      OBVIOUS
    <3>2. size' \in Nat
      BY <1>1
    <3>3. QED
      BY ONLY <3>1, <3>2
  <2>2. written' - consumed' - Bytes' = 0
    BY <1>1, <1>2, <1>8
  <2>3. QED
    BY <2>1, <2>2 DEF Whole
<1>11. QED
  BY <1>6, <1>7, <1>9, <1>10 DEF PipeInv

LEMMA PipeClosed ==
  PipeInv /\ (Pipe!ClosePipe \/ UNCHANGED Pipe!vars) => PipeInv'
<1> SUFFICES ASSUME PipeInv, Pipe!ClosePipe \/ UNCHANGED Pipe!vars PROVE PipeInv'
  OBVIOUS
<1>1. /\ stage' = "new" => stage = "new"
      /\ UNCHANGED <<size, buffer, read_pos, write_pos, asked, written, consumed,
                     last, pc, todo, seen>>
  BY DEF Pipe!ClosePipe, Pipe!Close, Pipe!CloseDrop, Pipe!CloseLast, Pipe!vars,
         Pipe!objVars, Pipe!pipe, Pipe!history
<1>2. ObjTypeOK'
  BY PipeBounds DEF PipeInv, PipeTypes, ObjTypeOK, Pipe!ClosePipe, Pipe!Close,
       Pipe!CloseDrop, Pipe!CloseLast, Pipe!vars, Pipe!objVars
<1>3. PipeTypes'
  BY <1>1, <1>2 DEF PipeInv, PipeTypes
<1>4. Within' /\ Looping'
  <2>1. [q \in Procs |-> Promised(q)]' = [q \in Procs |-> Promised(q)]
    BY <1>1 DEF Promised
  <2>2. QED
    BY <1>1, <2>1 DEF PipeInv, Within, Looping
<1>5. Unused' /\ Newest' /\ Forward' /\ Whole'
  BY <1>1 DEF PipeInv, Unused, Newest, Forward, Whole, Bytes
<1>6. QED
  BY <1>3, <1>4, <1>5 DEF PipeInv

LEMMA PipeInvNext == PipeInv /\ [Pipe!Next]_(Pipe!vars) => PipeInv'
<1> SUFFICES ASSUME PipeInv, [Pipe!Next]_(Pipe!vars) PROVE PipeInv'
  OBVIOUS
<1>1. ASSUME NEW p \in Procs, Pipe!Advance(p) PROVE PipeInv'
  BY <1>1, PipeStays, PipeRouses, PipeWrites, PipeReads DEF Pipe!Advance
<1>2. ASSUME NEW p \in Procs,
             \/ Pipe!Signal(p)
             \/ \E n \in Lengths : Pipe!Enter(p, n, "write") \/ Pipe!Enter(p, n, "read")
      PROVE  PipeInv'
  BY <1>2, PipeStays
<1>3. ASSUME NEW p \in Procs, Pipe!Refuse(p) PROVE PipeInv'
  BY <1>3, PipeClosed DEF Pipe!Refuse
<1>4. QED
  BY <1>1, <1>2, <1>3, PipeCreated, PipeClosed DEF Pipe!Next

-----------------------------------------------------------------------------
(* The object, created as the one or as the other.                          *)

TypedInv ==
  /\ type \in {"sem", "pipe"}
  /\ type = "sem" => SemInv
  /\ type = "pipe" => PipeInv

LEMMA TypedInvInit == TypedInit => TypedInv
BY SemInvInit, PipeInvInit DEF TypedInit, TypedInv, Init

LEMMA TypedInvNext == TypedInv /\ [TypedNext]_typedVars => TypedInv'
<1> SUFFICES ASSUME TypedInv, [TypedNext]_typedVars PROVE TypedInv'
  OBVIOUS
<1>1. type' = type
  BY DEF TypedNext, typedVars
<1>2. CASE type = "sem"
  <2>1. [Next]_vars
    BY <1>2 DEF TypedNext, typedVars
  <2>2. QED
    BY <1>1, <1>2, <2>1, SemInvNext DEF TypedInv
<1>3. CASE type = "pipe"
  <2>1. [Pipe!Next]_(Pipe!vars)
    BY <1>3 DEF TypedNext, typedVars, vars, onlyPipe, Pipe!vars, objVars,
                Pipe!objVars, Pipe!pipe, Pipe!history
  <2>2. QED
    BY <1>1, <1>3, <2>1, PipeInvNext DEF TypedInv
<1>4. QED
  BY <1>2, <1>3 DEF TypedInv

LEMMA PipeInvContents ==
  PipeInv => Pipe!TypeOK /\ Pipe!HoldsNewest /\ Pipe!LossIsWholeBuffers
<1> SUFFICES ASSUME PipeInv
             PROVE  Pipe!TypeOK /\ Pipe!HoldsNewest /\ Pipe!LossIsWholeBuffers
  OBVIOUS
<1>1. /\ Pipe!Available = Bytes /\ Bytes \in Nat
      /\ written \in Nat /\ last \in Nat /\ asked \in 0 .. MaxWritten
      /\ written <= asked /\ last <= written - Bytes /\ MaxWritten \in Nat
      /\ consumed \in Nat /\ size \in Nat
  BY BytesInRing, WrittenWithin, PipeBounds DEF PipeInv, PipeTypes, Forward
<1>2. Pipe!TypeOK
  <2>1. Pipe!ObjTypeOK
    BY DEF PipeInv, PipeTypes, ObjTypeOK, Pipe!ObjTypeOK
  <2>2. written \in 0 .. asked /\ last \in 0 .. MaxWritten
    BY <1>1
  <2>3. \A pos \in {read_pos, write_pos} : pos \in Nat /\ (pos < size \/ pos = 0)
    BY DEF PipeInv, PipeTypes
  <2>4. QED
    BY <2>1, <2>2, <2>3 DEF PipeInv, PipeTypes, Places, Pipe!TypeOK, Pipe!Slots
<1>3. Pipe!HoldsNewest
  BY <1>1 DEF PipeInv, Newest, Pipe!HoldsNewest, Pipe!Move, Along
<1>4. Pipe!LossIsWholeBuffers
  <2>1. PICK k \in Int : written - consumed - Bytes = k * size
    BY DEF PipeInv, Whole
  <2> DEFINE gap == written - consumed - Bytes
  <2>2. gap \in Int /\ gap = k * size
    BY <1>1, <2>1
  <2> HIDE DEF gap
  <2>3. size > 0 => gap % size = 0
    BY <1>1, <2>2
  <2>4. QED
    BY <1>1, <2>3 DEF Pipe!LossIsWholeBuffers, gap
<1>5. QED
  BY <1>2, <1>3, <1>4

(* The units of a semaphore are accounted for, whoever waits, fails or is     *)
(* interrupted in soiav_ipc_sem_op: the value stays in its range, and with     *)
(* what threads hold it adds up to the initial one.                          *)
THEOREM SemaphoreAccounts == TypedSpec => []SemAccounts
<1>1. TypedInv => SemAccounts
  BY HeldSum DEF TypedInv, SemInv, SemAccounts
<1>2. QED
  BY TypedInvInit, TypedInvNext, <1>1, PTL DEF TypedSpec

(* A pipe holds the newest part of the stream in order, and loses bytes only   *)
(* by the bufferful, for any size of the buffer and any chunks of              *)
(* soiav_ipc_write_pipe and soiav_ipc_read_pipe.                             *)
THEOREM PipeStaysInOrder == TypedSpec => []PipeContents
<1>1. TypedInv => PipeContents
  BY PipeInvContents DEF TypedInv, PipeContents
<1>2. QED
  BY TypedInvInit, TypedInvNext, <1>1, PTL DEF TypedSpec

(* Readers in soiav_ipc_read_pipe together get no byte twice and none after a  *)
(* later one.                                                              *)
THEOREM PipeDelivers == TypedSpec => DeliveredForward
<1>1. TypedInv /\ [TypedNext]_typedVars =>
        [\A p \in Procs :
           type = "pipe" /\ Pipe!ReadChunk(p) => buffer[read_pos] > last /\ last' > last
        ]_typedVars
  BY PipeReads DEF TypedInv
<1>2. QED
  BY TypedInvInit, TypedInvNext, <1>1, PTL DEF TypedSpec, DeliveredForward
=============================================================================
