----------------------------- MODULE KernelProofs -----------------------------
(***************************************************************************)
(* Theorems about the parts of the kernel that MCKernel puts side by side, for   *)
(* any constants that fit their assumptions.  A part that does not move is left  *)
(* as it is, so that each step of KernelSpec is a step of the part or none.     *)
(***************************************************************************)
EXTENDS MCKernel, FiniteSetTheorems, SequenceTheorems, TLAPS

-----------------------------------------------------------------------------
(* The sound driver.  The inductive invariant of SoundPlayback says beside what   *)
(* the card is given that a player which has stored only some of the fields holds  *)
(* the lock, and that the sound a player is to hand over is nobody else's and not  *)
(* on the card yet.                                                        *)
SoundTypes ==
  /\ Sound!TypeOK
  /\ player \in [Players -> {"request_irq", "list", "gone", "test", "idle", "lock",
                              "buffer", "len", "pos", "kfree"}]
  /\ sounds \in Seq([len : Int, system : BOOLEAN])
  /\ dma \in [sound : 0 .. Len(sounds), from : Nat, to : Nat]

Portion ==
  IF dma.sound = 0 THEN dma.from = 0 /\ dma.to = 0
  ELSE /\ samples # 0
       /\ dma.from < dma.to /\ dma.to <= sounds[dma.sound].len
       /\ dma.to - dma.from = Sound!Least(BUFFER_SIZE, sounds[dma.sound].len - dma.from)

LockHeld == \A p \in Players : player[p] \in {"buffer", "len", "pos"} <=> lock = p

Preparing(p) == player[p] \in {"lock", "buffer", "len", "pos"}
OwnSounds ==
  \A p \in Players : Preparing(p) =>
    /\ mine[p] # 0 /\ mine[p] # dma.sound
    /\ \A q \in Players \ {p} : Preparing(q) => mine[q] # mine[p]
    /\ IF player[p] \in {"lock", "buffer"} THEN samples # mine[p] ELSE samples = mine[p]
    /\ player[p] = "pos" => buffer_len = sounds[mine[p]].len

OneSound ==
  lock = Sound!Free =>
    /\ buffer_len = IF samples = 0 THEN 0 ELSE sounds[samples].len
    /\ buffer_pos = IF dma.sound = samples THEN dma.to ELSE 0

SoundInv == SoundTypes /\ Portion /\ LockHeld /\ OwnSounds /\ OneSound

LEMMA SoundStep == [KernelNext]_kernelVars => [Sound!Next]_(Sound!vars)
BY DEF KernelNext, Played, kernelVars, soundVars, Sound!vars

LEMMA SoundRecord ==
  ASSUME SoundTypes, NEW i \in 1 .. Len(sounds)
  PROVE  sounds[i] \in [len : Int, system : BOOLEAN] /\ sounds[i].len \in Int
<1> DEFINE S == [len : Int, system : BOOLEAN]
<1>1. sounds \in Seq(S)
  BY DEF SoundTypes
<1>2. sounds[i] \in S
  <2> HIDE DEF S
  <2> QED
    BY <1>1
<1>3. QED
  BY <1>2

LEMMA SoundInvInit == KernelInit => SoundInv
<1> SUFFICES ASSUME KernelInit PROVE SoundInv
  OBVIOUS
<1>1. Sound!Init
  BY DEF KernelInit
<1>2. SoundTypes
  <2>1. sounds \in Seq([len : Int, system : BOOLEAN]) /\ Len(sounds) = 0
    BY <1>1 DEF Sound!Init
  <2>2. dma \in [sound : 0 .. 0, from : Nat, to : Nat]
    BY <1>1 DEF Sound!Init, Sound!Silence
  <2>3. /\ mine \in [Players -> 0 .. 0] /\ samples \in 0 .. 0
        /\ buffer_len \in Int /\ buffer_pos \in Nat
        /\ lock = Sound!Free /\ interrupt = {}
    BY <1>1 DEF Sound!Init
  <2>4. listed \in BOOLEAN /\ active \in BOOLEAN
    BY <1>1, Zenon DEF Sound!Init
  <2>5. player \in [Players -> {"request_irq", "idle"}]
    BY <1>1 DEF Sound!Init
  <2>6. QED
    BY <2>1, <2>2, <2>3, <2>4, <2>5 DEF SoundTypes, Sound!TypeOK
<1>3. Portion /\ OneSound
  BY <1>1 DEF Sound!Init, Portion, OneSound, Sound!Silence
<1>4. LockHeld /\ OwnSounds
  BY <1>1, SoundAssumed
  DEF Sound!Init, LockHeld, OwnSounds, Preparing, Sound!Free, Sound!SoundAssumption
<1>5. QED
  BY <1>2, <1>3, <1>4 DEF SoundInv

LEMMA SoundInvNext == SoundInv /\ [Sound!Next]_(Sound!vars) => SoundInv'
<1> SUFFICES ASSUME SoundInv, [Sound!Next]_(Sound!vars) PROVE SoundInv'
  OBVIOUS
<1>a. SoundTypes /\ Portion /\ LockHeld /\ OwnSounds /\ OneSound
  BY DEF SoundInv
<1> USE DEF Sound!Goto, Sound!playback
<1>1. CASE Sound!RequestIrq
  <2>1. SoundTypes'
    BY <1>1, <1>a DEF Sound!RequestIrq, SoundTypes, Sound!TypeOK
  <2>2. Portion' /\ OneSound'
    BY <1>1, <1>a DEF Sound!RequestIrq, Portion, OneSound
  <2>3. LockHeld' /\ OwnSounds'
    BY <1>1, <1>a, SoundAssumed
    DEF Sound!RequestIrq, LockHeld, OwnSounds, Preparing, SoundTypes, Sound!SoundAssumption
  <2>4. QED
    BY <2>1, <2>2, <2>3 DEF SoundInv
<1>2. CASE Sound!List
  <2>1. SoundTypes'
    BY <1>2, <1>a DEF Sound!List, SoundTypes, Sound!TypeOK
  <2>2. Portion' /\ OneSound'
    BY <1>2, <1>a DEF Sound!List, Portion, OneSound
  <2>3. LockHeld' /\ OwnSounds'
    BY <1>2, <1>a, SoundAssumed
    DEF Sound!List, LockHeld, OwnSounds, Preparing, SoundTypes, Sound!SoundAssumption
  <2>4. QED
    BY <2>1, <2>2, <2>3 DEF SoundInv
<1>3. ASSUME NEW p \in Players, NEW n \in Int, NEW s \in BOOLEAN, Sound!Take(p, n, s)
      PROVE  SoundInv'
  <2> DEFINE new == [len |-> n, system |-> s]
  <2>1. /\ Len(sounds') = Len(sounds) + 1
        /\ sounds' \in Seq([len : Int, system : BOOLEAN])
        /\ \A i \in 1 .. Len(sounds) : sounds'[i] = sounds[i]
    BY <1>3, <1>a DEF Sound!Take, SoundTypes
  <2>2. SoundTypes'
    BY <1>3, <1>a, <2>1 DEF Sound!Take, SoundTypes, Sound!TypeOK
  <2>3. Portion' /\ OneSound'
    BY <1>3, <1>a, <2>1, SMTT(30) DEF Sound!Take, Portion, OneSound, SoundTypes, Sound!TypeOK
  <2>4. LockHeld'
    BY <1>3, <1>a DEF Sound!Take, LockHeld, SoundTypes
  <2>5. OwnSounds'
    BY <1>3, <1>a, <2>1, SMTT(30)
    DEF Sound!Take, OwnSounds, Preparing, SoundTypes, Sound!TypeOK
  <2>6. QED
    BY <2>2, <2>3, <2>4, <2>5 DEF SoundInv
<1>4. ASSUME NEW p \in Players, Sound!Refuse(p) PROVE SoundInv'
  <2>1. SoundTypes'
    BY <1>4, <1>a DEF Sound!Refuse, SoundTypes, Sound!TypeOK
  <2>2. Portion' /\ OneSound'
    BY <1>4, <1>a DEF Sound!Refuse, Portion, OneSound
  <2>3. LockHeld' /\ OwnSounds'
    BY <1>4, <1>a DEF Sound!Refuse, LockHeld, OwnSounds, Preparing, SoundTypes
  <2>4. QED
    BY <2>1, <2>2, <2>3 DEF SoundInv
<1>5. ASSUME NEW p \in Players, Sound!Lock(p) PROVE SoundInv'
  <2>1. SoundTypes'
    BY <1>5, <1>a DEF Sound!Lock, SoundTypes, Sound!TypeOK
  <2>2. Portion' /\ OneSound'
    BY <1>5, <1>a, SoundAssumed
    DEF Sound!Lock, Portion, OneSound, Sound!Free, Sound!SoundAssumption
  <2>3. LockHeld' /\ OwnSounds'
    BY <1>5, <1>a, SoundAssumed
    DEF Sound!Lock, LockHeld, OwnSounds, Preparing, SoundTypes, Sound!Free,
        Sound!SoundAssumption
  <2>4. QED
    BY <2>1, <2>2, <2>3 DEF SoundInv
<1>6. ASSUME NEW p \in Players, Sound!SetBuffer(p) PROVE SoundInv'
  <2>1. lock = p /\ lock # Sound!Free /\ Preparing(p)
    BY <1>6, <1>a, SoundAssumed
    DEF Sound!SetBuffer, LockHeld, Preparing, Sound!Free, Sound!SoundAssumption
  <2>2. SoundTypes'
    BY <1>6, <1>a DEF Sound!SetBuffer, SoundTypes, Sound!TypeOK
  <2>3. Portion' /\ OneSound'
    BY <1>6, <1>a, <2>1 DEF Sound!SetBuffer, Portion, OneSound, OwnSounds
  <2>4. LockHeld' /\ OwnSounds'
    BY <1>6, <1>a, <2>1
    DEF Sound!SetBuffer, LockHeld, OwnSounds, Preparing, SoundTypes
  <2>5. QED
    BY <2>2, <2>3, <2>4 DEF SoundInv
<1>7. ASSUME NEW p \in Players, Sound!SetLen(p) PROVE SoundInv'
  <2>1. lock = p /\ lock # Sound!Free /\ Preparing(p)
    BY <1>7, <1>a, SoundAssumed
    DEF Sound!SetLen, LockHeld, Preparing, Sound!Free, Sound!SoundAssumption
  <2>2. mine[p] \in 1 .. Len(sounds) /\ samples = mine[p]
    BY <1>7, <1>a, <2>1, SMTT(30) DEF Sound!SetLen, OwnSounds, Preparing, SoundTypes, Sound!TypeOK
  <2>3. buffer_len' = sounds[mine[p]].len /\ buffer_len' \in Int
    BY <1>7, <1>a, <2>2, SoundRecord DEF Sound!SetLen
  <2>4. SoundTypes'
    BY <1>7, <1>a, <2>3 DEF Sound!SetLen, SoundTypes, Sound!TypeOK
  <2>5. Portion' /\ OneSound'
    BY <1>7, <1>a, <2>1 DEF Sound!SetLen, Portion, OneSound
  <2>6. LockHeld' /\ OwnSounds'
    BY <1>7, <1>a, <2>1, <2>2, <2>3
    DEF Sound!SetLen, LockHeld, OwnSounds, Preparing, SoundTypes
  <2>7. QED
    BY <2>4, <2>5, <2>6 DEF SoundInv
<1>8. ASSUME NEW p \in Players, Sound!SetPos(p) PROVE SoundInv'
  <2>1. lock = p /\ Preparing(p)
    BY <1>8, <1>a DEF Sound!SetPos, LockHeld, Preparing
  <2>2. SoundTypes'
    BY <1>8, <1>a DEF Sound!SetPos, SoundTypes, Sound!TypeOK
  <2>3. Portion' /\ OneSound'
    BY <1>8, <1>a, <2>1
    DEF Sound!SetPos, Portion, OneSound, OwnSounds, Preparing, Sound!Free
  <2>4. LockHeld' /\ OwnSounds'
    BY <1>8, <1>a, <2>1, SoundAssumed
    DEF Sound!SetPos, LockHeld, OwnSounds, Preparing, SoundTypes, Sound!Free,
        Sound!SoundAssumption
  <2>5. QED
    BY <2>2, <2>3, <2>4 DEF SoundInv
<1>9. ASSUME NEW p \in Players, Sound!KFree(p) PROVE SoundInv'
  <2>1. SoundTypes'
    BY <1>9, <1>a DEF Sound!KFree, SoundTypes, Sound!TypeOK
  <2>2. Portion' /\ OneSound'
    BY <1>9, <1>a DEF Sound!KFree, Portion, OneSound
  <2>3. LockHeld' /\ OwnSounds'
    BY <1>9, <1>a DEF Sound!KFree, LockHeld, OwnSounds, Preparing, SoundTypes, Sound!TypeOK
  <2>4. QED
    BY <2>1, <2>2, <2>3 DEF SoundInv
<1>10. ASSUME NEW c \in Players \union {Other}, Sound!Interrupt(c) PROVE SoundInv'
  BY <1>10, <1>a
  DEF Sound!Interrupt, SoundInv, SoundTypes, Sound!TypeOK, Portion, LockHeld, OwnSounds,
      Preparing, OneSound
<1>11. CASE Sound!audio_interrupt
  <2>1. \A p \in Players : Preparing(p) => samples # mine[p]
    BY <1>11, <1>a, SoundAssumed
    DEF Sound!audio_interrupt, LockHeld, OwnSounds, Preparing, Sound!Free,
        Sound!SoundAssumption
  <2>2. CASE active /\ buffer_pos < buffer_len
    <3>1. samples \in 1 .. Len(sounds) /\ buffer_len = sounds[samples].len
      BY <1>11, <1>a, <2>2
      DEF Sound!audio_interrupt, SoundTypes, Sound!TypeOK, OneSound
    <3> DEFINE copy == Sound!Least(BUFFER_SIZE, buffer_len - buffer_pos)
    <3>2. copy \in Nat \ {0} /\ copy <= buffer_len - buffer_pos
      <4>1. /\ buffer_len \in Int /\ buffer_pos \in Nat /\ BUFFER_SIZE \in Nat \ {0}
            /\ buffer_pos < buffer_len
        BY <1>a, <2>2, SoundAssumed
        DEF SoundTypes, Sound!TypeOK, Sound!SoundAssumption
      <4>2. QED
        BY <4>1 DEF Sound!Least
    <3>l. copy = Sound!Least(BUFFER_SIZE, sounds[samples].len - buffer_pos)
      BY <3>1
    <3>3. /\ dma' = [sound |-> samples, from |-> buffer_pos, to |-> buffer_pos + copy]
          /\ buffer_pos' = buffer_pos + copy /\ active' = active
      BY <1>11, <2>2 DEF Sound!audio_interrupt, Sound!Copy
    <3> HIDE DEF copy
    <3>u. UNCHANGED <<listed, samples, buffer_len, lock, player, mine, sounds>> /\ interrupt' = {}
      BY <1>11 DEF Sound!audio_interrupt
    <3>t. buffer_len \in Int /\ buffer_pos \in Nat
      BY <1>a DEF SoundTypes, Sound!TypeOK
    <3>4. SoundTypes'
      <4>1. dma' \in [sound : 0 .. Len(sounds'), from : Nat, to : Nat]
        BY <3>1, <3>2, <3>3, <3>u, <3>t
      <4>2. buffer_pos' \in Nat
        BY <3>2, <3>3, <3>t
      <4>3. QED
        BY <1>a, <3>3, <3>u, <4>1, <4>2 DEF SoundTypes, Sound!TypeOK
    <3>5. Portion' /\ OneSound'
      <4>1. dma'.sound = samples /\ dma'.from = buffer_pos /\ dma'.to = buffer_pos + copy
        BY <3>3
      <4>2. Portion'
        <5>1. dma'.to - dma'.from = copy
          BY <4>1, <3>2, <3>t
        <5>2. dma'.from < dma'.to /\ dma'.to <= sounds[samples].len
          BY <4>1, <3>1, <3>2, <3>t
        <5>3. QED
          BY <3>1, <3>l, <3>u, <4>1, <5>1, <5>2 DEF Portion
      <4>3. OneSound'
        BY <3>1, <3>3, <3>u, <4>1 DEF OneSound
      <4>4. QED
        BY <4>2, <4>3
    <3>6. LockHeld' /\ OwnSounds'
      BY <1>11, <1>a, <2>1, <3>3
      DEF Sound!audio_interrupt, LockHeld, OwnSounds, Preparing
    <3>7. QED
      BY <3>4, <3>5, <3>6 DEF SoundInv
  <2>3. CASE ~(active /\ buffer_pos < buffer_len)
    <3>1. /\ UNCHANGED <<listed, samples, buffer_len, buffer_pos, lock, player, mine, sounds,
                         dma>>
          /\ active' \in BOOLEAN /\ interrupt' = {}
      BY <1>11, <1>a, <2>3 DEF Sound!audio_interrupt, Sound!Copy, SoundTypes, Sound!TypeOK
    <3>2. QED
      BY <1>a, <3>1
      DEF SoundInv, SoundTypes, Sound!TypeOK, Portion, LockHeld, OwnSounds, Preparing,
          OneSound
  <2>4. QED
    BY <2>2, <2>3
<1>12. CASE UNCHANGED Sound!vars
  BY <1>12, <1>a
  DEF Sound!vars, SoundInv, SoundTypes, Sound!TypeOK, Portion, LockHeld, OwnSounds,
      Preparing, OneSound
<1>13. ASSUME NEW p \in Players, Sound!soiav_play_system_sound(p) PROVE SoundInv'
  <2>1. SystemLen \in Int
    BY SoundAssumed DEF Sound!SoundAssumption
  <2>2. QED
    BY <1>3, <1>13, <2>1, Zenon DEF Sound!soiav_play_system_sound
<1>14. ASSUME NEW p \in Players, Sound!soiav_play_wav(p) PROVE SoundInv'
  BY <1>3, <1>14, SoundAssumed DEF Sound!soiav_play_wav, Sound!SoundAssumption
<1>15. QED
  BY <1>1, <1>2, <1>4, <1>5, <1>6, <1>7, <1>8, <1>9, <1>10, <1>11, <1>12, <1>13, <1>14
  DEF Sound!Next, Sound!Advance

(* The card is given the portions of one sound, in order and from inside it,     *)
(* however players and interrupts interleave.                                *)
THEOREM SoundPortionsRight == KernelSpec => []SoundPortions
<1>1. SoundInv => SoundPortions
  BY DEF SoundInv, SoundPortions, SoundTypes, Sound!TypeOK, Portion, OneSound,
         Sound!PortionsInOrder, Sound!Silence
<1>2. QED
  BY <1>1, SoundInvInit, SoundStep, SoundInvNext, PTL DEF KernelSpec

-----------------------------------------------------------------------------
(* The clients of the display server.  The inductive invariant of ClientSlots     *)
(* says beside what the property says that a connection has one descriptor at     *)
(* most and a slot from its admission on, which is one of the client_count used.  *)
ClientTypes ==
  /\ Display!TypeOK
  /\ conns \in 0 .. MaxConns
  /\ owned \in [Display!Conns -> 0 .. client_count]
  /\ unserved \subseteq Display!Conns

OneDescriptor == \A f, g \in Display!Fds : open[f] # 0 /\ open[f] = open[g] => f = g

NewConns ==
  /\ \A c \in Display!Conns : c > conns => thread[c] = "none" /\ owned[c] = 0
  /\ client_fd # -1 =>
       /\ conns # 0 /\ open[client_fd] = conns
       /\ thread[conns] = "none" /\ owned[conns] = 0

SlotsOwned ==
  /\ \A c \in Display!Conns :
       /\ thread[c] \in {"serves", "closed"} => owned[c] # 0
       /\ thread[c] = "serves" =>
            socket[owned[c]] \in Display!Fds /\ open[socket[owned[c]]] = c
  /\ \A c, d \in Display!Conns : owned[c] # 0 /\ owned[c] = owned[d] => c = d

Opened ==
  \A f \in Display!Fds : open[f] # 0 =>
    f = client_fd \/ thread[open[f]] = "serves" \/ open[f] \in unserved

ClientInv == ClientTypes /\ OneDescriptor /\ NewConns /\ SlotsOwned /\ Opened

LEMMA ClientStep == [KernelNext]_kernelVars => [Display!Next]_(Display!vars)
BY DEF KernelNext, Played, kernelVars, clientVars, Display!vars

LEMMA Interval ==
  \A n \in Nat : 1 .. n \in SUBSET Nat /\ IsFiniteSet(1 .. n) /\ Cardinality(1 .. n) = n
<1> SUFFICES ASSUME NEW n \in Nat
             PROVE  1 .. n \in SUBSET Nat /\ IsFiniteSet(1 .. n) /\ Cardinality(1 .. n) = n
  OBVIOUS
<1>1. 1 \in Int /\ n \in Int
  OBVIOUS
<1>2. IsFiniteSet(1 .. n) /\ Cardinality(1 .. n) = IF 1 > n THEN 0 ELSE n - 1 + 1
  BY <1>1, FS_Interval, Zenon
<1>3. QED
  BY <1>2

(* A set of numbers has a least one.                                         *)
LEMMA LeastElement ==
  ASSUME NEW D \in SUBSET Nat, D # {}
  PROVE  \E d \in D : \A e \in D : d <= e
<1> DEFINE T == {1 .. d : d \in D}
<1>1. T \subseteq FiniteSubsetsOf(Nat) /\ T # {}
  BY Interval DEF FiniteSubsetsOf
<1>2. PICK x \in T : \A y \in T : ~(<<y, x>> \in StrictSubsetOrdering(Nat))
  <2> HIDE DEF T
  <2> QED
    BY <1>1, FS_StrictSubsetOrderingWellFounded, WFMin, Zenon
<1>3. PICK d \in D : x = 1 .. d
  BY <1>2
<1>4. ASSUME NEW e \in D, e < d PROVE FALSE
  <2>1. 1 .. e \subseteq 1 .. d /\ d \in 1 .. d /\ d \notin 1 .. e
    BY <1>4
  <2>2. <<1 .. e, 1 .. d>> \in StrictSubsetOrdering(Nat)
    BY <2>1 DEF StrictSubsetOrdering
  <2>3. QED
    BY <1>2, <1>3, <2>2
<1>5. QED
  BY <1>4

(* accept finds a descriptor: no more connections are open than were made.      *)
LEMMA LowestFreeIsFree ==
  ASSUME ClientTypes, OneDescriptor, conns < MaxConns
  PROVE  Display!LowestFree \in Display!Fds /\ open[Display!LowestFree] = 0
<1>1. \E d \in Display!Fds : open[d] = 0
  <2> SUFFICES ASSUME \A d \in Display!Fds : open[d] # 0 PROVE FALSE
    OBVIOUS
  <2>1. open \in [1 .. MaxConns -> 1 .. conns]
    BY DEF ClientTypes, Display!TypeOK, Display!Fds
  <2>2. /\ IsFiniteSet(1 .. MaxConns) /\ IsFiniteSet(1 .. conns)
        /\ Cardinality(1 .. conns) < Cardinality(1 .. MaxConns)
    BY Interval, DisplayAssumed DEF ClientTypes, Display!SlotAssumption
  <2>3. \E f, g \in 1 .. MaxConns : f # g /\ open[f] = open[g]
    BY <2>1, <2>2, FS_PigeonHole, Zenon
  <2>4. QED
    BY <2>3 DEF OneDescriptor, Display!Fds
<1>2. {d \in Display!Fds : open[d] = 0} \in SUBSET Nat
  BY DEF Display!Fds
<1>3. \E d \in Display!Fds : open[d] = 0 /\ \A e \in Display!Fds : open[e] = 0 => d <= e
  BY <1>1, <1>2, LeastElement
<1>4. QED
  BY <1>3 DEF Display!LowestFree

LEMMA ClientInvInit == KernelInit => ClientInv
<1> SUFFICES ASSUME KernelInit PROVE ClientInv
  OBVIOUS
<1>1. Display!Init
  BY DEF KernelInit
<1>2. ClientTypes
  BY <1>1, DisplayAssumed
  DEF Display!Init, ClientTypes, Display!TypeOK, Display!SlotAssumption, Display!Fds,
      Display!Conns, Display!Slots
<1>3. OneDescriptor /\ NewConns /\ SlotsOwned /\ Opened
  BY <1>1 DEF Display!Init, OneDescriptor, NewConns, SlotsOwned, Opened
<1>4. QED
  BY <1>2, <1>3 DEF ClientInv

LEMMA ClientInvNext == ClientInv /\ [Display!Next]_(Display!vars) => ClientInv'
<1> SUFFICES ASSUME ClientInv, [Display!Next]_(Display!vars) PROVE ClientInv'
  OBVIOUS
<1>a. ClientTypes /\ OneDescriptor /\ NewConns /\ SlotsOwned /\ Opened
  BY DEF ClientInv
<1>m. MAX_CLIENTS \in Nat /\ MaxConns \in Nat
  BY DisplayAssumed DEF Display!SlotAssumption
<1> USE DEF Display!Fds, Display!Conns, Display!Slots
<1>1. CASE Display!Accept
  <2>1. PICK f \in Display!Fds :
          /\ open[f] = 0
          /\ open' = [open EXCEPT ![f] = conns + 1] /\ client_fd' = f
    BY <1>1, <1>a, <1>m, LowestFreeIsFree DEF Display!Accept
  <2>2. /\ client_fd = -1 /\ conns < MaxConns /\ conns' = conns + 1
        /\ UNCHANGED <<client_count, socket, thread, owned, unserved>>
    BY <1>1 DEF Display!Accept
  <2>3. ClientTypes'
    <3>1. conns \in Nat /\ conns' \in 0 .. MaxConns
      BY <1>a, <1>m, <2>2 DEF ClientTypes
    <3>2. open' \in [1 .. MaxConns -> 0 .. conns']
      BY <1>a, <2>1, <2>2, <3>1 DEF ClientTypes, Display!TypeOK
    <3>3. QED
      BY <1>a, <2>1, <2>2, <3>1, <3>2 DEF ClientTypes, Display!TypeOK
  <2>4. OneDescriptor'
    BY <1>a, <2>1, <2>2, SMTT(30) DEF OneDescriptor, ClientTypes, Display!TypeOK
  <2>5. NewConns'
    BY <1>a, <1>m, <2>1, <2>2 DEF NewConns, ClientTypes, Display!TypeOK
  <2>6. SlotsOwned'
    BY <1>a, <2>1, <2>2 DEF SlotsOwned, ClientTypes, Display!TypeOK
  <2>7. Opened'
    BY <1>a, <2>1, <2>2 DEF Opened, ClientTypes, Display!TypeOK
  <2>8. QED
    BY <2>3, <2>4, <2>5, <2>6, <2>7 DEF ClientInv
<1>2. CASE Display!Refuse
  <2>1. client_fd \in Display!Fds /\ conns \in Display!Conns
    BY <1>2, <1>a DEF Display!Refuse, ClientTypes, Display!TypeOK, NewConns
  <2>2. ClientTypes'
    BY <1>2, <1>a, <2>1 DEF Display!Refuse, ClientTypes, Display!TypeOK
  <2>3. OneDescriptor' /\ NewConns' /\ Opened'
    BY <1>2, <1>a, <2>1
    DEF Display!Refuse, OneDescriptor, NewConns, Opened, ClientTypes, Display!TypeOK
  <2>4. SlotsOwned'
    BY <1>2, <1>a, <2>1 DEF Display!Refuse, SlotsOwned, NewConns, ClientTypes, Display!TypeOK
  <2>5. QED
    BY <2>2, <2>3, <2>4 DEF ClientInv
<1>3. CASE Display!Admit
  <2>1. client_fd \in Display!Fds /\ conns \in Display!Conns
    BY <1>3, <1>a DEF Display!Admit, ClientTypes, Display!TypeOK, NewConns
  <2>n. client_count + 1 \in Display!Slots
    BY <1>3, <1>a, <1>m DEF Display!Admit, ClientTypes, Display!TypeOK
  <2>2. PICK n \in Display!Slots :
          /\ n = client_count + 1 /\ client_count' = n
          /\ socket' = [socket EXCEPT ![n] = client_fd]
          /\ owned' = [owned EXCEPT ![conns] = n]
    <3>1. client_count' = client_count + 1
      BY <1>3 DEF Display!Admit
    <3>2. /\ socket' = [socket EXCEPT ![client_count + 1] = client_fd]
          /\ owned' = [owned EXCEPT ![conns] = client_count + 1]
      BY <1>3, <3>1, Zenon DEF Display!Admit
    <3>3. QED
      BY <2>n, <3>1, <3>2, Zenon
  <2>3. /\ client_fd' = -1 /\ UNCHANGED <<open, conns>>
        /\ \/ thread' = [thread EXCEPT ![conns] = "serves"] /\ unserved' = unserved
           \/ thread' = thread /\ unserved' = unserved \union {conns}
    BY <1>3 DEF Display!Admit
  <2>4. client_count \in Nat /\ 0 .. client_count \subseteq 0 .. n
    BY <1>a, <2>2 DEF ClientTypes, Display!TypeOK
  <2>5. ClientTypes'
    <3>1. thread' \in [1 .. MaxConns -> {"none", "serves", "closed", "ended"}]
      BY <1>a, <2>1, <2>3 DEF ClientTypes, Display!TypeOK
    <3>2. owned' \in [1 .. MaxConns -> 0 .. n]
      BY <1>a, <2>1, <2>2, <2>4 DEF ClientTypes
    <3>3. socket' \in [1 .. MAX_CLIENTS -> 1 .. MaxConns \union {-1, 0}]
      BY <1>a, <2>1, <2>2 DEF ClientTypes, Display!TypeOK
    <3>4. unserved' \subseteq 1 .. MaxConns
      BY <1>a, <2>1, <2>3 DEF ClientTypes
    <3>5. /\ client_count' \in 0 .. MAX_CLIENTS /\ conns' \in 0 .. MaxConns
          /\ open' \in [1 .. MaxConns -> 0 .. conns'] /\ client_fd' = -1
      BY <1>a, <1>m, <2>2, <2>3, SMTT(30) DEF ClientTypes, Display!TypeOK
    <3>6. QED
      BY <2>2, <3>1, <3>2, <3>3, <3>4, <3>5 DEF ClientTypes, Display!TypeOK
  <2>6. /\ open' = open /\ conns' = conns /\ client_fd' = -1
        /\ open[client_fd] = conns /\ owned[conns] = 0 /\ thread[conns] = "none"
    BY <1>3, <1>a, <2>3 DEF Display!Admit, NewConns
  <2>7. /\ owned'[conns] = n /\ socket'[n] = client_fd /\ n # 0
        /\ \A s \in Display!Slots \ {n} : socket'[s] = socket[s]
        /\ \A c \in Display!Conns \ {conns} :
             owned'[c] = owned[c] /\ owned[c] \in 0 .. client_count /\ thread'[c] = thread[c]
    <3>1. \A c \in Display!Conns \ {conns} : thread'[c] = thread[c]
      BY <1>a, <2>3 DEF ClientTypes, Display!TypeOK
    <3>2. /\ owned'[conns] = n
          /\ \A c \in Display!Conns \ {conns} :
               owned'[c] = owned[c] /\ owned[c] \in 0 .. client_count
      BY <1>a, <2>1, <2>2 DEF ClientTypes
    <3>3. socket'[n] = client_fd /\ \A s \in Display!Slots \ {n} : socket'[s] = socket[s]
      BY <1>a, <2>2 DEF ClientTypes, Display!TypeOK
    <3>4. n # 0
      BY <1>m
    <3>5. QED
      BY <3>1, <3>2, <3>3, <3>4
  <2>8. \/ thread'[conns] = "serves" /\ unserved' = unserved
        \/ thread'[conns] = "none" /\ unserved' = unserved \union {conns}
    BY <1>a, <2>1, <2>3, <2>6 DEF ClientTypes, Display!TypeOK
  <2>9. OneDescriptor' /\ NewConns'
    BY <1>a, <2>1, <2>4, <2>6, <2>7, <2>8 DEF OneDescriptor, NewConns
  <2>10. SlotsOwned'
    <3>1. \A c \in Display!Conns \ {conns} : owned[c] # n
      BY <2>2, <2>4, <2>7
    <3>2. ASSUME NEW c \in Display!Conns, thread'[c] \in {"serves", "closed"}
          PROVE  /\ owned'[c] # 0
                 /\ thread'[c] = "serves" =>
                      socket'[owned'[c]] \in Display!Fds /\ open'[socket'[owned'[c]]] = c
      <4>1. CASE c = conns
        BY <2>1, <2>6, <2>7, <4>1
      <4>2. CASE c # conns
        <5>1. owned[c] \in Display!Slots \ {n} \/ owned[c] = 0
          BY <1>m, <2>2, <2>4, <2>7, <4>2
        <5>2. QED
          BY <1>a, <2>6, <2>7, <3>2, <4>2, <5>1 DEF SlotsOwned
      <4>3. QED
        BY <4>1, <4>2
    <3>3. \A c, d \in Display!Conns : owned'[c] # 0 /\ owned'[c] = owned'[d] => c = d
      BY <1>a, <2>7, <3>1 DEF SlotsOwned
    <3>4. QED
      BY <3>2, <3>3 DEF SlotsOwned
  <2>11. Opened'
    <3>1. SUFFICES ASSUME NEW f \in Display!Fds, open'[f] # 0
                   PROVE  thread'[open'[f]] = "serves" \/ open'[f] \in unserved'
      BY <2>6 DEF Opened
    <3>2. open[f] \in Display!Conns
      <4>1. open[f] \in 0 .. conns /\ conns \in 0 .. MaxConns
        BY <1>a DEF ClientTypes, Display!TypeOK
      <4>2. open[f] # 0
        BY <2>6, <3>1
      <4>3. QED
        BY <1>m, <4>1, <4>2
    <3>3. CASE open[f] = conns
      BY <2>6, <2>8, <3>3
    <3>4. CASE open[f] # conns
      BY <1>a, <2>6, <2>7, <2>8, <3>1, <3>2, <3>4 DEF Opened
    <3>5. QED
      BY <3>3, <3>4
  <2>12. QED
    BY <2>5, <2>9, <2>10, <2>11 DEF ClientInv
<1>4. ASSUME NEW c \in Display!Conns, Display!disconnect(c) PROVE ClientInv'
  <2>1. PICK f \in Display!Fds :
          open[f] = c /\ f = socket[owned[c]] /\ open' = [open EXCEPT ![f] = 0]
    BY <1>4, <1>a DEF Display!disconnect, SlotsOwned
  <2>2. /\ thread[c] = "serves" /\ thread' = [thread EXCEPT ![c] = "closed"]
        /\ UNCHANGED <<conns, client_fd, client_count, socket, owned, unserved>>
    BY <1>4 DEF Display!disconnect
  <2>3. ClientTypes'
    BY <1>a, <2>1, <2>2, SMTT(30) DEF ClientTypes, Display!TypeOK
  <2>4. OneDescriptor' /\ NewConns' /\ Opened'
    BY <1>a, <2>1, <2>2
    DEF OneDescriptor, NewConns, Opened, ClientTypes, Display!TypeOK
  <2>5. SlotsOwned'
    BY <1>a, <2>1, <2>2 DEF SlotsOwned, ClientTypes, Display!TypeOK
  <2>6. QED
    BY <2>3, <2>4, <2>5 DEF ClientInv
<1>5. ASSUME NEW c \in Display!Conns, Display!ThreadEnds(c) PROVE ClientInv'
  <2>1. owned[c] \in Display!Slots
    BY <1>5, <1>a, <1>m DEF Display!ThreadEnds, SlotsOwned, ClientTypes, Display!TypeOK
  <2>2. ClientTypes'
    BY <1>5, <1>a, <2>1 DEF Display!ThreadEnds, ClientTypes, Display!TypeOK
  <2>3. OneDescriptor' /\ NewConns' /\ Opened'
    BY <1>5, <1>a
    DEF Display!ThreadEnds, OneDescriptor, NewConns, Opened, ClientTypes, Display!TypeOK
  <2>4. SlotsOwned'
    BY <1>5, <1>a, <2>1, <1>m, SMTT(30)
    DEF Display!ThreadEnds, SlotsOwned, ClientTypes, Display!TypeOK
  <2>5. QED
    BY <2>2, <2>3, <2>4 DEF ClientInv
<1>6. CASE UNCHANGED Display!vars
  BY <1>6, <1>a
  DEF Display!vars, ClientInv, ClientTypes, Display!TypeOK, OneDescriptor, NewConns,
      SlotsOwned, Opened
<1>7. QED
  BY <1>1, <1>2, <1>3, <1>4, <1>5, <1>6 DEF Display!Next

(* A thread of the display server reads from its own connection and in its own    *)
(* slot, and no descriptor stays open for nobody but where pthread_create failed,  *)
(* in whatever order clients come, go and are refused.                       *)
THEOREM ClientsStayApart == KernelSpec => []ClientsApart
<1>1. ClientInv => ClientsApart
  BY DEF ClientInv, ClientsApart, Display!ClientsApart, ClientTypes, SlotsOwned, Opened
<1>2. QED
  BY <1>1, ClientInvInit, ClientStep, ClientInvNext, PTL DEF KernelSpec

-----------------------------------------------------------------------------
(* The events.  The inductive invariant of EventRing says beside what the         *)
(* properties say that the ring holds the newest serial numbers, one after the     *)
(* other, and that what clients have is older than all of them.                *)
Newest == \A i \in 1 .. Held : Contents[i] = pushed - Held + i

OlderWithClients ==
  /\ Held <= pushed
  /\ \A c \in Clients : \A x \in With(c) : x <= pushed - Held

ReadInOrder ==
  \A c \in Clients :
    /\ \A i, j \in DOMAIN received[c] : i < j => received[c][i] < received[c][j]
    /\ ev[c] # 0 => \A i \in DOMAIN received[c] : received[c][i] < ev[c]

Disjoint == \A c, d \in Clients : c # d => With(c) \intersect With(d) = {}

RingInv == TypeOK /\ Newest /\ OlderWithClients /\ ReadInOrder /\ Disjoint

LEMMA EventStep == [KernelNext]_kernelVars => [Next]_vars
BY DEF KernelNext, Played, kernelVars

LEMMA Modulo ==
  ASSUME NEW m \in Nat \ {0}, NEW x \in 0 .. 2 * m - 1
  PROVE  x % m = IF x < m THEN x ELSE x - m
<1>1. CASE x < m
  BY <1>1
<1>2. CASE x >= m
  BY <1>2
<1>3. QED
  BY <1>1, <1>2

(* The indices of the ring without remainders.                               *)
LEMMA RingAfter ==
  \A s \in Slots : After(s) = IF s = MAX_EVENTS - 1 THEN 0 ELSE s + 1
<1> SUFFICES ASSUME NEW s \in Slots
             PROVE  After(s) = IF s = MAX_EVENTS - 1 THEN 0 ELSE s + 1
  OBVIOUS
<1> DEFINE x == s + 1
<1>1. MAX_EVENTS \in Nat \ {0} /\ x \in 0 .. 2 * MAX_EVENTS - 1
  BY RingAssumption DEF Slots
<1>2. x % MAX_EVENTS = IF x < MAX_EVENTS THEN x ELSE x - MAX_EVENTS
  <2> HIDE DEF x
  <2> QED
    BY <1>1, Modulo
<1>3. QED
  BY <1>1, <1>2 DEF After, Slots

LEMMA RingDistance ==
  ASSUME NEW h \in Slots, NEW t \in Slots
  PROVE  (h + MAX_EVENTS - t) % MAX_EVENTS = IF t <= h THEN h - t ELSE h + MAX_EVENTS - t
<1> DEFINE x == h + MAX_EVENTS - t
<1>1. /\ MAX_EVENTS \in Nat \ {0} /\ x \in 0 .. 2 * MAX_EVENTS - 1
      /\ h \in 0 .. MAX_EVENTS - 1 /\ t \in 0 .. MAX_EVENTS - 1
  BY RingAssumption DEF Slots
<1>2. x % MAX_EVENTS = IF x < MAX_EVENTS THEN x ELSE x - MAX_EVENTS
  <2> HIDE DEF x
  <2> QED
    BY <1>1, Modulo
<1>3. QED
  BY <1>1, <1>2

Slot(t, i) == IF t + i - 1 < MAX_EVENTS THEN t + i - 1 ELSE t + i - 1 - MAX_EVENTS

LEMMA RingSlot ==
  ASSUME NEW t \in Slots, NEW i \in 1 .. MAX_EVENTS
  PROVE  (t + i - 1) % MAX_EVENTS = Slot(t, i) /\ Slot(t, i) \in Slots
<1> DEFINE x == t + i - 1
<1>1. /\ MAX_EVENTS \in Nat \ {0} /\ x \in 0 .. 2 * MAX_EVENTS - 1
      /\ t \in 0 .. MAX_EVENTS - 1
  BY RingAssumption DEF Slots
<1>2. x % MAX_EVENTS = IF x < MAX_EVENTS THEN x ELSE x - MAX_EVENTS
  <2> HIDE DEF x
  <2> QED
    BY <1>1, Modulo
<1>3. QED
  BY <1>1, <1>2 DEF Slot, Slots

LEMMA RingHeld ==
  ASSUME NEW h \in Slots, NEW t \in Slots, NEW n, NEW e, NEW contents,
         n = (h + MAX_EVENTS - t) % MAX_EVENTS,
         contents = [i \in 1 .. n |-> e[(t + i - 1) % MAX_EVENTS]]
  PROVE  /\ n = IF t <= h THEN h - t ELSE h + MAX_EVENTS - t
         /\ n \in 0 .. MAX_EVENTS - 1
         /\ \A i \in 1 .. n : Slot(t, i) \in Slots /\ contents[i] = e[Slot(t, i)]
<1>1. n = IF t <= h THEN h - t ELSE h + MAX_EVENTS - t
  BY RingDistance, Zenon
<1>2. /\ n \in 0 .. MAX_EVENTS - 1
      /\ \A i \in 1 .. n : i \in 1 .. MAX_EVENTS
  BY <1>1, RingAssumption DEF Slots
<1>3. ASSUME NEW i \in 1 .. n
      PROVE  Slot(t, i) \in Slots /\ contents[i] = e[Slot(t, i)]
  <2>1. contents[i] = e[(t + i - 1) % MAX_EVENTS]
    BY <1>3, Zenon
  <2>2. i \in 1 .. MAX_EVENTS
    BY <1>2
  <2>3. (t + i - 1) % MAX_EVENTS = Slot(t, i) /\ Slot(t, i) \in Slots
    BY <2>2, RingSlot, Zenon
  <2>4. QED
    BY <2>1, <2>3, Zenon
<1>4. QED
  BY <1>1, <1>2, <1>3

(* What the two operations on the ring make of its contents.                  *)
LEMMA PushHeld ==
  ASSUME RingInv, push_event
  PROVE  /\ TypeOK' /\ Newest'
         /\ \/ Held < MAX_EVENTS - 1 /\ Held' = Held + 1
            \/ Held = MAX_EVENTS - 1 /\ Held' = Held
<1>1. /\ MAX_EVENTS \in Nat \ {0, 1} /\ MaxSerial \in Nat
      /\ head \in Slots /\ tail \in Slots /\ pushed \in 0 .. MaxSerial
      /\ events \in [Slots -> Serials \union {0}]
  BY RingAssumption DEF RingInv, TypeOK
<1>2. /\ pushed < MaxSerial /\ pushed' = pushed + 1
      /\ events' = [events EXCEPT ![head] = pushed + 1]
      /\ head' = IF head = MAX_EVENTS - 1 THEN 0 ELSE head + 1
      /\ tail' = IF head' # tail THEN tail
                 ELSE IF tail = MAX_EVENTS - 1 THEN 0 ELSE tail + 1
      /\ UNCHANGED <<ev, received>>
  BY <1>1, RingAfter DEF push_event
<1>3. head' \in Slots /\ tail' \in Slots
  BY <1>1, <1>2 DEF Slots
<1>4. TypeOK'
  BY <1>1, <1>2, <1>3 DEF RingInv, TypeOK, Serials
<1>5. /\ Held = IF tail <= head THEN head - tail ELSE head + MAX_EVENTS - tail
      /\ Held \in 0 .. MAX_EVENTS - 1
      /\ \A i \in 1 .. Held :
           Slot(tail, i) \in Slots /\ Contents[i] = events[Slot(tail, i)]
  <2>1. /\ Held = (head + MAX_EVENTS - tail) % MAX_EVENTS
        /\ Contents = [i \in 1 .. Held |-> events[(tail + i - 1) % MAX_EVENTS]]
    BY Zenon DEF Held, Contents
  <2>2. head \in Slots /\ tail \in Slots
    BY <1>1
  <2>3. QED
    BY <2>1, <2>2, RingHeld
<1>6. /\ Held' = IF tail' <= head' THEN head' - tail' ELSE head' + MAX_EVENTS - tail'
      /\ Held' \in 0 .. MAX_EVENTS - 1
      /\ \A i \in 1 .. Held' :
           Slot(tail', i) \in Slots /\ Contents'[i] = events'[Slot(tail', i)]
  <2>1. /\ Held' = (head' + MAX_EVENTS - tail') % MAX_EVENTS
        /\ Contents' = [i \in 1 .. Held' |-> events'[(tail' + i - 1) % MAX_EVENTS]]
    BY Zenon DEF Held, Contents
  <2>2. QED
    BY <1>3, <2>1, RingHeld
<1>7. \/ Held < MAX_EVENTS - 1 /\ Held' = Held + 1 /\ tail' = tail
      \/ /\ Held = MAX_EVENTS - 1 /\ Held' = Held
         /\ tail' = IF tail = MAX_EVENTS - 1 THEN 0 ELSE tail + 1
  <2>1. PICK m \in Nat \ {0, 1} : m = MAX_EVENTS
    BY <1>1
  <2>2. PICK h \in 0 .. m - 1, t \in 0 .. m - 1 : h = head /\ t = tail
    BY <1>1, <2>1 DEF Slots
  <2>3. CASE head' # t
    <3>1. tail' = tail /\ Held' = Held + 1
      BY <1>2, <1>5, <1>6, <2>1, <2>2, <2>3
    <3>2. QED
      BY <1>5, <1>6, <2>1, <3>1
  <2>4. CASE head' = t
    <3>1. Held = m - 1 /\ Held' = m - 1
      BY <1>2, <1>5, <1>6, <2>1, <2>2, <2>4
    <3>2. QED
      BY <1>2, <2>1, <2>4, <2>2, <3>1
  <2>5. QED
    BY <2>3, <2>4
<1>8. ASSUME NEW i \in 1 .. Held' PROVE Contents'[i] = pushed' - Held' + i
  <2>1. PICK s \in Slots :
          s = Slot(tail', i) /\ Contents'[i] = events'[s]
    BY <1>6
  <2>2. CASE i = Held'
    <3>1. s = head
      BY <1>1, <1>2, <1>3, <1>5, <1>6, <1>7, <2>1, <2>2 DEF Slot, Slots
    <3>2. Contents'[i] = pushed + 1
      BY <1>1, <1>2, <2>1, <3>1
    <3>3. QED
      BY <1>1, <1>2, <1>6, <2>2, <3>2
  <2>3. CASE i < Held'
    <3>1. PICK j \in 1 .. Held : j = IF tail' = tail THEN i ELSE i + 1
      <4>1. (IF tail' = tail THEN i ELSE i + 1) \in 1 .. Held
        BY <1>1, <1>5, <1>6, <1>7, <2>3, SMTT(30) DEF Slots
      <4>2. QED
        BY <4>1
    <3>2. s = Slot(tail, j) /\ s # head
      BY <1>1, <1>2, <1>3, <1>5, <1>6, <1>7, <2>1, <2>3, <3>1 DEF Slot, Slots
    <3>3. Contents'[i] = Contents[j]
      BY <1>1, <1>2, <1>5, <2>1, <3>2
    <3>4. Contents[j] = pushed - Held + j
      BY DEF RingInv, Newest
    <3>5. pushed - Held + j = pushed' - Held' + i
      BY <1>1, <1>2, <1>5, <1>6, <1>7, <2>3, <3>1 DEF Slots
    <3>6. QED
      BY <3>3, <3>4, <3>5
  <2>4. QED
    BY <1>6, <2>2, <2>3
<1>9. QED
  BY <1>4, <1>7, <1>8 DEF Newest

LEMMA PopHeld ==
  ASSUME RingInv, NEW c \in Clients, pop_event(c)
  PROVE  /\ TypeOK' /\ Newest'
         /\ Held > 0 /\ Held' = Held - 1 /\ pushed' = pushed
         /\ ev' = [ev EXCEPT ![c] = pushed - Held']
<1>1. /\ MAX_EVENTS \in Nat \ {0, 1} /\ MaxSerial \in Nat
      /\ head \in Slots /\ tail \in Slots /\ pushed \in 0 .. MaxSerial
      /\ ev \in [Clients -> Serials \union {0}] /\ Held <= pushed
  BY RingAssumption DEF RingInv, TypeOK, OlderWithClients
<1>2. /\ tail # head /\ head' = head /\ events' = events /\ pushed' = pushed
      /\ tail' = IF tail = MAX_EVENTS - 1 THEN 0 ELSE tail + 1
      /\ ev' = [ev EXCEPT ![c] = events[tail]] /\ UNCHANGED received
  BY <1>1, RingAfter DEF pop_event
<1>3. head' \in Slots /\ tail' \in Slots
  BY <1>1, <1>2 DEF Slots
<1>4. /\ Held = IF tail <= head THEN head - tail ELSE head + MAX_EVENTS - tail
      /\ Held \in 0 .. MAX_EVENTS - 1
      /\ \A i \in 1 .. Held :
           Slot(tail, i) \in Slots /\ Contents[i] = events[Slot(tail, i)]
  <2>1. /\ Held = (head + MAX_EVENTS - tail) % MAX_EVENTS
        /\ Contents = [i \in 1 .. Held |-> events[(tail + i - 1) % MAX_EVENTS]]
    BY Zenon DEF Held, Contents
  <2>2. head \in Slots /\ tail \in Slots
    BY <1>1
  <2>3. QED
    BY <2>1, <2>2, RingHeld
<1>5. /\ Held' = IF tail' <= head' THEN head' - tail' ELSE head' + MAX_EVENTS - tail'
      /\ Held' \in 0 .. MAX_EVENTS - 1
      /\ \A i \in 1 .. Held' :
           Slot(tail', i) \in Slots /\ Contents'[i] = events'[Slot(tail', i)]
  <2>1. /\ Held' = (head' + MAX_EVENTS - tail') % MAX_EVENTS
        /\ Contents' = [i \in 1 .. Held' |-> events'[(tail' + i - 1) % MAX_EVENTS]]
    BY Zenon DEF Held, Contents
  <2>2. QED
    BY <1>3, <2>1, RingHeld
<1>6. Held > 0 /\ Held' = Held - 1
  BY <1>1, <1>2, <1>4, <1>5 DEF Slots
<1>7. events[tail] = pushed - Held'
  <2>1. 1 \in 1 .. Held /\ Contents[1] = events[tail]
    BY <1>1, <1>4, <1>6 DEF Slot, Slots
  <2>2. Contents[1] = pushed - Held + 1
    BY <2>1 DEF RingInv, Newest
  <2>3. QED
    BY <1>1, <1>4, <1>6, <2>1, <2>2
<1>8. TypeOK'
  BY <1>1, <1>2, <1>3, <1>5, <1>6, <1>7 DEF RingInv, TypeOK, Serials
<1>9. ASSUME NEW i \in 1 .. Held' PROVE Contents'[i] = pushed' - Held' + i
  <2>1. i + 1 \in 1 .. Held
    BY <1>4, <1>6
  <2>2. Contents'[i] = Contents[i + 1]
    BY <1>1, <1>2, <1>4, <1>5, <1>6, <2>1 DEF Slot, Slots
  <2>3. Contents[i + 1] = pushed - Held + (i + 1)
    BY <2>1 DEF RingInv, Newest
  <2>4. QED
    BY <1>1, <1>2, <1>4, <1>6, <2>2, <2>3
<1>10. QED
  BY <1>2, <1>6, <1>7, <1>8, <1>9 DEF Newest

LEMMA Elements ==
  ASSUME NEW S, NEW s \in Seq(S)
  PROVE  /\ Len(s) \in Nat /\ DOMAIN s = 1 .. Len(s) /\ \A i \in DOMAIN s : s[i] \in S
         /\ \A x \in S :
              /\ Append(s, x) \in Seq(S) /\ DOMAIN Append(s, x) = 1 .. Len(s) + 1
              /\ Append(s, x)[Len(s) + 1] = x
              /\ \A i \in DOMAIN s : Append(s, x)[i] = s[i]
OBVIOUS

LEMMA RingInvInit == KernelInit => RingInv
<1> SUFFICES ASSUME KernelInit PROVE RingInv
  OBVIOUS
<1>1. Init
  BY DEF KernelInit
<1>2. 0 \in Slots /\ MAX_EVENTS \in Nat \ {0, 1} /\ MaxSerial \in Nat
  BY RingAssumption DEF Slots
<1>3. TypeOK
  BY <1>1, <1>2 DEF Init, TypeOK
<1>4. Held = 0
  BY <1>1, <1>2, RingDistance DEF Init, Held
<1>5. \A c \in Clients : With(c) = {}
  BY <1>1 DEF Init, With
<1>6. Newest /\ OlderWithClients /\ ReadInOrder /\ Disjoint
  BY <1>1, <1>4, <1>5 DEF Init, Newest, OlderWithClients, ReadInOrder, Disjoint
<1>7. QED
  BY <1>3, <1>6 DEF RingInv

LEMMA RingInvNext == RingInv /\ [Next]_vars => RingInv'
<1> SUFFICES ASSUME RingInv, [Next]_vars PROVE RingInv'
  OBVIOUS
<1>a. /\ OlderWithClients /\ ReadInOrder /\ Disjoint
      /\ pushed \in Nat /\ Held \in 0 .. MAX_EVENTS - 1
      /\ MAX_EVENTS \in Nat \ {0, 1}
      /\ ev \in [Clients -> Serials \union {0}]
      /\ received \in [Clients -> Seq(Serials)]
  <2>1. head \in Slots /\ tail \in Slots /\ MAX_EVENTS \in Nat \ {0, 1}
    BY RingAssumption DEF RingInv, TypeOK
  <2>2. Held \in 0 .. MAX_EVENTS - 1
    BY <2>1, RingDistance DEF Held, Slots
  <2>3. QED
    BY <2>1, <2>2 DEF RingInv, TypeOK
<1>n. Serials \subseteq Nat \ {0}
  BY RingAssumption DEF Serials
<1>e. \A c \in Clients :
        /\ Len(received[c]) \in Nat /\ DOMAIN received[c] = 1 .. Len(received[c])
        /\ \A i \in DOMAIN received[c] : received[c][i] \in Serials
  BY <1>a, Elements
<1>w. \A c \in Clients : With(c) \subseteq Nat
  BY <1>a, <1>n, <1>e DEF With
<1>1. CASE push_event
  <2>1. /\ TypeOK' /\ Newest' /\ pushed' = pushed + 1 /\ UNCHANGED <<ev, received>>
        /\ \/ Held < MAX_EVENTS - 1 /\ Held' = Held + 1
           \/ Held = MAX_EVENTS - 1 /\ Held' = Held
    BY <1>1, PushHeld DEF push_event
  <2>2. \A c \in Clients : With(c)' = With(c)
    BY <2>1 DEF With
  <2>3. OlderWithClients'
    BY <1>a, <1>w, <2>1, <2>2 DEF OlderWithClients
  <2>4. ReadInOrder' /\ Disjoint'
    BY <1>a, <2>1, <2>2 DEF ReadInOrder, Disjoint
  <2>5. QED
    BY <2>1, <2>3, <2>4 DEF RingInv
<1>2. ASSUME NEW c \in Clients, pop_event(c) PROVE RingInv'
  <2>1. /\ TypeOK' /\ Newest'
        /\ Held > 0 /\ Held' = Held - 1 /\ pushed' = pushed
        /\ ev' = [ev EXCEPT ![c] = pushed - Held']
        /\ ev[c] = 0 /\ received' = received
    BY <1>2, PopHeld DEF pop_event
  <2>2. pushed - Held' \in Nat /\ pushed - Held' > pushed - Held
    BY <1>a, <2>1 DEF OlderWithClients
  <2>3. /\ ev'[c] = pushed - Held'
        /\ \A d \in Clients : d # c => With(d)' = With(d)
        /\ With(c)' \subseteq With(c) \union {pushed - Held'}
    BY <1>a, <2>1 DEF With
  <2>5. OlderWithClients'
    BY <1>a, <1>w, <2>1, <2>2, <2>3 DEF OlderWithClients
  <2>6. \A d \in Clients : pushed - Held' \notin With(d)
    BY <1>a, <1>w, <2>2 DEF OlderWithClients
  <2>7. Disjoint'
    BY <1>a, <2>3, <2>6, SMTT(30) DEF Disjoint
  <2>8. \A i \in DOMAIN received[c] : received[c][i] < pushed - Held'
    <3>1. \A i \in DOMAIN received[c] : received[c][i] \in With(c)
      BY DEF With
    <3>2. QED
      BY <1>a, <1>w, <2>2, <3>1 DEF OlderWithClients
  <2>9. ReadInOrder'
    BY <1>a, <2>1, <2>3, <2>8 DEF ReadInOrder
  <2>10. QED
    BY <2>1, <2>5, <2>7, <2>9 DEF RingInv
<1>3. ASSUME NEW c \in Clients, Reply(c) PROVE RingInv'
  <2>1. /\ ev[c] # 0 /\ ev' = [ev EXCEPT ![c] = 0]
        /\ UNCHANGED <<events, head, tail, pushed>>
        /\ received' = [received EXCEPT ![c] = Append(@, ev[c])] \/ received' = received
    BY <1>3 DEF Reply
  <2>2. Held' = Held /\ Contents' = Contents
    BY <2>1 DEF Held, Contents
  <2>3. /\ ev[c] \in Serials /\ received[c] \in Seq(Serials)
        /\ Append(received[c], ev[c]) \in Seq(Serials)
    BY <1>a, <2>1, Elements
  <2>4. \/ received'[c] = Append(received[c], ev[c])
        \/ received'[c] = received[c]
    BY <1>a, <2>1
  <2>5. /\ ev'[c] = 0 /\ received'[c] \in Seq(Serials)
        /\ \A d \in Clients : d # c => ev'[d] = ev[d] /\ received'[d] = received[d]
    BY <1>a, <2>1, <2>3, <2>4
  <2>6. \A d \in Clients : With(d)' \subseteq With(d)
    <3>1. ASSUME NEW d \in Clients, d # c PROVE With(d)' = With(d)
      BY <2>5, <3>1 DEF With
    <3>2. With(c)' \subseteq With(c)
      <4>1. ASSUME NEW i \in DOMAIN received'[c] PROVE received'[c][i] \in With(c)
        <5>1. CASE received'[c] = received[c]
          BY <4>1, <5>1 DEF With
        <5>2. CASE received'[c] = Append(received[c], ev[c])
          <6>1. CASE i \in DOMAIN received[c]
            BY <2>3, <5>2, <6>1, Elements DEF With
          <6>2. CASE i = Len(received[c]) + 1
            BY <2>1, <2>3, <5>2, <6>2, Elements DEF With
          <6>3. DOMAIN received'[c] = 1 .. Len(received[c]) + 1
            BY <2>3, <5>2, Elements
          <6>4. QED
            BY <1>e, <4>1, <6>1, <6>2, <6>3
        <5>3. QED
          BY <2>4, <5>1, <5>2
      <4>2. QED
        BY <2>5, <4>1 DEF With
    <3>3. QED
      BY <3>1, <3>2
  <2>7. TypeOK'
    BY <1>a, <2>1, <2>5 DEF RingInv, TypeOK
  <2>8. Newest' /\ OlderWithClients' /\ Disjoint'
    <3>1. Newest'
      BY <2>1, <2>2 DEF RingInv, Newest
    <3>2. OlderWithClients' /\ Disjoint'
      BY <1>a, <2>1, <2>2, <2>6 DEF OlderWithClients, Disjoint
    <3>3. QED
      BY <3>1, <3>2
  <2>9. ReadInOrder'
    <3>1. ASSUME NEW i \in DOMAIN received'[c], NEW j \in DOMAIN received'[c], i < j
          PROVE  received'[c][i] < received'[c][j]
      <4>1. CASE received'[c] = received[c]
        BY <1>a, <3>1, <4>1 DEF ReadInOrder
      <4>2. CASE received'[c] = Append(received[c], ev[c])
        <5>1. DOMAIN received'[c] = 1 .. Len(received[c]) + 1
          BY <2>3, <4>2, Elements
        <5>2. i \in DOMAIN received[c] /\ received'[c][i] = received[c][i]
          BY <1>e, <2>3, <3>1, <4>2, <5>1, Elements
        <5>3. CASE j \in DOMAIN received[c]
          <6>1. received'[c][j] = received[c][j]
            BY <2>3, <4>2, <5>3, Elements
          <6>2. QED
            BY <1>a, <3>1, <5>2, <5>3, <6>1 DEF ReadInOrder
        <5>4. CASE j = Len(received[c]) + 1
          BY <1>a, <2>1, <2>3, <4>2, <5>2, <5>4, Elements DEF ReadInOrder
        <5>5. QED
          BY <1>e, <3>1, <5>1, <5>3, <5>4
      <4>3. QED
        BY <2>4, <4>1, <4>2
    <3>2. QED
      BY <1>a, <2>5, <3>1 DEF ReadInOrder
  <2>10. QED
    BY <2>7, <2>8, <2>9 DEF RingInv
<1>4. CASE UNCHANGED vars
  <2>1. UNCHANGED <<events, head, tail, pushed, ev, received>>
    BY <1>4 DEF vars
  <2>2. UNCHANGED Contents /\ UNCHANGED Held /\ \A c \in Clients : With(c)' = With(c)
    BY <2>1 DEF Held, Contents, With
  <2>3. TypeOK' /\ Newest' /\ OlderWithClients'
    BY <2>1, <2>2 DEF RingInv, TypeOK, Newest, OlderWithClients
  <2>4. ReadInOrder' /\ Disjoint'
    BY <1>a, <2>1, <2>2 DEF ReadInOrder, Disjoint
  <2>5. QED
    BY <2>3, <2>4 DEF RingInv
<1>5. QED
  BY <1>1, <1>2, <1>3, <1>4 DEF Next

(* An event is given to one client, and a client reads its events in the order    *)
(* they happened, although the pop and the write to the socket are separate steps,  *)
(* for any size of the ring and any number of clients.                         *)
THEOREM EventsOnce == KernelSpec => []EventsDeliveredOnce
<1>1. RingInv => EventsDeliveredOnce
  <2> SUFFICES ASSUME RingInv PROVE EventsDeliveredOnce
    OBVIOUS
  <2>1. Held \in 0 .. MAX_EVENTS - 1 /\ pushed \in Nat /\ MAX_EVENTS \in Nat
    <3>1. head \in Slots /\ tail \in Slots /\ MAX_EVENTS \in Nat \ {0, 1}
      BY RingAssumption DEF RingInv, TypeOK
    <3>2. QED
      BY <3>1, RingDistance DEF Held, Slots, RingInv, TypeOK
  <2>2. ASSUME NEW c \in Clients, NEW i \in 1 .. Held PROVE Contents[i] \notin With(c)
    <3>1. Contents[i] = pushed - Held + i
      BY DEF RingInv, Newest
    <3>2. ~(Contents[i] <= pushed - Held)
      BY <2>1, <3>1
    <3>3. QED
      BY <3>2 DEF RingInv, OlderWithClients
  <2>3. QED
    BY <2>2 DEF RingInv, EventsDeliveredOnce, DeliveredOnce, ReadInOrder, Disjoint
<1>2. QED
  BY <1>1, RingInvInit, EventStep, RingInvNext, PTL DEF KernelSpec

(* The numbers n - k + 1 .. n, which the ring holds.                            *)
Last(n, k) == [i \in 1 .. k |-> n - k + i]

LEMMA LastNumbers ==
  ASSUME NEW n \in Nat, NEW k \in Nat
  PROVE  /\ Last(n, k) \in Seq(Int) /\ Len(Last(n, k)) = k
         /\ k = 0 => Last(n, k) = <<>>
         /\ Append(Last(n, k), n + 1) = Last(n + 1, k + 1)
         /\ k # 0 => Tail(Last(n, k)) = Last(n, k - 1)
         /\ k # 0 => Append(Tail(Last(n, k)), n + 1) = Last(n + 1, k)
<1>1. ASSUME NEW m \in Nat, NEW j \in Nat
      PROVE  Last(m, j) \in Seq(Int) /\ Len(Last(m, j)) = j
  BY DEF Last
<1>2. ASSUME NEW m \in Nat, NEW j \in Nat
      PROVE  Append(Last(m, j), m + 1) = Last(m + 1, j + 1)
  BY <1>1, SMTT(30) DEF Last
<1>3. k # 0 => Tail(Last(n, k)) = Last(n, k - 1)
  BY <1>1 DEF Last
<1>4. ASSUME k # 0 PROVE Append(Tail(Last(n, k)), n + 1) = Last(n + 1, k)
  <2>1. k - 1 \in Nat /\ (k - 1) + 1 = k
    BY <1>4
  <2>2. Append(Last(n, k - 1), n + 1) = Last(n + 1, (k - 1) + 1)
    BY <1>2, <2>1, Zenon
  <2>3. QED
    BY <1>3, <1>4, <2>1, <2>2
<1>5. k = 0 => Last(n, k) = <<>>
  BY <1>1 DEF Last
<1>6. QED
  BY <1>1, <1>2, <1>3, <1>4, <1>5

HeldLast ==
  /\ Contents = Last(pushed, Held) /\ Held \in 0 .. MAX_EVENTS - 1
  /\ pushed \in 0 .. MaxSerial

(* The event buffer promises what BoundedFifo says: each event once, in the order  *)
(* of the pushes, and a full buffer gives up its oldest one.                   *)
THEOREM EventsImplementFifo == KernelSpec => ImplementsFifo
<1>1. RingInv => HeldLast
  <2> SUFFICES ASSUME RingInv PROVE HeldLast
    OBVIOUS
  <2>1. /\ head \in Slots /\ tail \in Slots /\ MAX_EVENTS \in Nat \ {0, 1}
        /\ pushed \in 0 .. MaxSerial /\ MaxSerial \in Nat
    BY RingAssumption DEF RingInv, TypeOK
  <2>2. Held \in 0 .. MAX_EVENTS - 1
    BY <2>1, RingDistance DEF Held, Slots
  <2>3. /\ Contents = [i \in 1 .. Held |-> events[(tail + i - 1) % MAX_EVENTS]]
        /\ \A i \in 1 .. Held : Contents[i] = pushed - Held + i
    BY DEF Contents, RingInv, Newest
  <2>4. Contents = Last(pushed, Held)
    BY <2>1, <2>2, <2>3 DEF Last
  <2>5. QED
    BY <2>1, <2>2, <2>4 DEF HeldLast
<1>2. KernelInit => Fifo!Init
  <2> SUFFICES ASSUME KernelInit PROVE Fifo!Init
    OBVIOUS
  <2>1. Init /\ 0 \in Slots
    BY RingAssumption DEF KernelInit, Slots
  <2>2. Held = 0
    BY <2>1, RingDistance DEF Init, Held
  <2>3. QED
    BY <2>2 DEF Fifo!Init, Contents
<1>3. RingInv /\ HeldLast /\ HeldLast' /\ [Next]_vars => [Fifo!Next]_Contents
  <2> SUFFICES ASSUME RingInv, HeldLast, HeldLast', [Next]_vars
               PROVE  [Fifo!Next]_Contents
    OBVIOUS
  <2>a. /\ Contents = Last(pushed, Held) /\ Held \in 0 .. MAX_EVENTS - 1
        /\ pushed \in 0 .. MaxSerial /\ MAX_EVENTS \in Nat \ {0, 1} /\ MaxSerial \in Nat
    BY RingAssumption DEF HeldLast
  <2>b. /\ Contents' = Last(pushed', Held') /\ Held' \in 0 .. MAX_EVENTS - 1
        /\ pushed' \in 0 .. MaxSerial
    BY DEF HeldLast
  <2>1. CASE push_event
    <3>1. /\ pushed' = pushed + 1
          /\ \/ Held < MAX_EVENTS - 1 /\ Held' = Held + 1
             \/ Held = MAX_EVENTS - 1 /\ Held' = Held
      BY <2>1, PushHeld DEF push_event
    <3>2. pushed + 1 \in Serials
      BY <2>a, <2>b, <3>1 DEF Serials
    <3>3. Fifo!Put(pushed + 1)
      <4>1. pushed \in Nat /\ Held \in Nat
        BY <2>a
      <4>2. Len(Contents) = Held
        BY <2>a, <4>1, LastNumbers
      <4>3. CASE Held < MAX_EVENTS - 1 /\ Held' = Held + 1
        BY <2>a, <2>b, <3>1, <4>1, <4>2, <4>3, LastNumbers DEF Fifo!Put
      <4>4. CASE Held = MAX_EVENTS - 1 /\ Held' = Held
        <5>1. Contents' = Append(Tail(Contents), pushed + 1)
          <6>1. Held # 0
            BY <2>a, <4>4
          <6>2. Append(Tail(Last(pushed, Held)), pushed + 1) = Last(pushed + 1, Held)
            BY <4>1, <6>1, LastNumbers
          <6>3. QED
            BY <2>a, <2>b, <3>1, <4>4, <6>2
        <5>2. QED
          BY <4>2, <4>4, <5>1 DEF Fifo!Put
      <4>5. QED
        BY <3>1, <4>3, <4>4
    <3>4. QED
      BY <3>2, <3>3 DEF Fifo!Next
  <2>2. ASSUME NEW c \in Clients, pop_event(c) PROVE Fifo!Next
    <3>1. Held > 0 /\ Held' = Held - 1 /\ pushed' = pushed
      BY <2>2, PopHeld
    <3>2. Fifo!Take
      <4>1. pushed \in Nat /\ Held \in Nat /\ Held # 0
        BY <2>a, <3>1
      <4>2. Contents # <<>>
        BY <2>a, <4>1, LastNumbers
      <4>3. Contents' = Tail(Contents)
        BY <2>a, <2>b, <3>1, <4>1, LastNumbers
      <4>4. QED
        BY <4>2, <4>3 DEF Fifo!Take
    <3>3. QED
      BY <3>2 DEF Fifo!Next
  <2>3. ASSUME NEW c \in Clients, Reply(c) PROVE UNCHANGED Contents
    BY <2>3 DEF Reply, Contents, Held
  <2>4. CASE UNCHANGED vars
    BY <2>4 DEF vars, Contents, Held
  <2>5. QED
    BY <2>1, <2>2, <2>3, <2>4 DEF Next
<1>4. QED
  BY <1>1, <1>2, <1>3, RingInvInit, EventStep, RingInvNext, PTL
  DEF KernelSpec, ImplementsFifo, Fifo!Spec

-----------------------------------------------------------------------------
(* The file system.  The inductive invariant of SoiavFs is about the directory's   *)
(* buffer rather than the disk: the disk holds a beginning of it, its entries have  *)
(* numbers of their own, in the order of the creates, and the create under way has  *)
(* a number that none of them has and an inode that is written unless the write     *)
(* was refused.                                                            *)
DirEntries ==
  [name : Names \union {".", ".."}, ino : Inos \union {2}, id : Nat]

FileTypes ==
  /\ Volume!TypeOK
  /\ creates \in Nat /\ faults \in Nat
  /\ dir \in Seq(DirEntries) /\ dirBuffer \in Seq(DirEntries)
  /\ stage = "formatting" => creates = 0

CallTypes ==
  call # Volume!NoCall =>
    /\ stage = "mounted"
    /\ call.id = creates /\ creates # 0
    /\ call.name \in Names /\ call.ino \in Inos

DiskPrefix ==
  Len(dir) <= Len(dirBuffer) /\ \A k \in 1 .. Len(dir) : dir[k] = dirBuffer[k]

InOrder(d) ==
  \A j, k \in 1 .. Len(d) : j < k => d[j].id < d[k].id \/ d[j].id = 0

OwnInodes(d) ==
  /\ \A e \in Volume!Files(d) :
       /\ e.ino \in Inos /\ e.id \in 1 .. creates
       /\ inode[e.ino] = e.id \/ e.id \in refused
       /\ call # Volume!NoCall => e.ino # call.ino /\ e.id < call.id
  /\ \A e, f \in Volume!Files(d) : e.ino = f.ino => e = f

CallBacked == call # Volume!NoCall => inode[call.ino] = call.id \/ call.id \in refused

Kept == \A c \in created \ refused : \E e \in Volume!Files(dir) : e.id = c

LeftOver == {i \in Inos : inode[i] # 0 /\ \A e \in Volume!Files(dir) : e.ino # i}
LeftByFaults ==
  /\ IsFiniteSet(LeftOver)
  /\ IF call = Volume!NoCall THEN Cardinality(LeftOver) <= faults
     ELSE Cardinality(LeftOver \ {call.ino}) <= faults

FileInv ==
  /\ FileTypes /\ CallTypes /\ DiskPrefix
  /\ InOrder(dirBuffer) /\ OwnInodes(dirBuffer)
  /\ CallBacked /\ Kept /\ LeftByFaults

LEMMA FileStep == [KernelNext]_kernelVars => [Volume!Next]_(Volume!vars)
BY DEF KernelNext, Played, kernelVars, fsVars, Volume!vars

LEMMA FilesOfPrefix ==
  ASSUME FileTypes, DiskPrefix
  PROVE  /\ Volume!Files(dir) \subseteq Volume!Files(dirBuffer)
         /\ InOrder(dirBuffer) => InOrder(dir)
         /\ OwnInodes(dirBuffer) => OwnInodes(dir)
<1>1. /\ DOMAIN dir = 1 .. Len(dir) /\ DOMAIN dirBuffer = 1 .. Len(dirBuffer)
      /\ Len(dir) \in Nat /\ Len(dirBuffer) \in Nat /\ Len(dir) <= Len(dirBuffer)
  BY Elements DEF FileTypes, DiskPrefix
<1>2. Volume!Files(dir) \subseteq Volume!Files(dirBuffer)
  BY <1>1 DEF DiskPrefix, Volume!Files, Volume!Entries
<1>3. InOrder(dirBuffer) => InOrder(dir)
  BY <1>1 DEF DiskPrefix, InOrder
<1>4. OwnInodes(dirBuffer) => OwnInodes(dir)
  BY <1>2 DEF OwnInodes
<1>5. QED
  BY <1>2, <1>3, <1>4

LEMMA FilesOfAppend ==
  ASSUME NEW d \in Seq(DirEntries), NEW e \in DirEntries, e.id # 0
  PROVE  Volume!Files(Append(d, e)) = Volume!Files(d) \union {e}
<1>1. /\ DOMAIN d = 1 .. Len(d) /\ Len(d) \in Nat
      /\ DOMAIN Append(d, e) = 1 .. Len(d) + 1 /\ Append(d, e)[Len(d) + 1] = e
      /\ \A k \in DOMAIN d : Append(d, e)[k] = d[k]
  BY Elements
<1>2. Volume!Entries(Append(d, e)) = Volume!Entries(d) \union {e}
  BY <1>1 DEF Volume!Entries
<1>3. QED
  BY <1>2 DEF Volume!Files

LEMMA Zeros ==
  ASSUME NEW s \in Seq([name : Names, ino : Inos, id : {0}])
  PROVE  /\ Len(s) \in Nat /\ s \in Seq(DirEntries)
         /\ \A k \in 1 .. Len(s) : s[k].id = 0
<1> DEFINE T == [name : Names, ino : Inos, id : {0}]
<1>2. \A e \in T : e \in DirEntries /\ e.id = 0
  BY DEF DirEntries
<1>3. s \in Seq(T)
  OBVIOUS
<1> HIDE DEF T
<1>4. Len(s) \in Nat /\ \A k \in 1 .. Len(s) : s[k] \in T
  BY <1>3
<1>5. s = [k \in 1 .. Len(s) |-> s[k]]
  BY <1>3
<1>6. QED
  BY <1>2, <1>3, <1>4, <1>5

LEMMA Joined ==
  ASSUME NEW S, NEW s \in Seq(S), NEW t \in Seq(S)
  PROVE  /\ s \o t \in Seq(S) /\ Len(s \o t) = Len(s) + Len(t)
         /\ \A k \in 1 .. Len(s) + Len(t) :
              (s \o t)[k] = IF k <= Len(s) THEN s[k] ELSE t[k - Len(s)]
OBVIOUS

LEMMA FileInvInit == KernelInit => FileInv
<1> SUFFICES ASSUME KernelInit PROVE FileInv
  OBVIOUS
<1>1. Volume!Init
  BY DEF KernelInit
<1>2. super \in BOOLEAN /\ root \in BOOLEAN
  BY <1>1, Zenon DEF Volume!Init
<1>f. /\ dir \in Seq(DirEntries) /\ \A k \in 1 .. Len(dir) : dir[k].id = 0
      /\ DOMAIN dir = 1 .. Len(dir) /\ dirBuffer = dir
  <2>1. CASE dir = <<>>
    BY <1>1, <2>1 DEF Volume!Init
  <2>2. ASSUME NEW old \in Former, dir = Volume!Dots \o old
        PROVE  /\ dir \in Seq(DirEntries) /\ \A k \in 1 .. Len(dir) : dir[k].id = 0
               /\ DOMAIN dir = 1 .. Len(dir)
    <3>1. old \in Seq([name : Names, ino : Inos, id : {0}])
      BY VolumeAssumed DEF Volume!FsAssumption
    <3>2. /\ Len(old) \in Nat /\ old \in Seq(DirEntries)
          /\ \A k \in 1 .. Len(old) : old[k].id = 0
      BY <3>1, Zeros DEF DirEntries
    <3>3. /\ Volume!Dots \in Seq(DirEntries) /\ Len(Volume!Dots) = 2
          /\ Volume!Dots[1].id = 0 /\ Volume!Dots[2].id = 0
      BY DEF Volume!Dots, DirEntries
    <3>4. /\ Len(dir) = 2 + Len(old) /\ dir \in Seq(DirEntries)
          /\ \A k \in 1 .. Len(dir) : dir[k] = IF k <= 2 THEN Volume!Dots[k] ELSE old[k - 2]
      <4> DEFINE dots == Volume!Dots
                 E == DirEntries
      <4>1. dir = dots \o old /\ dots \in Seq(E) /\ old \in Seq(E) /\ Len(dots) = 2
        BY <2>2, <3>2, <3>3
      <4> HIDE DEF dots, E
      <4>a. dir \in Seq(E)
        BY ONLY <4>1, Joined, Zenon
      <4>b. Len(dir) = Len(dots) + Len(old)
        BY ONLY <4>1, Joined, Zenon
      <4>2. Len(dir) = 2 + Len(old) /\ dir \in Seq(E)
        BY ONLY <4>1, <4>a, <4>b
      <4>3. \A k \in 1 .. Len(dir) : dir[k] = IF k <= 2 THEN dots[k] ELSE old[k - 2]
        BY ONLY <4>1, <4>2, Joined
      <4>4. QED
        BY <4>2, <4>3 DEF dots, E
    <3>5. \A k \in 1 .. Len(dir) : dir[k].id = 0
      <4> SUFFICES ASSUME NEW k \in 1 .. Len(dir) PROVE dir[k].id = 0
        OBVIOUS
      <4>1. CASE k = 1 \/ k = 2
        BY <3>3, <3>4, <4>1
      <4>2. CASE k > 2
        <5>1. k - 2 \in 1 .. Len(old) /\ ~(k <= 2)
          BY <3>2, <3>4, <4>2
        <5>2. QED
          BY <3>2, <3>4, <5>1
      <4>3. QED
        BY <4>1, <4>2
    <3>6. QED
      BY <3>4, <3>5
  <2>3. QED
    BY <1>1, <2>1, <2>2 DEF Volume!Init
<1>g. Volume!Files(dir) = {} /\ Volume!Files(dirBuffer) = {}
  <2>1. \A e \in Volume!Entries(dir) : e.id = 0
    BY <1>f DEF Volume!Entries
  <2>2. QED
    BY <1>f, <2>1 DEF Volume!Files
<1>3. FileTypes
  <2>1. /\ stage = "formatting" /\ creates = 0 /\ faults = 0 /\ created = {} /\ refused = {}
        /\ dentries = {} /\ inode = [i \in Inos |-> 0] /\ inodeBuffer = inode
    BY <1>1 DEF Volume!Init
  <2>2. /\ inode \in [Inos -> 0 .. creates] /\ inodeBuffer \in [Inos -> 0 .. creates]
        /\ dentries \subseteq Names /\ creates \in Nat /\ faults \in Nat
        /\ created \subseteq 1 .. creates /\ refused \subseteq 1 .. creates
    BY <2>1
  <2>3. dirBuffer \in Seq(DirEntries) /\ dir \in Seq(DirEntries)
    BY <1>f
  <2>4. Volume!TypeOK
    BY <1>2, <2>1, <2>2 DEF Volume!TypeOK
  <2>5. QED
    BY ONLY <2>1, <2>2, <2>3, <2>4, Zenon DEF FileTypes
<1>4. CallTypes /\ CallBacked /\ DiskPrefix /\ InOrder(dirBuffer)
  <2>1. call = Volume!NoCall
    BY <1>1 DEF Volume!Init
  <2>2. CallTypes /\ CallBacked
    BY <2>1 DEF CallTypes, CallBacked
  <2>3. DiskPrefix
    <3>1. Len(dir) \in Nat
      BY <1>f, Elements
    <3>2. QED
      BY <1>f, <3>1 DEF DiskPrefix
  <2>4. InOrder(dirBuffer)
    BY <1>f DEF InOrder
  <2>5. QED
    BY <2>2, <2>3, <2>4
<1>5. OwnInodes(dirBuffer) /\ Kept
  BY <1>1, <1>g DEF Volume!Init, OwnInodes, Kept
<1>6. LeftByFaults
  <2>1. LeftOver = {}
    BY <1>1 DEF Volume!Init, LeftOver
  <2>2. QED
    BY <1>1, <2>1, FS_EmptySet DEF Volume!Init, LeftByFaults
<1>7. QED
  BY <1>3, <1>4, <1>5, <1>6 DEF FileInv

(* The directory's buffer is read from the disk again.                         *)
LEMMA BufferReread ==
  ASSUME FileInv, dirBuffer' = dir,
         UNCHANGED <<dir, inode, call, creates, faults, created, refused>>
  PROVE  /\ DiskPrefix' /\ InOrder(dirBuffer)' /\ OwnInodes(dirBuffer)'
         /\ CallBacked' /\ Kept' /\ LeftByFaults'
<1>1. InOrder(dir) /\ OwnInodes(dir)
  BY FilesOfPrefix DEF FileInv
<1>2. DiskPrefix'
  BY Elements DEF DiskPrefix, FileInv, FileTypes
<1>3. InOrder(dirBuffer)' /\ OwnInodes(dirBuffer)'
  BY <1>1 DEF InOrder, OwnInodes, Volume!Files, Volume!Entries
<1>4. CallBacked' /\ Kept'
  BY DEF FileInv, CallBacked, Kept, Volume!Files, Volume!Entries
<1>5. LeftByFaults'
  <2>1. LeftOver' = LeftOver
    BY DEF LeftOver, Volume!Files, Volume!Entries
  <2>2. QED
    BY <2>1 DEF FileInv, LeftByFaults
<1>6. QED
  BY <1>2, <1>3, <1>4, <1>5

LEMMA NumbersGrow ==
  ASSUME NEW n \in Nat, NEW S \in SUBSET (1 .. n)
  PROVE  /\ S \in SUBSET (1 .. n + 1) /\ S \union {n + 1} \in SUBSET (1 .. n + 1)
         /\ n # 0 => S \union {n} \in SUBSET (1 .. n)
OBVIOUS

LEMMA CreateInodeKeeps ==
  ASSUME FileInv, NEW name \in Names, NEW ino \in Volume!FreeInos,
         Volume!create_inode(name, ino)
  PROVE  FileInv'
<1>a. /\ FileTypes /\ CallTypes /\ DiskPrefix
      /\ InOrder(dirBuffer) /\ OwnInodes(dirBuffer)
      /\ CallBacked /\ Kept /\ LeftByFaults
  BY DEF FileInv
<1>1. /\ stage = "mounted" /\ call = Volume!NoCall
      /\ creates' = creates + 1
      /\ call' = [id |-> creates', name |-> name, ino |-> ino]
      /\ inodeBuffer' = [inodeBuffer EXCEPT ![ino] = creates']
      /\ UNCHANGED <<super, root, dir, dirBuffer, stage, dentries, created>>
  BY DEF Volume!create_inode
<1>2. \/ /\ inode' = [inode EXCEPT ![ino] = creates + 1]
         /\ faults' = faults /\ refused' = refused
      \/ inode' = inode /\ faults' = faults + 1 /\ refused' = refused \union {creates + 1}
  BY <1>1 DEF Volume!create_inode, Volume!Synced
<1>3. /\ creates \in Nat /\ faults \in Nat /\ inode \in [Inos -> 0 .. creates]
      /\ inodeBuffer \in [Inos -> 0 .. creates]
      /\ created \subseteq 1 .. creates /\ refused \subseteq 1 .. creates
  BY <1>a DEF FileTypes, Volume!TypeOK
<1>4. ino \in Inos /\ \A e \in Volume!Files(dirBuffer) : e.ino # ino
  BY DEF Volume!FreeInos, Volume!Files, Volume!Entries
<1>5. /\ call'.id = creates + 1 /\ call'.name = name /\ call'.ino = ino
      /\ call' # Volume!NoCall
  <2>1. call'.id = creates + 1 /\ call'.name = name /\ call'.ino = ino
    BY <1>1
  <2>2. creates + 1 # 0 /\ Volume!NoCall.id = 0
    BY <1>3 DEF Volume!NoCall
  <2>3. QED
    BY <2>1, <2>2
<1>6. FileTypes'
  <2>1. inode' \in [Inos -> 0 .. creates'] /\ inodeBuffer' \in [Inos -> 0 .. creates']
    BY <1>1, <1>2, <1>3, <1>4
  <2>2. created' \subseteq 1 .. creates' /\ refused' \subseteq 1 .. creates'
    <3>1. /\ created \in SUBSET (1 .. creates + 1) /\ refused \in SUBSET (1 .. creates + 1)
          /\ refused \union {creates + 1} \in SUBSET (1 .. creates + 1)
      BY <1>3, NumbersGrow
    <3>2. QED
      BY <1>1, <1>2, <3>1
  <2>3. creates' \in Nat /\ faults' \in Nat
    BY <1>1, <1>2, <1>3
  <2>4. QED
    BY <1>a, <1>1, <2>1, <2>2, <2>3 DEF FileTypes, Volume!TypeOK
<1>7. CallTypes'
  BY <1>1, <1>3, <1>4, <1>5 DEF CallTypes
<1>8. DiskPrefix' /\ InOrder(dirBuffer)'
  BY <1>a, <1>1 DEF DiskPrefix, InOrder
<1>9. Volume!Files(dirBuffer)' = Volume!Files(dirBuffer)
      /\ Volume!Files(dir)' = Volume!Files(dir)
  BY <1>1 DEF Volume!Files, Volume!Entries
<1>10. OwnInodes(dirBuffer)'
  <2>1. ASSUME NEW e \in Volume!Files(dirBuffer)
        PROVE  /\ e.ino \in Inos /\ e.id \in 1 .. creates'
               /\ inode'[e.ino] = e.id \/ e.id \in refused'
               /\ e.ino # call'.ino /\ e.id < call'.id
    <3>1. e.ino \in Inos /\ e.id \in 1 .. creates /\ (inode[e.ino] = e.id \/ e.id \in refused)
      BY <1>a DEF OwnInodes
    <3>2. e.ino # ino
      BY <1>4
    <3>3. inode'[e.ino] = inode[e.ino]
      BY <1>2, <1>3, <3>1, <3>2
    <3>4. e.id \in 1 .. creates' /\ e.id < creates + 1
      BY <1>1, <1>3, <3>1
    <3>5. QED
      BY <1>2, <1>5, <3>1, <3>2, <3>3, <3>4
  <2>2. \A e, f \in Volume!Files(dirBuffer) : e.ino = f.ino => e = f
    BY <1>a DEF OwnInodes
  <2>3. QED
    BY <1>9, <2>1, <2>2 DEF OwnInodes
<1>11. CallBacked'
  BY <1>2, <1>3, <1>4, <1>5 DEF CallBacked
<1>12. Kept'
  BY <1>a, <1>1, <1>2, <1>9 DEF Kept
<1>13. LeftByFaults'
  <2>1. LeftOver' \subseteq LeftOver \union {ino}
    BY <1>2, <1>3, <1>4, <1>9 DEF LeftOver
  <2>2. IsFiniteSet(LeftOver) /\ Cardinality(LeftOver) \in Nat
        /\ Cardinality(LeftOver) <= faults
    BY <1>a, <1>1, FS_CardinalityType DEF LeftByFaults
  <2>3. IsFiniteSet(LeftOver')
    BY <2>1, <2>2, FS_AddElement, FS_Subset
  <2>4. LeftOver' \ {ino} \in SUBSET LeftOver
    BY <2>1
  <2>5. Cardinality(LeftOver' \ {ino}) <= Cardinality(LeftOver)
        /\ Cardinality(LeftOver' \ {ino}) \in Nat
    BY <2>2, <2>4, FS_Subset, FS_CardinalityType
  <2>6. Cardinality(LeftOver' \ {ino}) <= faults'
    BY <1>2, <1>3, <2>2, <2>5
  <2>7. QED
    BY <1>5, <2>3, <2>6 DEF LeftByFaults
<1>14. QED
  BY <1>6, <1>7, <1>8, <1>10, <1>11, <1>12, <1>13 DEF FileInv

LEMMA CreateEntryKeeps ==
  ASSUME FileInv, Volume!create_entry
  PROVE  FileInv'
<1>a. /\ FileTypes /\ CallTypes /\ DiskPrefix
      /\ InOrder(dirBuffer) /\ OwnInodes(dirBuffer)
      /\ CallBacked /\ Kept /\ LeftByFaults
  BY DEF FileInv
<1> DEFINE e == [name |-> call.name, ino |-> call.ino, id |-> call.id]
<1>1. /\ call # Volume!NoCall /\ call' = Volume!NoCall
      /\ dirBuffer' = Append(dirBuffer, e)
      /\ dentries' = dentries \union {call.name}
      /\ created' = created \union {call.id}
      /\ UNCHANGED <<super, root, inode, inodeBuffer, stage, creates>>
  BY DEF Volume!create_entry, Volume!Entry
<1>2. \/ dir' = dirBuffer' /\ faults' = faults /\ refused' = refused
      \/ dir' = dir /\ faults' = faults + 1 /\ refused' = refused \union {call.id}
  BY DEF Volume!create_entry, Volume!Synced
<1>3. /\ creates \in Nat /\ faults \in Nat /\ inode \in [Inos -> 0 .. creates]
      /\ created \subseteq 1 .. creates /\ refused \subseteq 1 .. creates
      /\ dirBuffer \in Seq(DirEntries) /\ dir \in Seq(DirEntries)
  BY <1>a DEF FileTypes, Volume!TypeOK
<1>4. /\ call.id = creates /\ creates # 0 /\ stage = "mounted"
      /\ call.name \in Names /\ call.ino \in Inos
  BY <1>a, <1>1 DEF CallTypes
<1>5. e \in DirEntries /\ e.id = creates /\ e.id # 0 /\ e.ino = call.ino
  BY <1>3, <1>4 DEF DirEntries
<1> HIDE DEF e
<1>6. /\ dirBuffer' \in Seq(DirEntries) /\ Len(dirBuffer) \in Nat
      /\ Len(dirBuffer') = Len(dirBuffer) + 1
      /\ DOMAIN dirBuffer = 1 .. Len(dirBuffer)
      /\ dirBuffer'[Len(dirBuffer) + 1] = e
      /\ \A k \in 1 .. Len(dirBuffer) : dirBuffer'[k] = dirBuffer[k]
  BY <1>1, <1>3, <1>5, Elements
<1>7. /\ Volume!Files(dirBuffer)' = Volume!Files(dirBuffer) \union {e}
      /\ \/ Volume!Files(dir)' = Volume!Files(dirBuffer) \union {e}
         \/ Volume!Files(dir)' = Volume!Files(dir)
      /\ Volume!Files(dir) \subseteq Volume!Files(dirBuffer)
  <2>1. Volume!Files(Append(dirBuffer, e)) = Volume!Files(dirBuffer) \union {e}
    BY <1>3, <1>5, FilesOfAppend
  <2>2. Volume!Files(dir) \subseteq Volume!Files(dirBuffer)
    BY <1>a, FilesOfPrefix
  <2>3. Volume!Files(dirBuffer)' = Volume!Files(Append(dirBuffer, e))
    BY <1>1 DEF Volume!Files, Volume!Entries
  <2>4. dir' = dirBuffer' => Volume!Files(dir)' = Volume!Files(dirBuffer)'
    BY DEF Volume!Files, Volume!Entries
  <2>5. dir' = dir => Volume!Files(dir)' = Volume!Files(dir)
    BY DEF Volume!Files, Volume!Entries
  <2>6. QED
    BY <1>2, <2>1, <2>2, <2>3, <2>4, <2>5
<1>8. FileTypes'
  <2>1. dir' \in Seq(DirEntries) /\ faults' \in Nat /\ dentries' \subseteq Names
    <3>1. dentries \subseteq Names
      BY <1>a DEF FileTypes, Volume!TypeOK
    <3>2. dentries' \subseteq Names
      BY <1>1, <1>4, <3>1
    <3>3. dir' \in Seq(DirEntries) /\ faults' \in Nat
      BY <1>2, <1>3, <1>6
    <3>4. QED
      BY <3>2, <3>3
  <2>2. created' \subseteq 1 .. creates' /\ refused' \subseteq 1 .. creates'
    <3>1. /\ created \union {creates} \in SUBSET (1 .. creates)
          /\ refused \union {creates} \in SUBSET (1 .. creates)
      BY <1>3, <1>4, NumbersGrow
    <3>2. QED
      BY <1>1, <1>2, <1>3, <1>4, <3>1
  <2>3. QED
    BY <1>a, <1>1, <1>4, <1>6, <2>1, <2>2 DEF FileTypes, Volume!TypeOK
<1>9. CallTypes' /\ CallBacked'
  BY <1>1 DEF CallTypes, CallBacked
<1>10. DiskPrefix'
  <2>1. CASE dir' = dirBuffer'
    BY <1>6, <2>1 DEF DiskPrefix
  <2>2. CASE dir' = dir
    <3>1. Len(dir) \in Nat
      BY <1>3
    <3>2. QED
      BY <1>a, <1>6, <2>2, <3>1 DEF DiskPrefix
  <2>3. QED
    BY <1>2, <2>1, <2>2
<1>11. InOrder(dirBuffer)'
  <2>1. \A k \in 1 .. Len(dirBuffer) : dirBuffer[k].id # 0 => dirBuffer[k].id < e.id
    <3>1. ASSUME NEW k \in 1 .. Len(dirBuffer), dirBuffer[k].id # 0
          PROVE  dirBuffer[k].id < e.id
      <4>1. dirBuffer[k] \in Volume!Files(dirBuffer)
        BY <1>6, <3>1 DEF Volume!Files, Volume!Entries
      <4>2. QED
        BY <1>a, <1>1, <1>4, <1>5, <4>1 DEF OwnInodes
    <3>2. QED
      BY <3>1
  <2>2. ASSUME NEW j \in 1 .. Len(dirBuffer'), NEW k \in 1 .. Len(dirBuffer'), j < k
        PROVE  dirBuffer'[j].id < dirBuffer'[k].id \/ dirBuffer'[j].id = 0
    <3>1. j \in 1 .. Len(dirBuffer) /\ dirBuffer'[j] = dirBuffer[j]
      BY <1>6, <2>2
    <3>2. CASE k \in 1 .. Len(dirBuffer)
      BY <1>a, <1>6, <2>2, <3>1, <3>2 DEF InOrder
    <3>3. CASE k = Len(dirBuffer) + 1
      BY <1>6, <2>1, <3>1, <3>3
    <3>4. QED
      BY <1>6, <3>2, <3>3
  <2>3. QED
    BY <2>2 DEF InOrder
<1>12. OwnInodes(dirBuffer)'
  <2>1. /\ e.ino \in Inos /\ e.id \in 1 .. creates
        /\ inode[e.ino] = e.id \/ e.id \in refused
    BY <1>a, <1>1, <1>3, <1>4, <1>5 DEF CallBacked
  <2>2. \A f \in Volume!Files(dirBuffer) :
          /\ f.ino \in Inos /\ f.id \in 1 .. creates /\ f.ino # e.ino
          /\ inode[f.ino] = f.id \/ f.id \in refused
    BY <1>a, <1>1, <1>5 DEF OwnInodes
  <2>3. \A f, g \in Volume!Files(dirBuffer) : f.ino = g.ino => f = g
    BY <1>a DEF OwnInodes
  <2>4. refused \subseteq refused'
    BY <1>2
  <2>5. QED
    BY <1>1, <1>7, <2>1, <2>2, <2>3, <2>4 DEF OwnInodes
<1>13. Kept'
  <2>1. CASE dir' = dirBuffer' /\ refused' = refused
    <3>1. Volume!Files(dir)' = Volume!Files(dirBuffer) \union {e}
      BY <1>7, <2>1 DEF Volume!Files, Volume!Entries
    <3>2. QED
      BY <1>a, <1>1, <1>4, <1>5, <1>7, <2>1, <3>1 DEF Kept
  <2>2. CASE dir' = dir /\ refused' = refused \union {call.id}
    <3>1. Volume!Files(dir)' = Volume!Files(dir)
      BY <2>2 DEF Volume!Files, Volume!Entries
    <3>2. QED
      BY <1>a, <1>1, <2>2, <3>1 DEF Kept
  <2>3. QED
    BY <1>2, <2>1, <2>2
<1>14. LeftByFaults'
  <2>1. /\ IsFiniteSet(LeftOver) /\ Cardinality(LeftOver \ {call.ino}) <= faults
        /\ IsFiniteSet(LeftOver \ {call.ino})
        /\ Cardinality(LeftOver \ {call.ino}) \in Nat
    BY <1>a, <1>1, FS_RemoveElement, FS_CardinalityType DEF LeftByFaults
  <2>2. CASE dir' = dirBuffer' /\ faults' = faults
    <3>1. Volume!Files(dir)' = Volume!Files(dirBuffer) \union {e}
      BY <1>7, <2>2 DEF Volume!Files, Volume!Entries
    <3>2. LeftOver' \in SUBSET (LeftOver \ {call.ino})
      BY <1>1, <1>5, <1>7, <3>1 DEF LeftOver
    <3>3. /\ IsFiniteSet(LeftOver') /\ Cardinality(LeftOver') \in Nat
          /\ Cardinality(LeftOver') <= Cardinality(LeftOver \ {call.ino})
      BY <2>1, <3>2, FS_Subset, FS_CardinalityType
    <3>4. QED
      BY <1>1, <1>3, <2>1, <2>2, <3>3 DEF LeftByFaults
  <2>3. CASE dir' = dir /\ faults' = faults + 1
    <3>1. LeftOver' = LeftOver
      BY <1>1, <2>3 DEF LeftOver, Volume!Files, Volume!Entries
    <3>2. Cardinality(LeftOver) <= faults + 1
      <4>1. Cardinality(LeftOver \ {call.ino}) =
              IF call.ino \in LeftOver THEN Cardinality(LeftOver) - 1
              ELSE Cardinality(LeftOver)
        BY <2>1, FS_RemoveElement
      <4>2. Cardinality(LeftOver) \in Nat
        BY <2>1, FS_CardinalityType
      <4>3. QED
        BY <1>3, <2>1, <4>1, <4>2
    <3>3. QED
      BY <1>1, <2>1, <2>3, <3>1, <3>2 DEF LeftByFaults
  <2>4. QED
    BY <1>2, <2>2, <2>3
<1>15. QED
  BY <1>8, <1>9, <1>10, <1>11, <1>12, <1>13, <1>14 DEF FileInv

LEMMA FileInvNext == FileInv /\ [Volume!Next]_(Volume!vars) => FileInv'
<1> SUFFICES ASSUME FileInv, [Volume!Next]_(Volume!vars) PROVE FileInv'
  OBVIOUS
<1>a. /\ FileTypes /\ CallTypes /\ DiskPrefix
      /\ InOrder(dirBuffer) /\ OwnInodes(dirBuffer)
      /\ CallBacked /\ Kept /\ LeftByFaults
  BY DEF FileInv
<1>1. CASE Volume!soiavfs_format
  <2>1. /\ stage = "formatting" /\ call = Volume!NoCall
        /\ UNCHANGED <<inode, inodeBuffer, dentries, call, creates, faults, created, refused>>
    BY <1>1, <1>a DEF Volume!soiavfs_format, Volume!histories, CallTypes
  <2>2. CASE dir' = Volume!Dots /\ dirBuffer' = Volume!Dots
    <3>1. creates = 0 /\ inode \in [Inos -> 0 .. creates] /\ created \subseteq 1 .. creates
      BY <1>a, <2>1 DEF FileTypes, Volume!TypeOK
    <3>2. /\ Volume!Dots \in Seq(DirEntries) /\ Len(Volume!Dots) = 2
          /\ Volume!Dots[1].id = 0 /\ Volume!Dots[2].id = 0
      BY DEF Volume!Dots, DirEntries
    <3>3. Volume!Files(dirBuffer)' = {}
      BY <2>2, <3>2 DEF Volume!Files, Volume!Entries, Volume!Dots
    <3>4. super' \in BOOLEAN /\ root' \in BOOLEAN
      BY <1>1, <1>a, Zenon DEF Volume!soiavfs_format, FileTypes, Volume!TypeOK
    <3>5. stage' = "formatting" \/ stage' = "unmounted"
      BY <1>1, <2>1 DEF Volume!soiavfs_format
    <3>6. FileTypes'
      BY <1>a, <2>1, <2>2, <3>1, <3>2, <3>4, <3>5 DEF FileTypes, Volume!TypeOK
    <3>7. CallTypes' /\ CallBacked' /\ DiskPrefix'
      BY <2>1, <2>2 DEF CallTypes, CallBacked, DiskPrefix
    <3>8. InOrder(dirBuffer)' /\ OwnInodes(dirBuffer)' /\ Kept'
      <4>1. InOrder(dirBuffer)'
        BY <2>2, <3>2 DEF InOrder
      <4>2. OwnInodes(dirBuffer)'
        BY <3>3 DEF OwnInodes
      <4>3. Kept'
        BY <2>1, <3>1 DEF Kept
      <4>4. QED
        BY <4>1, <4>2, <4>3
    <3>9. LeftByFaults'
      <4>1. LeftOver' = {} /\ LeftOver' \in SUBSET LeftOver
        BY <2>1, <3>1 DEF LeftOver
      <4>2. QED
        BY <1>a, <2>1, <4>1, FS_EmptySet DEF LeftByFaults, FileTypes
    <3>10. QED
      BY <3>6, <3>7, <3>8, <3>9 DEF FileInv
  <2>3. CASE /\ UNCHANGED dir
             /\ dirBuffer' = dirBuffer \/ dirBuffer' = dir
             /\ stage' \in {"formatting", "unmounted"}
    <3>1. super' \in BOOLEAN /\ root' \in BOOLEAN
      BY <1>1, <1>a, Zenon DEF Volume!soiavfs_format, FileTypes, Volume!TypeOK
    <3>2. FileTypes' /\ CallTypes'
      BY <1>a, <2>1, <2>3, <3>1 DEF FileTypes, Volume!TypeOK, CallTypes
    <3>3. CASE dirBuffer' = dirBuffer
      <4>1. DiskPrefix' /\ InOrder(dirBuffer)' /\ OwnInodes(dirBuffer)' /\ CallBacked'
        BY <1>a, <2>1, <2>3, <3>3
        DEF DiskPrefix, InOrder, OwnInodes, CallBacked, Volume!Files, Volume!Entries
      <4>2. Kept' /\ LeftByFaults'
        BY <1>a, <2>1, <2>3
        DEF Kept, LeftByFaults, LeftOver, Volume!Files, Volume!Entries
      <4>3. QED
        BY <3>2, <4>1, <4>2 DEF FileInv
    <3>4. CASE dirBuffer' = dir
      BY <2>1, <2>3, <3>2, <3>4, BufferReread DEF FileInv
    <3>5. QED
      BY <2>3, <3>3, <3>4
  <2>4. QED
    BY <1>1, <2>1, <2>2, <2>3 DEF Volume!soiavfs_format
<1>2. CASE Volume!soiavfs_fill_super
  <2>1. /\ stage = "unmounted" /\ stage' = "mounted"
        /\ dirBuffer' = dir /\ inodeBuffer' = inode /\ dentries' = {}
        /\ UNCHANGED <<super, root, dir, inode, call, creates, faults, created, refused>>
    BY <1>2 DEF Volume!soiavfs_fill_super, Volume!histories
  <2>2. FileTypes' /\ CallTypes'
    BY <1>a, <2>1 DEF FileTypes, Volume!TypeOK, CallTypes
  <2>3. QED
    BY <2>1, <2>2, BufferReread DEF FileInv
<1>3. CASE Volume!Unmount
  <2>1. /\ stage' = "unmounted" /\ call = Volume!NoCall
        /\ UNCHANGED <<super, root, dir, inode, dirBuffer, inodeBuffer, dentries, call,
                       creates, faults, created, refused>>
    BY <1>3 DEF Volume!Unmount, Volume!memory, Volume!histories
  <2>2. FileTypes' /\ CallTypes'
    BY <1>a, <2>1 DEF FileTypes, Volume!TypeOK, CallTypes
  <2>3. DiskPrefix' /\ InOrder(dirBuffer)' /\ OwnInodes(dirBuffer)' /\ CallBacked'
    BY <1>a, <2>1
    DEF DiskPrefix, InOrder, OwnInodes, CallBacked, Volume!Files, Volume!Entries
  <2>4. Kept' /\ LeftByFaults'
    BY <1>a, <2>1 DEF Kept, LeftByFaults, LeftOver, Volume!Files, Volume!Entries
  <2>5. QED
    BY <2>2, <2>3, <2>4 DEF FileInv
<1>4. ASSUME call' = Volume!NoCall, faults' = faults + 1,
             stage' \in {stage, "unmounted"},
             UNCHANGED <<super, root, dir, inode, dirBuffer, inodeBuffer, dentries, creates,
                         created, refused>>
      PROVE  FileInv'
  <2>1. FileTypes' /\ CallTypes' /\ CallBacked'
    BY <1>4, <1>a DEF FileTypes, Volume!TypeOK, CallTypes, CallBacked
  <2>2. DiskPrefix' /\ InOrder(dirBuffer)' /\ Kept'
    BY <1>4, <1>a DEF DiskPrefix, InOrder, Kept, Volume!Files, Volume!Entries
  <2>3. OwnInodes(dirBuffer)'
    BY <1>4, <1>a DEF OwnInodes, Volume!Files, Volume!Entries
  <2>4. LeftByFaults'
    <3>1. LeftOver' = LeftOver
      BY <1>4 DEF LeftOver, Volume!Files, Volume!Entries
    <3>2. IsFiniteSet(LeftOver) /\ Cardinality(LeftOver) \in Nat /\ faults \in Nat
      BY <1>a, FS_CardinalityType DEF LeftByFaults, FileTypes
    <3>3. Cardinality(LeftOver) <= faults + 1
      <4>1. CASE call = Volume!NoCall
        BY <1>a, <3>2, <4>1 DEF LeftByFaults
      <4>2. CASE call # Volume!NoCall
        <5>1. Cardinality(LeftOver \ {call.ino}) =
                IF call.ino \in LeftOver THEN Cardinality(LeftOver) - 1
                ELSE Cardinality(LeftOver)
          BY <3>2, FS_RemoveElement
        <5>2. Cardinality(LeftOver \ {call.ino}) <= faults
          BY <1>a, <4>2 DEF LeftByFaults
        <5>3. QED
          BY <3>2, <5>1, <5>2
      <4>3. QED
        BY <4>1, <4>2
    <3>4. QED
      BY <1>4, <3>1, <3>2, <3>3 DEF LeftByFaults
  <2>5. QED
    BY <2>1, <2>2, <2>3, <2>4 DEF FileInv
<1>5. CASE Volume!DropBuffers
  <2>1. /\ stage = "mounted"
        /\ UNCHANGED <<super, root, dir, inode, stage, dentries, call, creates, faults,
                       created, refused>>
        /\ \/ dirBuffer' = dir /\ inodeBuffer' = inodeBuffer
           \/ inodeBuffer' = inode /\ dirBuffer' = dirBuffer
    BY <1>5 DEF Volume!DropBuffers, Volume!histories
  <2>2. FileTypes' /\ CallTypes'
    BY <1>a, <2>1 DEF FileTypes, Volume!TypeOK, CallTypes
  <2>3. CASE dirBuffer' = dir
    BY <2>1, <2>2, <2>3, BufferReread DEF FileInv
  <2>4. CASE dirBuffer' = dirBuffer
    <3>1. DiskPrefix' /\ InOrder(dirBuffer)' /\ OwnInodes(dirBuffer)' /\ CallBacked'
      BY <1>a, <2>1, <2>4
      DEF DiskPrefix, InOrder, OwnInodes, CallBacked, Volume!Files, Volume!Entries
    <3>2. Kept' /\ LeftByFaults'
      BY <1>a, <2>1, <2>4 DEF Kept, LeftByFaults, LeftOver, Volume!Files, Volume!Entries
    <3>3. QED
      BY <2>2, <3>1, <3>2 DEF FileInv
  <2>5. QED
    BY <2>1, <2>3, <2>4
<1>6. CASE UNCHANGED Volume!vars
  <2>1. UNCHANGED <<super, root, dir, inode, dirBuffer, inodeBuffer, stage, dentries, call,
                    creates, faults, created, refused>>
    BY <1>6 DEF Volume!vars
  <2>2. FileTypes' /\ CallTypes'
    BY <1>a, <2>1 DEF FileTypes, Volume!TypeOK, CallTypes
  <2>3. DiskPrefix' /\ InOrder(dirBuffer)' /\ OwnInodes(dirBuffer)' /\ CallBacked'
    BY <1>a, <2>1
    DEF DiskPrefix, InOrder, OwnInodes, CallBacked, Volume!Files, Volume!Entries
  <2>4. Kept' /\ LeftByFaults'
    BY <1>a, <2>1 DEF Kept, LeftByFaults, LeftOver, Volume!Files, Volume!Entries
  <2>5. QED
    BY <2>2, <2>3, <2>4 DEF FileInv
<1>7. CASE Volume!Crash
  BY <1>4, <1>7 DEF Volume!Crash
<1>8. CASE Volume!create_fails
  BY <1>4, <1>8 DEF Volume!create_fails
<1>9. QED
  BY <1>1, <1>2, <1>3, <1>5, <1>6, <1>7, <1>8, CreateInodeKeeps, CreateEntryKeeps
  DEF Volume!Next

LEMMA SameCardinality == \A S : Volume!Cardinality(S) = Cardinality(S)
BY Zenon DEF Volume!Cardinality, Cardinality

(* Whatever writes are refused and wherever the system stops, an entry on the     *)
(* disk has a number of its own and leads to its own inode, unless that write was   *)
(* refused; no more inodes are left over than there were faults; and a file whose   *)
(* creation returned 0, with no write refused, stays in the directory.          *)
THEOREM FilesStayOnDisk == KernelSpec => []FilesOnDisk
<1>1. FileInv => FilesOnDisk
  <2> SUFFICES ASSUME FileInv PROVE FilesOnDisk
    OBVIOUS
  <2>1. InOrder(dir) /\ OwnInodes(dir) /\ Volume!TypeOK /\ Kept /\ LeftByFaults
        /\ dir \in Seq(DirEntries) /\ faults \in Nat
    BY FilesOfPrefix DEF FileInv, FileTypes
  <2>2. Volume!CreatesKept
    BY <2>1, Elements DEF Volume!CreatesKept, Kept, InOrder
  <2>3. Cardinality(LeftOver) <= faults + (IF call = Volume!NoCall THEN 0 ELSE 1)
    <3>1. IsFiniteSet(LeftOver) /\ Cardinality(LeftOver) \in Nat
      BY <2>1, FS_CardinalityType DEF LeftByFaults
    <3>2. Cardinality(LeftOver \ {call.ino}) =
            IF call.ino \in LeftOver THEN Cardinality(LeftOver) - 1
            ELSE Cardinality(LeftOver)
      BY <3>1, FS_RemoveElement
    <3>3. QED
      BY <2>1, <3>1, <3>2 DEF LeftByFaults
  <2>4. Volume!FilesBacked
    <3>1. /\ \A e, f \in Volume!Files(dir) : e.ino = f.ino => e = f
          /\ \A e \in Volume!Files(dir) : inode[e.ino] = e.id \/ e.id \in refused
      BY <2>1 DEF OwnInodes
    <3>2. Volume!Cardinality(LeftOver) <= faults + (IF call = Volume!NoCall THEN 0 ELSE 1)
      BY <2>3, SameCardinality
    <3>3. QED
      BY <3>1, <3>2, Zenon DEF Volume!FilesBacked, LeftOver
  <2>5. QED
    BY <2>1, <2>2, <2>4 DEF FilesOnDisk
<1>2. QED
  BY <1>1, FileInvInit, FileStep, FileInvNext, PTL DEF KernelSpec

-----------------------------------------------------------------------------
(* A set of numbers with each of which goes the one before is empty.              *)
LEMMA Descent ==
  ASSUME NEW D \in SUBSET Nat, \A n \in D : n - 1 \in D
  PROVE  D = {}
<1> SUFFICES ASSUME D # {} PROVE FALSE
  OBVIOUS
<1>1. PICK n \in D : \A m \in D : n <= m
  BY LeastElement
<1>2. QED
  BY <1>1

(* The keyboard.  What readers get is the characters among the scancodes: the      *)
(* lemmas say of Text, a recursive function, that it is there for every sequence    *)
(* and does what its definition says, by the shortest one for which it would not.  *)
Codes == Chars \union Mute
Spelled(s, f) ==
  f = [i \in 0 .. Len(s) |->
         IF i = 0 THEN <<>>
         ELSE IF s[i] \in Chars THEN Append(f[i - 1], s[i]) ELSE f[i - 1]]
Read(word, k) == IF k \in Chars THEN Append(word, k) ELSE word

LEMMA SpelledStep ==
  ASSUME NEW s \in Seq(Codes), NEW f, Spelled(s, f)
  PROVE  /\ DOMAIN f = 0 .. Len(s) /\ f[0] = <<>>
         /\ \A i \in 1 .. Len(s) : f[i] = Read(f[i - 1], s[i])
<1>1. Len(s) \in Nat
  BY LenProperties
<1>2. \A i \in 0 .. Len(s) :
        f[i] = IF i = 0 THEN <<>>
               ELSE IF s[i] \in Chars THEN Append(f[i - 1], s[i]) ELSE f[i - 1]
  BY DEF Spelled
<1>3. DOMAIN f = 0 .. Len(s)
  BY DEF Spelled
<1>4. 0 \in 0 .. Len(s)
  BY <1>1
<1>5. \A i \in 1 .. Len(s) : i \in 0 .. Len(s) /\ i # 0
  BY <1>1
<1>6. ASSUME NEW i \in 1 .. Len(s) PROVE f[i] = Read(f[i - 1], s[i])
  BY <1>2, <1>5, Zenon DEF Read
<1>7. QED
  BY <1>2, <1>3, <1>4, <1>6, Zenon

LEMMA SpelledOnce ==
  ASSUME NEW s \in Seq(Codes), NEW f, NEW g, Spelled(s, f), Spelled(s, g)
  PROVE  f = g
<1> DEFINE Bad == {i \in 0 .. Len(s) : f[i] # g[i]}
<1>1. /\ DOMAIN f = 0 .. Len(s) /\ f[0] = <<>> /\ DOMAIN g = 0 .. Len(s) /\ g[0] = <<>>
      /\ \A i \in 1 .. Len(s) : f[i] = Read(f[i - 1], s[i]) /\ g[i] = Read(g[i - 1], s[i])
  BY SpelledStep
<1>2. ASSUME NEW n \in Bad PROVE n - 1 \in Bad
  <2>1. n \in 1 .. Len(s)
    BY <1>1
  <2>2. f[n - 1] # g[n - 1]
    BY <1>1, <2>1
  <2>3. QED
    BY <2>1, <2>2
<1>3. Bad = {}
  <2>1. Bad \in SUBSET Nat
    OBVIOUS
  <2> HIDE DEF Bad
  <2>2. QED
    BY <1>2, <2>1, Descent
<1>4. \A i \in 0 .. Len(s) : f[i] = g[i]
  BY <1>3
<1>5. f = [i \in 0 .. Len(s) |-> f[i]] /\ g = [i \in 0 .. Len(s) |-> g[i]]
  BY <1>1 DEF Spelled
<1>6. QED
  BY <1>4, <1>5

LEMMA TextIs ==
  ASSUME NEW s \in Seq(Codes), NEW f, Spelled(s, f)
  PROVE  Keyboard!Text(s) = f[Len(s)]
<1>1. \A g : Spelled(s, g) => g = f
  BY SpelledOnce
<1>2. QED
  BY <1>1 DEF Keyboard!Text, Spelled

LEMMA SpelledAppend ==
  ASSUME NEW s \in Seq(Codes), NEW f, Spelled(s, f), NEW k \in Codes
  PROVE  \E g : /\ Spelled(Append(s, k), g)
                /\ g[Len(s) + 1] = Read(f[Len(s)], k)
<1>1. /\ Len(s) \in Nat
      /\ Append(s, k) \in Seq(Codes) /\ Len(Append(s, k)) = Len(s) + 1
      /\ \A i \in 1 .. Len(s) : Append(s, k)[i] = s[i]
      /\ Append(s, k)[Len(s) + 1] = k
  BY AppendProperties, LenProperties
<1>2. /\ DOMAIN f = 0 .. Len(s) /\ f[0] = <<>>
      /\ \A i \in 1 .. Len(s) : f[i] = Read(f[i - 1], s[i])
  BY SpelledStep
<1> DEFINE n == Len(s)
           t == Append(s, k)
           g == [i \in 0 .. n + 1 |-> IF i = n + 1 THEN Read(f[n], k) ELSE f[i]]
<1> HIDE DEF n, t
<1>3. n \in Nat /\ Len(t) = n + 1 /\ t[n + 1] = k /\ \A i \in 1 .. n : t[i] = s[i]
  BY <1>1 DEF n, t
<1>4. f[0] = <<>> /\ \A i \in 1 .. n : f[i] = Read(f[i - 1], s[i])
  BY <1>2 DEF n
<1>5. ASSUME NEW i \in 0 .. n + 1
      PROVE  g[i] = IF i = 0 THEN <<>>
                    ELSE IF t[i] \in Chars THEN Append(g[i - 1], t[i]) ELSE g[i - 1]
  <2>1. CASE i = 0
    BY <1>3, <1>4, <2>1
  <2>2. CASE i \in 1 .. n
    <3>1. g[i] = f[i] /\ g[i - 1] = f[i - 1] /\ t[i] = s[i] /\ i # 0
      BY <1>3, <2>2
    <3>2. f[i] = Read(f[i - 1], s[i])
      BY <1>4, <2>2
    <3>3. QED
      BY <3>1, <3>2 DEF Read
  <2>3. CASE i = n + 1
    <3>1. g[i] = Read(f[n], k) /\ g[i - 1] = f[n] /\ t[i] = k /\ i # 0
      BY <1>3, <2>3
    <3>2. QED
      BY <3>1 DEF Read
  <2>4. QED
    BY <1>3, <2>1, <2>2, <2>3
<1>6. Spelled(t, g)
  BY <1>3, <1>5 DEF Spelled
<1>7. g[n + 1] = Read(f[n], k)
  BY <1>3
<1>8. QED
  BY <1>6, <1>7 DEF n, t

LEMMA TextEmpty == Keyboard!Text(<<>>) = <<>>
<1> DEFINE f == [i \in 0 .. 0 |-> <<>>]
<1>1. <<>> \in Seq(Codes) /\ Len(<<>>) = 0
  BY EmptySeq
<1>2. Spelled(<<>>, f)
  BY <1>1 DEF Spelled
<1>3. f[0] = <<>>
  OBVIOUS
<1> HIDE DEF f
<1>4. QED
  BY <1>1, <1>2, <1>3, TextIs

LEMMA SpelledExists ==
  ASSUME NEW s \in Seq(Codes)
  PROVE  \E f : Spelled(s, f)
<1> DEFINE Bad == {n \in Nat : \E t \in Seq(Codes) : Len(t) = n /\ ~ \E f : Spelled(t, f)}
<1>1. ASSUME NEW n \in Bad PROVE n - 1 \in Bad
  <2>1. PICK t \in Seq(Codes) : Len(t) = n /\ ~ \E f : Spelled(t, f)
    OBVIOUS
  <2>2. t # <<>>
    <3>1. Spelled(<<>>, [i \in 0 .. 0 |-> <<>>])
      BY EmptySeq DEF Spelled
    <3>2. QED
      BY <2>1, <3>1
  <2>3. PICK r \in Seq(Codes), k \in Codes : t = Append(r, k)
    BY <2>2, SequenceEmptyOrAppend
  <2>4. Len(r) \in Nat /\ Len(t) = Len(r) + 1
    BY <2>3, AppendProperties, LenProperties
  <2>5. ~ \E f : Spelled(r, f)
    BY <2>1, <2>3, SpelledAppend
  <2>6. QED
    BY <2>1, <2>4, <2>5
<1>2. Bad = {}
  <2>1. Bad \in SUBSET Nat
    OBVIOUS
  <2> HIDE DEF Bad
  <2>2. QED
    BY <1>1, <2>1, Descent
<1>3. Len(s) \in Nat
  BY LenProperties
<1>4. QED
  BY <1>2, <1>3

LEMMA TextAppend ==
  ASSUME NEW s \in Seq(Codes), NEW k \in Codes
  PROVE  Keyboard!Text(Append(s, k)) = Read(Keyboard!Text(s), k)
<1>1. PICK f : Spelled(s, f)
  BY SpelledExists
<1>2. PICK g : Spelled(Append(s, k), g) /\ g[Len(s) + 1] = Read(f[Len(s)], k)
  BY <1>1, SpelledAppend
<1>3. Append(s, k) \in Seq(Codes) /\ Len(Append(s, k)) = Len(s) + 1
  BY AppendProperties
<1>4. Keyboard!Text(Append(s, k)) = g[Len(s) + 1]
  BY <1>2, <1>3, TextIs
<1>5. Keyboard!Text(s) = f[Len(s)]
  BY <1>1, TextIs
<1>6. QED
  BY <1>2, <1>4, <1>5

LEMMA AppendOfConcat ==
  ASSUME NEW S, NEW s \in Seq(S), NEW t \in Seq(S), NEW k \in S
  PROVE  s \o Append(t, k) = Append(s \o t, k)
<1>1. s \o t \in Seq(S) /\ <<k>> \in Seq(S)
  BY ConcatProperties
<1>2. Append(t, k) = t \o <<k>> /\ Append(s \o t, k) = (s \o t) \o <<k>>
  BY <1>1, AppendIsConcat
<1>3. (s \o t) \o <<k>> = s \o (t \o <<k>>)
  BY <1>1, ConcatAssociative
<1>4. QED
  BY <1>2, <1>3

LEMMA ReadOfConcat ==
  ASSUME NEW s \in Seq(Chars), NEW t \in Seq(Chars), NEW k
  PROVE  Read(s \o t, k) = s \o Read(t, k)
<1>1. CASE k \in Chars
  <2>1. s \o Append(t, k) = Append(s \o t, k)
    BY <1>1, AppendOfConcat
  <2>2. QED
    BY <1>1, <2>1 DEF Read
<1>2. CASE k \notin Chars
  BY <1>2 DEF Read
<1>3. QED
  BY <1>1, <1>2

(* The text of a sequence is that of its beginning and that of its end.        *)
LEMMA TextConcat ==
  ASSUME NEW s \in Seq(Codes), NEW t \in Seq(Codes)
  PROVE  /\ Keyboard!Text(t) \in Seq(Chars)
         /\ Keyboard!Text(s \o t) = Keyboard!Text(s) \o Keyboard!Text(t)
<1> DEFINE Right(a, b) ==
             /\ Keyboard!Text(b) \in Seq(Chars) /\ Keyboard!Text(a) \in Seq(Chars)
             /\ Keyboard!Text(a \o b) = Keyboard!Text(a) \o Keyboard!Text(b)
           Wrong(n) == \E b \in Seq(Codes) : Len(b) = n /\ Keyboard!Text(b) \notin Seq(Chars)
           Bad == {n \in Nat : Wrong(n)}
           Worse == {n \in Nat : \E b \in Seq(Codes) : Len(b) = n /\ ~ Right(s, b)}
<1>1. ASSUME NEW n \in Bad PROVE n - 1 \in Bad
  <2>1. PICK b \in Seq(Codes) : Len(b) = n /\ Keyboard!Text(b) \notin Seq(Chars)
    OBVIOUS
  <2>2. b # <<>>
    BY <2>1, TextEmpty, EmptySeq
  <2>3. PICK r \in Seq(Codes), k \in Codes : b = Append(r, k)
    BY <2>2, SequenceEmptyOrAppend
  <2>4. Len(r) \in Nat /\ Len(b) = Len(r) + 1
    BY <2>3, AppendProperties, LenProperties
  <2>5. Keyboard!Text(r) \notin Seq(Chars)
    <3> SUFFICES ASSUME Keyboard!Text(r) \in Seq(Chars) PROVE FALSE
      OBVIOUS
    <3>1. Keyboard!Text(b) = Read(Keyboard!Text(r), k)
      BY <2>3, TextAppend
    <3>2. Read(Keyboard!Text(r), k) \in Seq(Chars)
      BY AppendProperties DEF Read
    <3>3. QED
      BY <2>1, <3>1, <3>2
  <2>6. QED
    BY <2>1, <2>4, <2>5
<1>2. Bad = {}
  <2>1. Bad \in SUBSET Nat
    OBVIOUS
  <2> HIDE DEF Bad
  <2>2. QED
    BY <1>1, <2>1, Descent
<1>3. \A b \in Seq(Codes) : Keyboard!Text(b) \in Seq(Chars)
  BY <1>2, LenProperties
<1>4. ASSUME NEW n \in Worse PROVE n - 1 \in Worse
  <2>1. PICK b \in Seq(Codes) : Len(b) = n /\ ~ Right(s, b)
    OBVIOUS
  <2>2. b # <<>>
    <3>1. s \o <<>> = s
      BY ConcatEmptySeq
    <3>2. Keyboard!Text(s) \o <<>> = Keyboard!Text(s)
      BY <1>3, ConcatEmptySeq
    <3>3. <<>> \in Seq(Codes)
      BY EmptySeq
    <3>4. QED
      BY <1>3, <2>1, <3>1, <3>2, <3>3, TextEmpty
  <2>3. PICK r \in Seq(Codes), k \in Codes : b = Append(r, k)
    BY <2>2, SequenceEmptyOrAppend
  <2>4. Len(r) \in Nat /\ Len(b) = Len(r) + 1
    BY <2>3, AppendProperties, LenProperties
  <2>5. ~ Right(s, r)
    <3> SUFFICES ASSUME Right(s, r) PROVE FALSE
      OBVIOUS
    <3> DEFINE ts == Keyboard!Text(s)
               tr == Keyboard!Text(r)
    <3>1. Keyboard!Text(b) = Read(tr, k)
      BY <2>3, TextAppend
    <3>2. s \o b = Append(s \o r, k) /\ s \o r \in Seq(Codes)
      <4>1. s \o Append(r, k) = Append(s \o r, k)
        BY <2>3, AppendOfConcat
      <4>2. s \o r \in Seq(Codes)
        BY ConcatProperties
      <4>3. QED
        BY <2>3, <4>1, <4>2, Zenon
    <3>3. Keyboard!Text(s \o b) = Read(ts \o tr, k)
      BY <3>2, TextAppend
    <3>4. ts \in Seq(Chars) /\ tr \in Seq(Chars)
      BY <1>3
    <3>5. Read(ts \o tr, k) = ts \o Read(tr, k)
      BY <3>4, ReadOfConcat
    <3>6. QED
      BY <1>3, <2>1, <3>1, <3>3, <3>5
  <2>6. QED
    BY <2>1, <2>4, <2>5
<1>5. Worse = {}
  <2>1. Worse \in SUBSET Nat
    OBVIOUS
  <2> HIDE DEF Worse
  <2>2. QED
    BY <1>4, <2>1, Descent
<1>6. Right(s, t)
  BY <1>5, LenProperties
<1>7. QED
  BY <1>6

-----------------------------------------------------------------------------
(* The rings of the input driver, of m slots, without remainders: what is put at   *)
(* the head is behind all the others, unless it makes the indices meet, and what   *)
(* is taken at the tail leaves the rest.                                     *)
Spot(m, t, i) == IF t + i - 1 < m THEN t + i - 1 ELSE t + i - 1 - m
Count(m, h, t) == IF t <= h THEN h - t ELSE h + m - t
Ring(m, h, t, e) == [i \in 1 .. Count(m, h, t) |-> e[Spot(m, t, i)]]

LEMMA SpotType ==
  ASSUME NEW m \in Nat \ {0, 1}, NEW h \in 0 .. m - 1, NEW t \in 0 .. m - 1
  PROVE  /\ Count(m, h, t) \in 0 .. m - 1
         /\ \A i \in 1 .. m : Spot(m, t, i) \in 0 .. m - 1
         /\ \A i \in 1 .. Count(m, h, t) : i \in 1 .. m /\ Spot(m, t, i) # h
         /\ Spot(m, t, Count(m, h, t) + 1) = h
BY DEF Spot, Count

LEMMA RingMeant ==
  ASSUME NEW m \in Nat \ {0, 1}, NEW h \in 0 .. m - 1, NEW t \in 0 .. m - 1, NEW e
  PROVE  /\ (h + m - t) % m = Count(m, h, t)
         /\ [i \in 1 .. Count(m, h, t) |-> e[(t + i - 1) % m]] = Ring(m, h, t, e)
<1>1. (h + m - t) % m = Count(m, h, t)
  <2> DEFINE x == h + m - t
  <2>1. m \in Nat \ {0} /\ x \in 0 .. 2 * m - 1
    OBVIOUS
  <2>2. x % m = IF x < m THEN x ELSE x - m
    <3> HIDE DEF x
    <3> QED BY <2>1, Modulo
  <2>3. QED
    BY <2>1, <2>2 DEF Count
<1>2. ASSUME NEW i \in 1 .. Count(m, h, t) PROVE (t + i - 1) % m = Spot(m, t, i)
  <2> DEFINE x == t + i - 1
  <2>1. m \in Nat \ {0} /\ x \in 0 .. 2 * m - 1
    BY SpotType
  <2>2. x % m = IF x < m THEN x ELSE x - m
    <3> HIDE DEF x
    <3> QED BY <2>1, Modulo
  <2>3. QED
    BY <2>2 DEF Spot
<1>3. \A i \in 1 .. Count(m, h, t) : e[(t + i - 1) % m] = e[Spot(m, t, i)]
  BY <1>2, Zenon
<1>4. QED
  BY <1>1, <1>3, Zenon DEF Ring

LEMMA RingSeq ==
  ASSUME NEW m \in Nat \ {0, 1}, NEW h \in 0 .. m - 1, NEW t \in 0 .. m - 1,
         NEW S, NEW e \in [0 .. m - 1 -> S]
  PROVE  Ring(m, h, t, e) \in Seq(S) /\ Len(Ring(m, h, t, e)) = Count(m, h, t)
<1>1. \A i \in 1 .. Count(m, h, t) : Spot(m, t, i) \in 0 .. m - 1
  BY SpotType
<1>2. Count(m, h, t) \in Nat
  BY SpotType
<1>3. QED
  BY <1>1, <1>2 DEF Ring

(* What storing k and advancing the head does, and what taking n does.          *)
Pushed(m, h, t, S, e, k) ==
  \A f, j : f = [e EXCEPT ![h] = k] /\ j = (h + 1) % m =>
    /\ j \in 0 .. m - 1 /\ f \in [0 .. m - 1 -> S]
    /\ Count(m, h, t) = m - 1 => Count(m, j, t) = 0 /\ Ring(m, j, t, f) = <<>>
    /\ Count(m, h, t) # m - 1 =>
         /\ Count(m, j, t) = Count(m, h, t) + 1
         /\ Ring(m, j, t, f) = Append(Ring(m, h, t, e), k)
Taken(m, h, t, e, n) ==
  \A u : u = (t + n) % m =>
    /\ u \in 0 .. m - 1
    /\ Count(m, h, u) = Count(m, h, t) - n
    /\ Ring(m, h, u, e) = SubSeq(Ring(m, h, t, e), n + 1, Count(m, h, t))

LEMMA RingPush ==
  ASSUME NEW m \in Nat \ {0, 1}, NEW h \in 0 .. m - 1, NEW t \in 0 .. m - 1,
         NEW S, NEW e \in [0 .. m - 1 -> S], NEW k \in S
  PROVE  Pushed(m, h, t, S, e, k)
<1> SUFFICES ASSUME NEW f, f = [e EXCEPT ![h] = k], NEW j, j = (h + 1) % m
             PROVE  /\ j \in 0 .. m - 1 /\ f \in [0 .. m - 1 -> S]
                    /\ Count(m, h, t) = m - 1 =>
                         Count(m, j, t) = 0 /\ Ring(m, j, t, f) = <<>>
                    /\ Count(m, h, t) # m - 1 =>
                         /\ Count(m, j, t) = Count(m, h, t) + 1
                         /\ Ring(m, j, t, f) = Append(Ring(m, h, t, e), k)
  BY Zenon DEF Pushed
<1>1. j = (IF h = m - 1 THEN 0 ELSE h + 1) /\ j \in 0 .. m - 1
  <2> DEFINE x == h + 1
  <2>1. m \in Nat \ {0} /\ x \in 0 .. 2 * m - 1
    OBVIOUS
  <2>2. x % m = IF x < m THEN x ELSE x - m
    <3> HIDE DEF x
    <3> QED BY <2>1, Modulo
  <2>3. QED
    BY <2>2
<1>2. f \in [0 .. m - 1 -> S] /\ f[h] = k /\ \A s \in 0 .. m - 1 : s # h => f[s] = e[s]
  OBVIOUS
<1>3. Count(m, h, t) = m - 1 => Count(m, j, t) = 0
  BY <1>1 DEF Count
<1>4. Count(m, h, t) # m - 1 => Count(m, j, t) = Count(m, h, t) + 1
  BY <1>1 DEF Count
<1> DEFINE n == Count(m, h, t)
           c == Ring(m, h, t, e)
           d == Ring(m, j, t, f)
<1>5. /\ n \in 0 .. m - 1 /\ Spot(m, t, n + 1) = h
      /\ \A i \in 1 .. n : Spot(m, t, i) \in 0 .. m - 1 /\ Spot(m, t, i) # h
  BY SpotType
<1>6. c \in Seq(S) /\ Len(c) = n /\ \A i \in 1 .. n : c[i] = e[Spot(m, t, i)]
  BY RingSeq DEF Ring
<1>7. d \in Seq(S) /\ Len(d) = Count(m, j, t)
      /\ \A i \in 1 .. Count(m, j, t) : d[i] = f[Spot(m, t, i)]
  <2>1. \A x \in 0 .. m - 1, g \in [0 .. m - 1 -> S] :
          /\ Ring(m, x, t, g) \in Seq(S) /\ Len(Ring(m, x, t, g)) = Count(m, x, t)
          /\ \A i \in 1 .. Count(m, x, t) : Ring(m, x, t, g)[i] = g[Spot(m, t, i)]
    BY RingSeq DEF Ring
  <2>2. QED
    BY <1>1, <1>2, <2>1, Zenon
<1>8. ASSUME n # m - 1 PROVE d = Append(c, k)
  <2>1. Len(d) = n + 1 /\ \A i \in 1 .. n + 1 : d[i] = f[Spot(m, t, i)]
    BY <1>4, <1>7, <1>8
  <2>2. /\ Append(c, k) \in Seq(S) /\ Len(Append(c, k)) = n + 1
        /\ \A i \in 1 .. n : Append(c, k)[i] = c[i]
        /\ Append(c, k)[n + 1] = k
    <3> HIDE DEF c, n
    <3>1. QED BY <1>6, AppendProperties
  <2>3. ASSUME NEW i \in 1 .. n + 1 PROVE d[i] = Append(c, k)[i]
    <3> HIDE DEF c, d, n
    <3>1. CASE i = n + 1
      BY <1>2, <1>5, <2>1, <2>2, <3>1
    <3>2. CASE i # n + 1
      <4>1. i \in 1 .. n
        BY <1>5, <3>2
      <4>2. d[i] = f[Spot(m, t, i)] /\ f[Spot(m, t, i)] = e[Spot(m, t, i)]
        BY <1>2, <1>5, <2>1, <4>1
      <4>3. QED
        BY <1>6, <2>2, <4>1, <4>2
    <3>3. QED
      BY <3>1, <3>2
  <2>4. QED
    <3> HIDE DEF c, d, n
    <3> QED BY <1>7, <2>1, <2>2, <2>3, SeqEqual
<1>9. ASSUME n = m - 1 PROVE d = <<>>
  <2>1. Len(d) = 0 /\ d \in Seq(S)
    BY <1>3, <1>7, <1>9
  <2>2. QED
    <3> HIDE DEF d
    <3> QED BY <2>1, EmptySeq
<1>10. QED
  <2> HIDE DEF c, d
  <2>1. c = Ring(m, h, t, e) /\ d = Ring(m, j, t, f)
    BY DEF c, d
  <2>2. QED
    BY <1>1, <1>2, <1>3, <1>4, <1>8, <1>9, <2>1

LEMMA RingTake ==
  ASSUME NEW m \in Nat \ {0, 1}, NEW h \in 0 .. m - 1, NEW t \in 0 .. m - 1,
         NEW S, NEW e \in [0 .. m - 1 -> S], NEW n \in 0 .. Count(m, h, t)
  PROVE  Taken(m, h, t, e, n)
<1> SUFFICES ASSUME NEW u, u = (t + n) % m
             PROVE  /\ u \in 0 .. m - 1
                    /\ Count(m, h, u) = Count(m, h, t) - n
                    /\ Ring(m, h, u, e)
                         = SubSeq(Ring(m, h, t, e), n + 1, Count(m, h, t))
  BY Zenon DEF Taken
<1>1. Count(m, h, t) \in 0 .. m - 1 /\ n \in 0 .. m - 1
  <2>1. Count(m, h, t) \in 0 .. m - 1
    BY SpotType
  <2>2. QED
    BY <2>1
<1>2. u = (IF t + n < m THEN t + n ELSE t + n - m) /\ u \in 0 .. m - 1
  <2> DEFINE x == t + n
  <2>1. m \in Nat \ {0} /\ x \in 0 .. 2 * m - 1
    BY <1>1
  <2>2. x % m = IF x < m THEN x ELSE x - m
    <3> HIDE DEF x
    <3> QED BY <2>1, Modulo
  <2>3. QED
    BY <1>1, <2>2
<1>3. Count(m, h, u) = Count(m, h, t) - n
  BY <1>1, <1>2 DEF Count
<1>4. ASSUME NEW i \in 1 .. Count(m, h, t) - n PROVE Spot(m, u, i) = Spot(m, t, n + i)
  BY <1>1, <1>2 DEF Spot, Count
<1> DEFINE l == Count(m, h, t)
           c == Ring(m, h, t, e)
           d == Ring(m, h, u, e)
<1>5. c \in Seq(S) /\ Len(c) = l /\ \A i \in 1 .. l : c[i] = e[Spot(m, t, i)]
  BY RingSeq DEF Ring
<1>6. d \in Seq(S) /\ Len(d) = l - n /\ \A i \in 1 .. l - n : d[i] = e[Spot(m, u, i)]
  BY <1>2, <1>3, RingSeq DEF Ring
<1>7. l \in Nat /\ n \in 0 .. l /\ \A i \in 1 .. l - n : Spot(m, u, i) = Spot(m, t, n + i)
  BY <1>1, <1>4
<1>8. d = SubSeq(c, n + 1, l)
  <2> HIDE DEF c, d, l
  <2> DEFINE r == SubSeq(c, n + 1, l)
  <2>1. r \in Seq(S) /\ Len(r) = l - n /\ \A i \in 1 .. l - n : r[i] = c[n + i]
    BY <1>5, <1>7, SubSeqProperties
  <2>2. \A i \in 1 .. l - n : n + i \in 1 .. l
    BY <1>7
  <2>3. ASSUME NEW i \in 1 .. l - n PROVE d[i] = r[i]
    <3>1. d[i] = e[Spot(m, u, i)] /\ Spot(m, u, i) = Spot(m, t, n + i)
      BY <1>6, <1>7
    <3>2. r[i] = c[n + i] /\ c[n + i] = e[Spot(m, t, n + i)]
      BY <1>5, <2>1, <2>2, Zenon
    <3>3. QED
      BY <3>1, <3>2, Zenon
  <2>4. QED
    <3> HIDE DEF r
    <3>1. d = r
      BY <1>6, <2>1, <2>3, SeqEqual
    <3>2. QED
      BY <3>1 DEF r
<1>9. QED
  BY <1>2, <1>3, <1>8

LEMMA EndOfAppend ==
  ASSUME NEW S, NEW s \in Seq(S), NEW k \in S, NEW n \in 0 .. Len(s)
  PROVE  SubSeq(Append(s, k), Len(s) - n + 1, Len(s) + 1)
           = Append(SubSeq(s, Len(s) - n + 1, Len(s)), k)
<1> DEFINE l == Len(s)
           a == Append(s, k)
           b == SubSeq(s, l - n + 1, l)
           c == SubSeq(a, l - n + 1, l + 1)
           d == Append(b, k)
<1>1. l \in Nat /\ n \in 0 .. l
  BY LenProperties
<1> HIDE DEF l
<1>2. /\ a \in Seq(S) /\ Len(a) = l + 1 /\ a[l + 1] = k
      /\ \A i \in 1 .. l : a[i] = s[i]
  BY AppendProperties DEF l
<1> HIDE DEF a
<1>3. b \in Seq(S) /\ Len(b) = n /\ \A i \in 1 .. n : b[i] = s[l - n + i]
  <2>1. \A i \in l - n + 1 .. l : s[i] \in S
    BY <1>1, ElementOfSeq DEF l
  <2>2. l - n + 1 \in Int /\ l \in Int
    BY <1>1
  <2>3. /\ b \in Seq(S) /\ Len(b) = IF l - n + 1 <= l THEN l - (l - n + 1) + 1 ELSE 0
        /\ \A i \in 1 .. l - (l - n + 1) + 1 : b[i] = s[l - n + 1 + i - 1]
    BY <2>1, <2>2, SubSeqProperties
  <2>4. QED
    BY <1>1, <2>3
<1>4. c \in Seq(S) /\ Len(c) = n + 1 /\ \A i \in 1 .. n + 1 : c[i] = a[l - n + i]
  <2>1. \A i \in l - n + 1 .. l + 1 : a[i] \in S
    BY <1>1, <1>2, ElementOfSeq
  <2>2. l - n + 1 \in Int /\ l + 1 \in Int
    BY <1>1
  <2>3. /\ c \in Seq(S) /\ Len(c) = IF l - n + 1 <= l + 1 THEN l + 1 - (l - n + 1) + 1 ELSE 0
        /\ \A i \in 1 .. l + 1 - (l - n + 1) + 1 : c[i] = a[l - n + 1 + i - 1]
    <3> DEFINE p == l - n + 1
               q == l + 1
    <3>0. c = SubSeq(a, p, q) /\ q - p + 1 = l + 1 - (l - n + 1) + 1 /\ p <= q
      BY <1>1
    <3>1. p \in Int /\ q \in Int /\ \A i \in p .. q : a[i] \in S
      BY <2>1, <2>2
    <3> HIDE DEF p, q
    <3>2. /\ SubSeq(a, p, q) \in Seq(S)
          /\ Len(SubSeq(a, p, q)) = IF p <= q THEN q - p + 1 ELSE 0
          /\ \A i \in 1 .. q - p + 1 : SubSeq(a, p, q)[i] = a[p + i - 1]
      BY <3>1, SubSeqProperties
    <3>3. QED
      <4>1. p <= q <=> l - n + 1 <= l + 1
        BY DEF p, q
      <4>2. \A i : p + i - 1 = l - n + 1 + i - 1
        BY DEF p, q
      <4> HIDE DEF c
      <4>3. QED
        BY <3>0, <3>2, <4>1, <4>2, Zenon
  <2>4. QED
    BY <1>1, <2>3
<1> HIDE DEF b, c
<1>5. /\ d \in Seq(S) /\ Len(d) = n + 1 /\ d[n + 1] = k
      /\ \A i \in 1 .. n : d[i] = b[i]
  BY <1>3, AppendProperties
<1> HIDE DEF d
<1>6. \A i \in 1 .. n + 1 : c[i] = d[i]
  <2> SUFFICES ASSUME NEW i \in 1 .. n + 1 PROVE c[i] = d[i]
    OBVIOUS
  <2>1. CASE i = n + 1
    BY <1>1, <1>2, <1>4, <1>5, <2>1
  <2>2. CASE i # n + 1
    <3>1. i \in 1 .. n /\ l - n + i \in 1 .. l
      BY <1>1, <2>2
    <3>2. QED
      BY <1>2, <1>3, <1>4, <1>5, <3>1
  <2>3. QED
    BY <2>1, <2>2
<1>7. c = d
  BY <1>4, <1>5, <1>6, SeqEqual
<1>8. QED
  BY <1>7 DEF a, b, c, d, l

LEMMA CutInTwo ==
  ASSUME NEW S, NEW s \in Seq(S), NEW n \in 0 .. Len(s)
  PROVE  /\ SubSeq(s, 1, n) \in Seq(S) /\ SubSeq(s, n + 1, Len(s)) \in Seq(S)
         /\ s = SubSeq(s, 1, n) \o SubSeq(s, n + 1, Len(s))
<1> DEFINE l == Len(s)
           a == SubSeq(s, 1, n)
           b == SubSeq(s, n + 1, l)
<1>1. l \in Nat /\ n \in 0 .. l /\ \A i \in 1 .. l : s[i] \in S
  BY LenProperties, ElementOfSeq
<1> HIDE DEF l
<1>2. a \in Seq(S) /\ Len(a) = n /\ \A i \in 1 .. n : a[i] = s[i]
  BY <1>1
<1>3. b \in Seq(S) /\ Len(b) = l - n /\ \A i \in 1 .. l - n : b[i] = s[n + i]
  BY <1>1
<1> HIDE DEF a, b
<1>4. a \o b \in Seq(S) /\ Len(a \o b) = l
      /\ \A i \in 1 .. l : (a \o b)[i] = IF i <= n THEN a[i] ELSE b[i - n]
  <2>1. /\ a \o b \in Seq(S) /\ Len(a \o b) = Len(a) + Len(b)
        /\ \A i \in 1 .. Len(a) + Len(b) :
             (a \o b)[i] = IF i <= Len(a) THEN a[i] ELSE b[i - Len(a)]
    BY <1>2, <1>3, ConcatProperties
  <2>2. Len(a) = n /\ Len(a) + Len(b) = l
    BY <1>1, <1>2, <1>3
  <2>3. QED
    BY <2>1, <2>2, Zenon
<1>5. \A i \in 1 .. l : (a \o b)[i] = s[i]
  <2> SUFFICES ASSUME NEW i \in 1 .. l PROVE (a \o b)[i] = s[i]
    OBVIOUS
  <2>1. (a \o b)[i] = IF i <= n THEN a[i] ELSE b[i - n]
    BY <1>4
  <2>2. CASE i <= n
    BY <1>1, <1>2, <2>1, <2>2
  <2>3. CASE ~ (i <= n)
    <3>1. i - n \in 1 .. l - n /\ n + (i - n) = i
      BY <1>1, <2>3
    <3>2. b[i - n] = s[n + (i - n)]
      BY <1>3, <3>1
    <3>3. QED
      BY <2>1, <2>3, <3>1, <3>2
  <2>4. QED
    BY <2>2, <2>3
<1>6. s = a \o b
  BY <1>4, <1>5, SeqEqual DEF l
<1>7. QED
  BY <1>2, <1>3, <1>6 DEF a, b, l

LEMMA EndOfEnd ==
  ASSUME NEW S, NEW s \in Seq(S), NEW n \in 0 .. Len(s), NEW r \in 0 .. n
  PROVE  SubSeq(SubSeq(s, Len(s) - n + 1, Len(s)), r + 1, n)
           = SubSeq(s, Len(s) - (n - r) + 1, Len(s))
<1> DEFINE l == Len(s)
           b == SubSeq(s, l - n + 1, l)
           c == SubSeq(b, r + 1, n)
           d == SubSeq(s, l - (n - r) + 1, l)
<1>1. l \in Nat /\ n \in 0 .. l /\ r \in 0 .. n /\ \A i \in 1 .. l : s[i] \in S
  BY LenProperties, ElementOfSeq
<1> HIDE DEF l
<1>2. b \in Seq(S) /\ Len(b) = n /\ \A i \in 1 .. n : b[i] = s[l - n + i]
  BY <1>1
<1>3. d \in Seq(S) /\ Len(d) = n - r /\ \A i \in 1 .. n - r : d[i] = s[l - (n - r) + i]
  BY <1>1
<1> HIDE DEF b
<1>4. c \in Seq(S) /\ Len(c) = n - r /\ \A i \in 1 .. n - r : c[i] = b[r + i]
  BY <1>1, <1>2, SubSeqProperties
<1> HIDE DEF c, d
<1>5. \A i \in 1 .. n - r : c[i] = d[i]
  <2> SUFFICES ASSUME NEW i \in 1 .. n - r PROVE c[i] = d[i]
    OBVIOUS
  <2>1. r + i \in 1 .. n /\ l - n + (r + i) = l - (n - r) + i
    BY <1>1
  <2>2. c[i] = b[r + i] /\ b[r + i] = s[l - n + (r + i)] /\ d[i] = s[l - (n - r) + i]
    BY <1>2, <1>3, <1>4, <2>1
  <2>3. QED
    BY <2>1, <2>2
<1>6. c = d
  BY <1>3, <1>4, <1>5, SeqEqual
<1>7. QED
  BY <1>6 DEF b, c, d, l

(* The keyboard's inductive invariant: nothing is held that was not typed.       *)
KeyInv ==
  /\ Keyboard!TypeOK
  /\ typed \in Seq(Codes) /\ Keyboard!Held <= Len(typed)
  /\ Keyboard!NoKeyLost

LEMMA KeyStep == [KernelNext]_kernelVars => [Keyboard!Next]_(Keyboard!vars)
BY DEF KernelNext, Played, kernelVars, keyVars, Keyboard!vars

LEMMA KeyMeant ==
  ASSUME NEW h \in 0 .. Size - 1, NEW t \in 0 .. Size - 1, NEW e
  PROVE  /\ (h + Size - t) % Size = Count(Size, h, t)
         /\ [i \in 1 .. (h + Size - t) % Size |-> e[(t + i - 1) % Size]] = Ring(Size, h, t, e)
<1>1. Size \in Nat \ {0, 1}
  BY KeyboardAssumed DEF Keyboard!KeyboardAssumption
<1>2. /\ (h + Size - t) % Size = Count(Size, h, t)
      /\ [i \in 1 .. Count(Size, h, t) |-> e[(t + i - 1) % Size]] = Ring(Size, h, t, e)
  BY <1>1, RingMeant
<1>3. QED
  BY <1>2, Zenon

LEMMA KeyHeld ==
  ASSUME Keyboard!TypeOK
  PROVE  /\ Size \in Nat \ {0, 1} /\ keyHead \in 0 .. Size - 1 /\ keyTail \in 0 .. Size - 1
         /\ keys \in [0 .. Size - 1 -> Codes \union {NoKey}]
         /\ Keyboard!Held = Count(Size, keyHead, keyTail)
         /\ Keyboard!Contents = Ring(Size, keyHead, keyTail, keys)
         /\ Keyboard!Held \in 0 .. Size - 1
<1>1. /\ Size \in Nat \ {0, 1} /\ keyHead \in 0 .. Size - 1 /\ keyTail \in 0 .. Size - 1
      /\ keys \in [0 .. Size - 1 -> Codes \union {NoKey}]
  BY KeyboardAssumed DEF Keyboard!KeyboardAssumption, Keyboard!TypeOK, Keyboard!Slots, Codes
<1>2. Keyboard!Held = Count(Size, keyHead, keyTail)
  BY <1>1, RingMeant DEF Keyboard!Held
<1>3. Keyboard!Contents = Ring(Size, keyHead, keyTail, keys)
  <2>1. Keyboard!Contents =
          [i \in 1 .. Count(Size, keyHead, keyTail) |-> keys[(keyTail + i - 1) % Size]]
    BY <1>2, Zenon DEF Keyboard!Contents
  <2>2. QED
    BY <1>1, <2>1, RingMeant
<1>4. Keyboard!Held \in 0 .. Size - 1
  BY <1>1, <1>2, SpotType
<1>5. QED
  BY <1>1, <1>2, <1>3, <1>4

LEMMA KeyInvInit == KernelInit => KeyInv
<1> SUFFICES ASSUME Keyboard!Init PROVE KeyInv
  BY DEF KernelInit
<1>1. Size \in Nat \ {0, 1}
  BY KeyboardAssumed DEF Keyboard!KeyboardAssumption
<1>2. Keyboard!TypeOK
  BY <1>1 DEF Keyboard!Init, Keyboard!TypeOK, Keyboard!Slots
<1>3. Keyboard!Held = 0 /\ Len(typed) = 0 /\ typed = <<>> /\ text = <<>>
  BY <1>2, KeyHeld DEF Keyboard!Init, Count
<1>4. Keyboard!Contents = <<>>
  BY <1>3 DEF Keyboard!Contents
<1>5. Keyboard!NoKeyLost
  <2>1. SubSeq(typed, Len(typed) - Keyboard!Held + 1, Len(typed)) = <<>>
    BY <1>3
  <2>2. text \o Keyboard!Text(Keyboard!Contents) = Keyboard!Text(typed)
    BY <1>3, <1>4, TextEmpty
  <2>3. QED
    BY <1>4, <2>1, <2>2 DEF Keyboard!NoKeyLost
<1>6. QED
  BY <1>2, <1>3, <1>5 DEF KeyInv

LEMMA KeyContents ==
  ASSUME KeyInv
  PROVE  /\ Keyboard!Contents = SubSeq(typed, Len(typed) - Keyboard!Held + 1, Len(typed))
         /\ Keyboard!Contents \in Seq(Codes) /\ Len(Keyboard!Contents) = Keyboard!Held
         /\ Keyboard!Held \in 0 .. Len(typed)
<1>1. /\ Keyboard!Contents = SubSeq(typed, Len(typed) - Keyboard!Held + 1, Len(typed))
      /\ typed \in Seq(Codes) /\ Len(typed) \in Nat /\ Keyboard!Held <= Len(typed)
  BY LenProperties DEF KeyInv, Keyboard!NoKeyLost
<1>2. Keyboard!Held \in 0 .. Len(typed)
  BY <1>1, KeyHeld DEF KeyInv
<1> DEFINE l == Len(typed)
           n == Keyboard!Held
<1> HIDE DEF l, n
<1>3. l - n + 1 \in Int /\ l \in Int /\ \A i \in l - n + 1 .. l : typed[i] \in Codes
  BY <1>1, <1>2, ElementOfSeq DEF l, n
<1>4. /\ SubSeq(typed, l - n + 1, l) \in Seq(Codes)
      /\ Len(SubSeq(typed, l - n + 1, l)) = IF l - n + 1 <= l THEN l - (l - n + 1) + 1 ELSE 0
  BY <1>3, SubSeqProperties
<1>5. Len(SubSeq(typed, l - n + 1, l)) = n
  BY <1>1, <1>2, <1>4 DEF l, n
<1>6. QED
  BY <1>1, <1>2, <1>4, <1>5 DEF l, n

LEMMA KeyInvNext == KeyInv /\ [Keyboard!Next]_(Keyboard!vars) => KeyInv'
<1> SUFFICES ASSUME KeyInv, [Keyboard!Next]_(Keyboard!vars) PROVE KeyInv'
  OBVIOUS
<1> DEFINE c == Keyboard!Contents
           n == Keyboard!Held
<1>a. /\ Size \in Nat \ {0, 1} /\ keyHead \in 0 .. Size - 1 /\ keyTail \in 0 .. Size - 1
      /\ keys \in [0 .. Size - 1 -> Codes \union {NoKey}]
      /\ n = Count(Size, keyHead, keyTail) /\ c = Ring(Size, keyHead, keyTail, keys)
      /\ n \in 0 .. Size - 1
  BY KeyHeld DEF KeyInv
<1>b. /\ c = SubSeq(typed, Len(typed) - n + 1, Len(typed)) /\ c \in Seq(Codes)
      /\ n \in 0 .. Len(typed) /\ typed \in Seq(Codes) /\ text \in Seq(Chars)
      /\ Len(c) = n /\ Len(typed) \in Nat
      /\ keyOverrun \/ text \o Keyboard!Text(c) = Keyboard!Text(typed)
  BY KeyContents, LenProperties DEF KeyInv, Keyboard!NoKeyLost, Keyboard!TypeOK
<1>1. CASE Keyboard!keyboard_interrupt
  <2>1. PICK k \in Codes :
          /\ keys' = [keys EXCEPT ![keyHead] = k]
          /\ keyHead' = (keyHead + 1) % Size
          /\ typed' = Append(typed, k)
          /\ keyOverrun' = (keyOverrun \/ n = Size - 1)
          /\ keyTail' = keyTail /\ text' = text
    BY <1>1 DEF Keyboard!keyboard_interrupt, Codes
  <2>2. /\ keyHead' \in 0 .. Size - 1 /\ keys' \in [0 .. Size - 1 -> Codes \union {NoKey}]
        /\ n = Size - 1 =>
             Count(Size, keyHead', keyTail) = 0 /\ Ring(Size, keyHead', keyTail, keys') = <<>>
        /\ n # Size - 1 =>
             /\ Count(Size, keyHead', keyTail) = n + 1
             /\ Ring(Size, keyHead', keyTail, keys') = Append(c, k)
    <3> HIDE DEF c, n
    <3>1. Pushed(Size, keyHead, keyTail, Codes \union {NoKey}, keys, k)
      <4>1. k \in Codes \union {NoKey}
        OBVIOUS
      <4>2. QED
        BY <1>a, <4>1, RingPush, Zenon
    <3>2. QED
      BY <1>a, <2>1, <3>1, Zenon DEF Pushed
  <2>3. Keyboard!TypeOK'
    BY <1>a, <1>b, <2>1, <2>2 DEF Keyboard!TypeOK, Keyboard!Slots, Codes
  <2>4. /\ Keyboard!Held' = Count(Size, keyHead', keyTail)
        /\ Keyboard!Contents' = Ring(Size, keyHead', keyTail, keys')
    <3>1. keyTail' \in 0 .. Size - 1 /\ keyTail' = keyTail
      BY <1>a, <2>1
    <3>2. /\ Keyboard!Held' = Count(Size, keyHead', keyTail')
          /\ Keyboard!Contents' = Ring(Size, keyHead', keyTail', keys')
      <4>1. \A h, t \in 0 .. Size - 1 : \A e :
              /\ (h + Size - t) % Size = Count(Size, h, t)
              /\ [i \in 1 .. (h + Size - t) % Size |-> e[(t + i - 1) % Size]]
                   = Ring(Size, h, t, e)
        BY KeyMeant
      <4>2. keyHead' \in 0 .. Size - 1 /\ keyTail' \in 0 .. Size - 1
        BY <2>2, <3>1
      <4>3. QED
        BY <4>1, <4>2, Zenon DEF Keyboard!Held, Keyboard!Contents
    <3>3. QED
      BY <3>1, <3>2, Zenon
  <2>5. CASE n = Size - 1
    <3>1. Keyboard!Held' = 0 /\ Keyboard!Contents' = <<>> /\ keyOverrun'
      BY <2>1, <2>2, <2>4, <2>5
    <3>2. typed' \in Seq(Codes) /\ Len(typed') = Len(typed) + 1
      BY <1>b, <2>1, AppendProperties
    <3>3. SubSeq(typed', Len(typed') - Keyboard!Held' + 1, Len(typed')) = <<>>
      BY <1>b, <3>1, <3>2
    <3>4. Keyboard!NoKeyLost'
      BY <3>1, <3>3 DEF Keyboard!NoKeyLost
    <3>5. QED
      BY <1>b, <2>3, <3>1, <3>2, <3>4 DEF KeyInv
  <2>6. CASE n # Size - 1
    <3>1. Keyboard!Held' = n + 1 /\ Keyboard!Contents' = Append(c, k)
      BY <2>2, <2>4, <2>6
    <3>2. typed' \in Seq(Codes) /\ Len(typed') = Len(typed) + 1
      BY <1>b, <2>1, AppendProperties
    <3>3. Append(c, k) = SubSeq(typed', Len(typed) - n + 1, Len(typed) + 1)
      <4>1. SubSeq(Append(typed, k), Len(typed) - n + 1, Len(typed) + 1)
              = Append(SubSeq(typed, Len(typed) - n + 1, Len(typed)), k)
        BY <1>b, EndOfAppend
      <4>2. QED
        BY <1>b, <2>1, <4>1
    <3>4. Len(typed) + 1 - (n + 1) + 1 = Len(typed) - n + 1
      BY <1>b
    <3>5. Keyboard!Contents' = SubSeq(typed', Len(typed') - Keyboard!Held' + 1, Len(typed'))
      BY <3>1, <3>2, <3>3, <3>4
    <3>6. keyOverrun' \/ text' \o Keyboard!Text(Keyboard!Contents') = Keyboard!Text(typed')
      <4> SUFFICES ASSUME ~ keyOverrun'
                   PROVE  text \o Keyboard!Text(Append(c, k)) = Keyboard!Text(Append(typed, k))
        BY <2>1, <3>1
      <4>1. text \o Keyboard!Text(c) = Keyboard!Text(typed)
        BY <1>b, <2>1
      <4>2. /\ Keyboard!Text(Append(c, k)) = Read(Keyboard!Text(c), k)
            /\ Keyboard!Text(Append(typed, k)) = Read(Keyboard!Text(typed), k)
        BY <1>b, TextAppend
      <4>3. Keyboard!Text(c) \in Seq(Chars)
        BY <1>b, TextConcat
      <4>4. Read(text \o Keyboard!Text(c), k) = text \o Read(Keyboard!Text(c), k)
        BY <1>b, <4>3, ReadOfConcat
      <4>5. QED
        BY <4>1, <4>2, <4>4
    <3>7. Keyboard!NoKeyLost'
      BY <3>5, <3>6 DEF Keyboard!NoKeyLost
    <3>8. QED
      BY <1>b, <2>3, <3>1, <3>2, <3>7 DEF KeyInv
  <2>7. QED
    BY <2>5, <2>6
<1>2. ASSUME NEW max \in 1 .. MaxRead, Keyboard!soiav_read_keyboard(max) PROVE KeyInv'
  <2>1. PICK r \in 0 .. n :
          /\ keyTail' = (keyTail + r) % Size
          /\ text' = text \o Keyboard!Text(SubSeq(c, 1, r))
          /\ UNCHANGED <<keys, keyHead, typed, keyOverrun>>
    BY <1>2 DEF Keyboard!soiav_read_keyboard
  <2>2. /\ keyTail' \in 0 .. Size - 1
        /\ Count(Size, keyHead, keyTail') = n - r
        /\ Ring(Size, keyHead, keyTail', keys) = SubSeq(c, r + 1, n)
    <3> HIDE DEF c, n
    <3>1. Taken(Size, keyHead, keyTail, keys, r)
      <4>1. r \in 0 .. Count(Size, keyHead, keyTail)
        BY <1>a, <2>1, Zenon
      <4>2. QED
        BY <1>a, <4>1, RingTake, Zenon
    <3>2. QED
      BY <1>a, <2>1, <3>1, Zenon DEF Taken
  <2>3. /\ Keyboard!Held' = n - r
        /\ Keyboard!Contents' = SubSeq(c, r + 1, n)
    <3>1. keyHead' \in 0 .. Size - 1 /\ keyHead' = keyHead /\ keys' = keys
      BY <1>a, <2>1
    <3>2. /\ Keyboard!Held' = Count(Size, keyHead', keyTail')
          /\ Keyboard!Contents' = Ring(Size, keyHead', keyTail', keys')
      <4>1. \A h, t \in 0 .. Size - 1 : \A e :
              /\ (h + Size - t) % Size = Count(Size, h, t)
              /\ [i \in 1 .. (h + Size - t) % Size |-> e[(t + i - 1) % Size]]
                   = Ring(Size, h, t, e)
        BY KeyMeant
      <4>2. keyHead' \in 0 .. Size - 1 /\ keyTail' \in 0 .. Size - 1
        BY <2>2, <3>1
      <4>3. QED
        BY <4>1, <4>2, Zenon DEF Keyboard!Held, Keyboard!Contents
    <3>3. QED
      BY <2>2, <3>1, <3>2, Zenon
  <2>4. /\ SubSeq(c, 1, r) \in Seq(Codes) /\ SubSeq(c, r + 1, n) \in Seq(Codes)
        /\ c = SubSeq(c, 1, r) \o SubSeq(c, r + 1, n)
    <3> HIDE DEF c, n
    <3>1. r \in 0 .. Len(c)
      BY <1>b, <2>1
    <3>2. QED
      BY <1>b, <3>1, CutInTwo
  <2>5. Keyboard!Text(SubSeq(c, 1, r)) \in Seq(Chars)
    BY <2>4, TextConcat
  <2>6. text' \in Seq(Chars)
    BY <1>b, <2>1, <2>5, ConcatProperties
  <2>7. Keyboard!TypeOK'
    BY <1>a, <1>b, <2>1, <2>2, <2>6 DEF Keyboard!TypeOK, Keyboard!Slots, Codes
  <2>8. Keyboard!Contents' = SubSeq(typed, Len(typed) - (n - r) + 1, Len(typed))
    BY <1>b, <2>1, <2>3, EndOfEnd
  <2>9. keyOverrun' \/ text' \o Keyboard!Text(Keyboard!Contents') = Keyboard!Text(typed')
    <3> SUFFICES ASSUME ~ keyOverrun
                 PROVE  (text \o Keyboard!Text(SubSeq(c, 1, r))) \o Keyboard!Text(SubSeq(c, r + 1, n))
                          = Keyboard!Text(typed)
      BY <2>1, <2>3
    <3>1. text \o Keyboard!Text(c) = Keyboard!Text(typed)
      BY <1>b
    <3>2. Keyboard!Text(c) = Keyboard!Text(SubSeq(c, 1, r)) \o Keyboard!Text(SubSeq(c, r + 1, n))
      BY <2>4, TextConcat
    <3>3. Keyboard!Text(SubSeq(c, r + 1, n)) \in Seq(Chars)
      BY <2>4, TextConcat
    <3>4. \A a, b, d \in Seq(Chars) : (a \o b) \o d = a \o (b \o d)
      BY ConcatAssociative
    <3> DEFINE x == Keyboard!Text(SubSeq(c, 1, r))
               y == Keyboard!Text(SubSeq(c, r + 1, n))
    <3>5. (text \o x) \o y = text \o (x \o y)
      <4>1. text \in Seq(Chars) /\ x \in Seq(Chars) /\ y \in Seq(Chars)
        BY <1>b, <2>5, <3>3
      <4> HIDE DEF x, y
      <4>2. QED
        BY ONLY <3>4, <4>1
    <3>6. text \o (x \o y) = Keyboard!Text(typed)
      BY <3>1, <3>2, Zenon
    <3>7. QED
      BY <3>5, <3>6, Zenon
  <2>10. Keyboard!NoKeyLost'
    BY <2>1, <2>3, <2>8, <2>9 DEF Keyboard!NoKeyLost
  <2>11. Keyboard!Held' <= Len(typed')
    BY <1>b, <2>1, <2>3
  <2>12. QED
    BY <1>b, <2>1, <2>7, <2>10, <2>11 DEF KeyInv
<1>3. CASE UNCHANGED Keyboard!vars
  BY <1>3
  DEF Keyboard!vars, KeyInv, Keyboard!TypeOK, Keyboard!NoKeyLost, Keyboard!Held,
      Keyboard!Contents
<1>4. QED
  BY <1>1, <1>2, <1>3 DEF Keyboard!Next
-----------------------------------------------------------------------------
(* The mouse.  While no byte was lost, the packet and what is still sent are         *)
(* together the last movement's three bytes.                                   *)
Moves == [x : -256 .. 255, y : -255 .. 256, buttons : 0 .. 7]
Underway ==
  /\ moved # <<>>
  /\ \E dx, dy \in Distances, b \in Buttons :
       LET w == Mouse!Encode(dx, dy, b) IN
       /\ moved[Len(moved)] = [x |-> dx, y |-> -dy, buttons |-> b]
       /\ \/ packet = <<>> /\ sending = <<w[1], w[2], w[3]>>
          \/ packet = <<w[1]>> /\ sending = <<w[2], w[3]>>
          \/ packet = <<w[1], w[2]>> /\ sending = <<w[3]>>
MouseInv ==
  /\ Mouse!TypeOK
  /\ moves \in [0 .. Size - 1 -> Moves]
  /\ sending \in Seq(0 .. 255) /\ packet \in Seq(0 .. 255) /\ losses \in Nat
  /\ moved \in Seq(Moves) /\ read \in Seq(Moves)
  /\ losses = 0 => IF sending = <<>> THEN packet = <<>> ELSE Underway
  /\ Mouse!MovesKept

LEMMA MouseConstants ==
  Distances \subseteq -256 .. 255 /\ Buttons \subseteq 0 .. 7 /\ Size \in Nat \ {0, 1}
BY MouseAssumed DEF Mouse!MouseAssumption

Coded(dx, dy, b) ==
  LET w == Mouse!Encode(dx, dy, b) IN
  /\ w[1] \in 0 .. 255 /\ w[2] \in 0 .. 255 /\ w[3] \in 0 .. 255
  /\ w \in Seq(0 .. 255) /\ w # <<>> /\ w = <<w[1], w[2], w[3]>>
  /\ [x |-> dx, y |-> -dy, buttons |-> b] \in Moves
  /\ Mouse!Decode(<<w[1], w[2], w[3]>>) = [x |-> dx, y |-> -dy, buttons |-> b]

(* Nine-bit two's complement, there and back, at both ends of its range.        *)
LEMMA DecodeOfEncode ==
  ASSUME NEW dx \in -256 .. 255, NEW dy \in -256 .. 255, NEW b \in 0 .. 7
  PROVE  Coded(dx, dy, b)
<1> DEFINE w == Mouse!Encode(dx, dy, b)
           sx == Mouse!Sign(dx)
           sy == Mouse!Sign(dy)
<1>1. /\ sx \in 0 .. 1 /\ (sx = 1 <=> dx < 0)
      /\ sy \in 0 .. 1 /\ (sy = 1 <=> dy < 0)
  BY DEF Mouse!Sign
<1> HIDE DEF sx, sy
<1>2. w[1] = b + 8 + 16 * sx + 32 * sy /\ w[2] = dx % 256 /\ w[3] = dy % 256
      /\ w = <<w[1], w[2], w[3]>>
  BY DEF Mouse!Encode, sx, sy
<1> HIDE DEF w
<1>3. w[1] \in 0 .. 63 /\ w[2] \in 0 .. 255 /\ w[3] \in 0 .. 255
  BY <1>1, <1>2
<1>4. (w[1] \div 16) % 2 = sx /\ (w[1] \div 32) % 2 = sy /\ w[1] % 8 = b
  BY <1>1, <1>2
<1>5. w[2] - 256 * sx = dx /\ w[3] - 256 * sy = dy
  BY <1>1, <1>2
<1>6. Mouse!Decode(<<w[1], w[2], w[3]>>) = [x |-> dx, y |-> -dy, buttons |-> b]
  BY <1>4, <1>5 DEF Mouse!Decode
<1>7. w \in Seq(0 .. 255) /\ w # <<>>
  <2>1. \A p, q, r \in 0 .. 255 : <<p, q, r>> \in Seq(0 .. 255) /\ <<p, q, r>> # <<>>
    OBVIOUS
  <2>2. <<w[1], w[2], w[3]>> \in Seq(0 .. 255) /\ <<w[1], w[2], w[3]>> # <<>>
    <3>1. w[1] \in 0 .. 255
      BY <1>3
    <3>2. QED
      BY <1>3, <2>1, <3>1
  <2> DEFINE v == <<w[1], w[2], w[3]>>
  <2>3. w = v /\ v \in Seq(0 .. 255) /\ v # <<>>
    BY <1>2, <2>2
  <2> HIDE DEF v
  <2>4. QED
    BY <2>3
<1>8. w[1] \in 0 .. 255
  BY <1>3
<1>9. [x |-> dx, y |-> -dy, buttons |-> b] \in Moves
  BY DEF Moves
<1>10. QED
  BY <1>2, <1>3, <1>6, <1>7, <1>8, <1>9, Zenon DEF w, Coded

LEMMA DecodeType ==
  ASSUME NEW p1 \in 0 .. 255, NEW p2 \in 0 .. 255, NEW p3 \in 0 .. 255
  PROVE  Mouse!Decode(<<p1, p2, p3>>) \in Moves
<1>1. (p1 \div 16) % 2 \in 0 .. 1 /\ (p1 \div 32) % 2 \in 0 .. 1 /\ p1 % 8 \in 0 .. 7
  OBVIOUS
<1> DEFINE sx == (p1 \div 16) % 2
           sy == (p1 \div 32) % 2
           q == p1 % 8
<1>2. Mouse!Decode(<<p1, p2, p3>>) =
        [x |-> p2 - 256 * sx, y |-> -(p3 - 256 * sy), buttons |-> q]
  BY DEF Mouse!Decode
<1>3. sx \in 0 .. 1 /\ sy \in 0 .. 1 /\ q \in 0 .. 7
  BY <1>1
<1> HIDE DEF sx, sy, q
<1>4. p2 - 256 * sx \in -256 .. 255 /\ -(p3 - 256 * sy) \in -255 .. 256
  BY <1>3
<1>5. QED
  BY <1>2, <1>3, <1>4 DEF Moves

LEMMA FrontOfAppend ==
  ASSUME NEW S, NEW s \in Seq(S), NEW k \in S
  PROVE  /\ SubSeq(Append(s, k), 1, Len(s)) = s
         /\ SubSeq(s, 1, Len(s)) = s
         /\ s # <<>> => /\ Len(s) \in Nat \ {0} /\ s[Len(s)] \in S
                        /\ SubSeq(s, 1, Len(s) - 1) \in Seq(S)
                        /\ Append(SubSeq(s, 1, Len(s) - 1), s[Len(s)]) = s
<1>1. Len(s) \in Nat /\ \A i \in 1 .. Len(s) : s[i] \in S
  BY LenProperties, ElementOfSeq
<1>2. SubSeq(Append(s, k), 1, Len(s)) = s
  OBVIOUS
<1>3. SubSeq(s, 1, Len(s)) = s
  OBVIOUS
<1>4. ASSUME s # <<>>
      PROVE  /\ Len(s) \in Nat \ {0} /\ s[Len(s)] \in S
             /\ SubSeq(s, 1, Len(s) - 1) \in Seq(S)
             /\ Append(SubSeq(s, 1, Len(s) - 1), s[Len(s)]) = s
  <2>1. PICK r \in Seq(S), e \in S : s = Append(r, e)
    BY <1>4, SequenceEmptyOrAppend
  <2>2. Len(r) \in Nat /\ Len(s) = Len(r) + 1 /\ s[Len(s)] = e
    BY <2>1, AppendProperties, LenProperties
  <2>3. SubSeq(Append(r, e), 1, Len(r)) = r
    OBVIOUS
  <2>4. Len(s) - 1 = Len(r)
    BY <2>2
  <2>5. SubSeq(s, 1, Len(s) - 1) = r
    BY <2>1, <2>3, <2>4, Zenon
  <2>6. QED
    BY <2>1, <2>2, <2>5
<1>5. QED
  BY <1>2, <1>3, <1>4

LEMMA MouseStep == [KernelNext]_kernelVars => [Mouse!Next]_(Mouse!vars)
BY DEF KernelNext, Played, kernelVars, mouseVars, Mouse!vars

LEMMA MouseHeld ==
  ASSUME MouseInv
  PROVE  /\ moveHead \in 0 .. Size - 1 /\ moveTail \in 0 .. Size - 1
         /\ Mouse!Held = Count(Size, moveHead, moveTail)
         /\ Mouse!Contents = Ring(Size, moveHead, moveTail, moves)
         /\ Mouse!Contents \in Seq(Moves) /\ Len(Mouse!Contents) = Mouse!Held
<1>1. /\ Size \in Nat \ {0, 1} /\ moveHead \in 0 .. Size - 1 /\ moveTail \in 0 .. Size - 1
      /\ moves \in [0 .. Size - 1 -> Moves]
  BY MouseConstants DEF MouseInv, Mouse!TypeOK, Mouse!Slots
<1>2. /\ Mouse!Held = Count(Size, moveHead, moveTail)
      /\ Mouse!Contents = Ring(Size, moveHead, moveTail, moves)
  <2>1. \A h, t \in 0 .. Size - 1 : \A e :
          /\ (h + Size - t) % Size = Count(Size, h, t)
          /\ [i \in 1 .. (h + Size - t) % Size |-> e[(t + i - 1) % Size]]
               = Ring(Size, h, t, e)
    BY KeyMeant
  <2>2. QED
    BY <1>1, <2>1, Zenon DEF Mouse!Held, Mouse!Contents
<1>3. QED
  BY <1>1, <1>2, RingSeq

LEMMA MouseInvInit == KernelInit => MouseInv
<1> SUFFICES ASSUME Mouse!Init PROVE MouseInv
  BY DEF KernelInit
<1>1. Size \in Nat \ {0, 1}
  BY MouseConstants
<1>2. moves \in [0 .. Size - 1 -> Moves] /\ moveHead \in 0 .. Size - 1 /\ moveTail = moveHead
  BY <1>1 DEF Mouse!Init, Mouse!Slots, Moves
<1>3. Mouse!TypeOK
  BY <1>1 DEF Mouse!Init, Mouse!TypeOK, Mouse!Slots
<1>4. Mouse!Held = 0
  <2>1. \A h, t \in 0 .. Size - 1 : (h + Size - t) % Size = Count(Size, h, t)
    BY KeyMeant
  <2>2. Mouse!Held = Count(Size, moveHead, moveTail)
    BY <1>2, <2>1, Zenon DEF Mouse!Held
  <2>3. QED
    BY <1>1, <1>2, <2>2 DEF Count
<1>5. Mouse!Contents = <<>>
  BY <1>4 DEF Mouse!Contents
<1>6. Mouse!MovesKept
  BY <1>5 DEF Mouse!Init, Mouse!MovesKept
<1>7. QED
  BY <1>2, <1>3, <1>6 DEF Mouse!Init, MouseInv

(* A byte that arrives is a byte, and the third makes the packet whole.          *)
LEMMA MouseTypes ==
  ASSUME NEW s \in Seq(0 .. 255), NEW t \in Seq(0 .. 255), s # <<>>
  PROVE  /\ Head(s) \in 0 .. 255 /\ Tail(s) \in Seq(0 .. 255)
         /\ Append(t, Head(s)) \in Seq(0 .. 255) /\ Len(Append(t, Head(s))) = Len(t) + 1
         /\ Len(t) \in Nat
         /\ Len(t) = 2 =>
              /\ t[1] \in 0 .. 255 /\ t[2] \in 0 .. 255
              /\ Append(t, Head(s)) = <<t[1], t[2], Head(s)>>
<1>1. Head(s) \in 0 .. 255 /\ Tail(s) \in Seq(0 .. 255) /\ Len(t) \in Nat
  BY HeadTailProperties, LenProperties
<1>2. Append(t, Head(s)) \in Seq(0 .. 255) /\ Len(Append(t, Head(s))) = Len(t) + 1
  BY <1>1, AppendProperties
<1>3. ASSUME Len(t) = 2
      PROVE  /\ t[1] \in 0 .. 255 /\ t[2] \in 0 .. 255
             /\ Append(t, Head(s)) = <<t[1], t[2], Head(s)>>
  <2>1. t[1] \in 0 .. 255 /\ t[2] \in 0 .. 255
    <3>1. 1 \in 1 .. Len(t) /\ 2 \in 1 .. Len(t)
      BY <1>3
    <3>2. QED
      BY <3>1, ElementOfSeq
  <2> DEFINE h == Head(s)
  <2> HIDE DEF h
  <2> DEFINE a == Append(t, h)
             b == <<t[1], t[2], h>>
  <2>2. h \in 0 .. 255
    BY <1>1 DEF h
  <2>3. a \in Seq(0 .. 255) /\ Len(a) = 3 /\ a[1] = t[1] /\ a[2] = t[2] /\ a[3] = h
    <3>1. /\ a \in Seq(0 .. 255) /\ Len(a) = Len(t) + 1
          /\ \A i \in 1 .. Len(t) : a[i] = t[i]
          /\ a[Len(t) + 1] = h
      BY <2>2, AppendProperties
    <3> HIDE DEF a
    <3>2. QED
      BY <1>3, <3>1
  <2>4. b \in Seq(0 .. 255) /\ Len(b) = 3 /\ b[1] = t[1] /\ b[2] = t[2] /\ b[3] = h
    BY <2>1, <2>2
  <2> HIDE DEF a, b
  <2>5. \A i \in 1 .. 3 : a[i] = b[i]
    BY <2>3, <2>4
  <2>6. a = b
    BY <2>3, <2>4, <2>5, SeqEqual
  <2>7. QED
    BY <2>1, <2>6 DEF a, b, h
<1>4. QED
  BY <1>1, <1>2, <1>3

LEMMA MouseMoves ==
  ASSUME MouseInv, NEW dx \in Distances, NEW dy \in Distances, NEW b \in Buttons,
         Mouse!Move(dx, dy, b)
  PROVE  MouseInv'
<1> DEFINE w == Mouse!Encode(dx, dy, b)
           mv == [x |-> dx, y |-> -dy, buttons |-> b]
           l == Len(moved)
<1>1. /\ sending = <<>> /\ sending' = w /\ moved' = Append(moved, mv)
      /\ packet' = packet /\ moves' = moves /\ moveHead' = moveHead
      /\ moveTail' = moveTail /\ read' = read /\ losses' = losses
      /\ moveOverrun' = moveOverrun
  BY DEF Mouse!Move
<1>2. /\ w[1] \in 0 .. 255 /\ w[2] \in 0 .. 255 /\ w[3] \in 0 .. 255
      /\ w \in Seq(0 .. 255) /\ w # <<>> /\ w = <<w[1], w[2], w[3]>> /\ mv \in Moves
  <2>1. dx \in -256 .. 255 /\ dy \in -256 .. 255 /\ b \in 0 .. 7
    BY MouseConstants
  <2>2. Coded(dx, dy, b)
    BY <2>1, DecodeOfEncode, Zenon
  <2>3. QED
    BY <2>2, Zenon DEF Coded
<1>3. moved \in Seq(Moves)
  BY DEF MouseInv
<1> HIDE DEF w
<1>4. sending' \in Seq(0 .. 255) /\ sending' # <<>>
  BY <1>1, <1>2
<1>5. /\ moved' \in Seq(Moves) /\ l \in Nat /\ Len(moved') = l + 1
      /\ moved'[l + 1] = mv /\ moved' # <<>>
  <2> HIDE DEF mv
  <2>1. /\ Append(moved, mv) \in Seq(Moves) /\ Len(Append(moved, mv)) = l + 1 /\ l \in Nat
        /\ Append(moved, mv)[l + 1] = mv
    BY <1>2, <1>3, AppendProperties, LenProperties
  <2>2. QED
    BY <1>1, <2>1
<1>6. losses' = 0 => Underway'
  <2> SUFFICES ASSUME losses = 0 PROVE Underway'
    BY <1>1
  <2>1. packet' = <<>> /\ sending' = <<w[1], w[2], w[3]>>
    BY <1>1, <1>2 DEF MouseInv
  <2>2. moved'[Len(moved')] = mv
    BY <1>5
  <2>3. QED
    BY <1>5, <2>1, <2>2 DEF Underway, w
<1>7. Mouse!Contents' = Mouse!Contents
  BY <1>1, Zenon DEF Mouse!Contents, Mouse!Held
<1>8. Mouse!MovesKept'
  <2>1. SubSeq(moved', 1, l) = SubSeq(moved, 1, l)
    <3> HIDE DEF mv
    <3>1. SubSeq(Append(moved, mv), 1, l) = moved /\ SubSeq(moved, 1, l) = moved
      BY <1>2, <1>3, FrontOfAppend
    <3>2. QED
      BY <1>1, <3>1
  <2>2. losses = 0 /\ ~ moveOverrun => read \o Mouse!Contents = SubSeq(moved, 1, l)
    BY <1>1 DEF MouseInv, Mouse!MovesKept
  <2>3. Len(moved') - 1 = l
    BY <1>5
  <2>4. QED
    BY <1>1, <1>4, <1>7, <2>1, <2>2, <2>3, Zenon DEF Mouse!MovesKept
<1>9. Mouse!TypeOK'
  BY <1>1 DEF MouseInv, Mouse!TypeOK
<1>10. QED
  BY <1>1, <1>4, <1>5, <1>6, <1>8, <1>9 DEF MouseInv

LEMMA MouseLoses == MouseInv /\ Mouse!LoseByte => MouseInv'
<1> SUFFICES ASSUME MouseInv, Mouse!LoseByte PROVE MouseInv'
  OBVIOUS
<1>1. sending \in Seq(0 .. 255) /\ sending # <<>> /\ losses \in Nat
  BY DEF MouseInv, Mouse!LoseByte
<1>2. Tail(sending) \in Seq(0 .. 255)
  BY <1>1, HeadTailProperties
<1>3. losses' \in Nat /\ losses' # 0
  BY <1>1 DEF Mouse!LoseByte
<1>4. Mouse!TypeOK'
  BY DEF MouseInv, Mouse!LoseByte, Mouse!TypeOK
<1>5. Mouse!MovesKept'
  BY <1>3 DEF Mouse!MovesKept
<1>6. QED
  BY <1>2, <1>3, <1>4, <1>5 DEF MouseInv, Mouse!LoseByte

LEMMA MouseRead == MouseInv /\ Mouse!soiav_read_mouse => MouseInv'
<1> SUFFICES ASSUME MouseInv, Mouse!soiav_read_mouse PROVE MouseInv'
  OBVIOUS
<1> DEFINE c == Mouse!Contents
           n == Mouse!Held
<1>1. /\ moveTail # moveHead
      /\ read' = Append(read, moves[moveTail])
      /\ moveTail' = (moveTail + 1) % Size
      /\ UNCHANGED <<sending, packet, moves, moveHead, moved, losses, moveOverrun>>
  BY DEF Mouse!soiav_read_mouse
<1>2. /\ moveHead \in 0 .. Size - 1 /\ moveTail \in 0 .. Size - 1 /\ Size \in Nat \ {0, 1}
      /\ n = Count(Size, moveHead, moveTail) /\ c = Ring(Size, moveHead, moveTail, moves)
      /\ c \in Seq(Moves) /\ Len(c) = n /\ moves \in [0 .. Size - 1 -> Moves]
      /\ read \in Seq(Moves)
  BY MouseHeld, MouseConstants DEF MouseInv
<1> HIDE DEF c, n
<1>3. 1 \in 0 .. n /\ n \in Nat
  BY <1>1, <1>2 DEF Count
<1>4. /\ moveTail' \in 0 .. Size - 1
      /\ Count(Size, moveHead, moveTail') = n - 1
      /\ Ring(Size, moveHead, moveTail', moves) = SubSeq(c, 2, n)
  <2>1. Taken(Size, moveHead, moveTail, moves, 1)
    <3>1. 1 \in 0 .. Count(Size, moveHead, moveTail)
      BY <1>2, <1>3
    <3>2. QED
      BY <1>2, <3>1, RingTake, Zenon
  <2>2. /\ moveTail' \in 0 .. Size - 1
        /\ Count(Size, moveHead, moveTail') = n - 1
        /\ Ring(Size, moveHead, moveTail', moves) = SubSeq(c, 1 + 1, n)
    BY <1>1, <1>2, <2>1, Zenon DEF Taken
  <2>3. QED
    BY <2>2
<1>5. c[1] = moves[moveTail] /\ c[1] \in Moves
  <2>1. Spot(Size, moveTail, 1) = moveTail
    BY <1>2 DEF Spot
  <2>2. 1 \in 1 .. Count(Size, moveHead, moveTail)
    BY <1>2, <1>3
  <2>3. Ring(Size, moveHead, moveTail, moves)[1] = moves[Spot(Size, moveTail, 1)]
    BY <2>2 DEF Ring
  <2>4. QED
    BY <1>2, <2>1, <2>3
<1>6. Mouse!Contents' = SubSeq(c, 2, n)
  <2>1. moveHead' \in 0 .. Size - 1 /\ moveHead' = moveHead /\ moves' = moves
    BY <1>1, <1>2
  <2>2. \A h, t \in 0 .. Size - 1 : \A e :
          /\ (h + Size - t) % Size = Count(Size, h, t)
          /\ [i \in 1 .. (h + Size - t) % Size |-> e[(t + i - 1) % Size]]
               = Ring(Size, h, t, e)
    BY KeyMeant
  <2>3. Mouse!Contents' = Ring(Size, moveHead', moveTail', moves')
    <3>1. moveHead' \in 0 .. Size - 1 /\ moveTail' \in 0 .. Size - 1
      BY <1>4, <2>1
    <3>2. QED
      BY <2>2, <3>1, Zenon DEF Mouse!Held, Mouse!Contents
  <2>4. QED
    BY <1>4, <2>1, <2>3, Zenon
<1>7. read' \o Mouse!Contents' = read \o c /\ read' \in Seq(Moves)
  <2> DEFINE d == SubSeq(c, 2, n)
  <2>1. SubSeq(c, 1, 1) \in Seq(Moves) /\ d \in Seq(Moves) /\ c = SubSeq(c, 1, 1) \o d
    <3>1. 1 \in 0 .. Len(c) /\ 1 + 1 = 2
      BY <1>2, <1>3
    <3>2. /\ SubSeq(c, 1, 1) \in Seq(Moves) /\ SubSeq(c, 1 + 1, Len(c)) \in Seq(Moves)
          /\ c = SubSeq(c, 1, 1) \o SubSeq(c, 1 + 1, Len(c))
      BY <1>2, <3>1, CutInTwo
    <3>3. QED
      BY <1>2, <3>1, <3>2, Zenon
  <2>2. SubSeq(c, 1, 1) = <<c[1]>>
    BY <1>2, <1>3, <1>5
  <2> HIDE DEF d
  <2>3. \A a, b, e \in Seq(Moves) : (a \o b) \o e = a \o (b \o e)
    BY ConcatAssociative
  <2>4. <<c[1]>> \in Seq(Moves)
    BY <1>5
  <2>5. Append(read, c[1]) = read \o <<c[1]>> /\ Append(read, c[1]) \in Seq(Moves)
    BY <1>2, <1>5, AppendIsConcat, AppendProperties
  <2>6. (read \o <<c[1]>>) \o d = read \o (<<c[1]>> \o d)
    <3> DEFINE h == <<c[1]>>
    <3>1. read \in Seq(Moves) /\ h \in Seq(Moves) /\ d \in Seq(Moves)
      BY <1>2, <2>1, <2>4
    <3> HIDE DEF h
    <3>2. (read \o h) \o d = read \o (h \o d)
      BY ONLY <2>3, <3>1
    <3>3. QED
      BY <3>2 DEF h
  <2>7. read' = Append(read, c[1])
    BY <1>1, <1>5, Zenon
  <2>8. Append(read, c[1]) \o d = read \o c
    BY <2>1, <2>2, <2>5, <2>6, Zenon
  <2>9. Mouse!Contents' = d
    BY <1>6 DEF d
  <2>10. QED
    BY <2>5, <2>7, <2>8, <2>9, Zenon
<1>8. Mouse!MovesKept'
  <2>1. losses = 0 /\ ~ moveOverrun =>
          read \o c = SubSeq(moved, 1, IF sending = <<>> THEN Len(moved) ELSE Len(moved) - 1)
    BY Zenon DEF MouseInv, Mouse!MovesKept, c
  <2>2. QED
    BY <1>1, <1>7, <2>1, Zenon DEF Mouse!MovesKept
<1>9. Mouse!TypeOK'
  BY <1>1, <1>4 DEF MouseInv, Mouse!TypeOK, Mouse!Slots
<1>10. losses' = 0 => IF sending' = <<>> THEN packet' = <<>> ELSE Underway'
  <2>1. sending' = sending /\ packet' = packet /\ moved' = moved
    BY <1>1
  <2>2. Underway' <=> Underway
    BY ONLY <2>1 DEF Underway
  <2>3. losses = 0 => IF sending = <<>> THEN packet = <<>> ELSE Underway
    BY DEF MouseInv
  <2>4. QED
    BY <1>1, <2>2, <2>3, Zenon
<1>11. QED
  BY <1>1, <1>7, <1>8, <1>9, <1>10 DEF MouseInv
LEMMA PairOf ==
  ASSUME NEW S, NEW x \in S, NEW y \in S
  PROVE  Append(<<x>>, y) = <<x, y>>
<1> DEFINE s == <<x>>
           a == Append(s, y)
           b == <<x, y>>
<1>1. s \in Seq(S) /\ Len(s) = 1 /\ s[1] = x
  OBVIOUS
<1>2. b \in Seq(S) /\ Len(b) = 2 /\ b[1] = x /\ b[2] = y
  OBVIOUS
<1> HIDE DEF s, b
<1>3. /\ a \in Seq(S) /\ Len(a) = Len(s) + 1 /\ a[Len(s) + 1] = y
      /\ \A i \in 1 .. Len(s) : a[i] = s[i]
  <2> HIDE DEF a
  <2>1. \A q \in Seq(S) : /\ Append(q, y) \in Seq(S) /\ Len(Append(q, y)) = Len(q) + 1
                           /\ Append(q, y)[Len(q) + 1] = y
                           /\ \A i \in 1 .. Len(q) : Append(q, y)[i] = q[i]
    BY AppendProperties
  <2>2. QED
    BY <1>1, <2>1, Zenon DEF a
<1> HIDE DEF a
<1>4. Len(a) = 2 /\ a[1] = x /\ a[2] = y
  BY <1>1, <1>3
<1>5. \A i \in 1 .. 2 : a[i] = b[i]
  BY <1>2, <1>4
<1>6. a = b
  BY <1>2, <1>3, <1>4, <1>5, SeqEqual
<1>7. QED
  BY <1>6 DEF a, b, s

LEMMA MouseInterrupted == MouseInv /\ Mouse!mouse_interrupt => MouseInv'
<1> SUFFICES ASSUME MouseInv, Mouse!mouse_interrupt PROVE MouseInv'
  OBVIOUS
<1> DEFINE c == Mouse!Contents
           n == Mouse!Held
           hd == Head(sending)
           l == Len(moved)
           inv == IF sending = <<>> THEN packet = <<>> ELSE Underway
<1>1. /\ sending # <<>> /\ sending' = Tail(sending)
      /\ moveTail' = moveTail /\ moved' = moved /\ read' = read /\ losses' = losses
  BY DEF Mouse!mouse_interrupt
<1>2. /\ moveHead \in 0 .. Size - 1 /\ moveTail \in 0 .. Size - 1 /\ Size \in Nat \ {0, 1}
      /\ n = Count(Size, moveHead, moveTail) /\ c = Ring(Size, moveHead, moveTail, moves)
      /\ c \in Seq(Moves) /\ Len(c) = n /\ moves \in [0 .. Size - 1 -> Moves]
      /\ moved \in Seq(Moves) /\ read \in Seq(Moves)
  BY MouseHeld, MouseConstants DEF MouseInv
<1>3. /\ sending' \in Seq(0 .. 255) /\ hd \in 0 .. 255
      /\ Append(packet, hd) \in Seq(0 .. 255) /\ Len(Append(packet, hd)) = Len(packet) + 1
      /\ Len(packet) \in Nat
      /\ Len(packet) = 2 =>
           /\ packet[1] \in 0 .. 255 /\ packet[2] \in 0 .. 255
           /\ Append(packet, hd) = <<packet[1], packet[2], hd>>
  <2>1. sending \in Seq(0 .. 255) /\ packet \in Seq(0 .. 255)
    BY DEF MouseInv
  <2>2. QED
    BY <1>1, <2>1, MouseTypes
<1>4. Len(packet) <= 2 /\ (losses = 0 => Underway) /\ losses \in Nat
  BY <1>1 DEF MouseInv, Mouse!TypeOK
<1>5. losses = 0 /\ ~ moveOverrun => read \o c = SubSeq(moved, 1, l - 1)
  BY <1>1, Zenon DEF MouseInv, Mouse!MovesKept, c, l
<1> HIDE DEF c, n, hd, l
<1>6. CASE Len(packet) = 2
  <2> DEFINE k == Mouse!Decode(Append(packet, hd))
  <2>1. /\ moves' = [moves EXCEPT ![moveHead] = k]
        /\ moveHead' = (moveHead + 1) % Size
        /\ moveOverrun' = (moveOverrun \/ n = Size - 1)
        /\ packet' = <<>>
    BY <1>6, Zenon DEF Mouse!mouse_interrupt, hd, n
  <2>2. k \in Moves
    BY <1>3, <1>6, DecodeType
  <2>3. losses = 0 =>
          /\ k = moved[l] /\ sending' = <<>> /\ moved # <<>>
    <3> SUFFICES ASSUME losses = 0 PROVE k = moved[l] /\ sending' = <<>> /\ moved # <<>>
      OBVIOUS
    <3>1. moved # <<>>
      BY <1>4 DEF Underway
    <3>2. PICK dx \in Distances, dy \in Distances, b \in Buttons :
            LET w == Mouse!Encode(dx, dy, b) IN
            /\ moved[l] = [x |-> dx, y |-> -dy, buttons |-> b]
            /\ \/ packet = <<>> /\ sending = <<w[1], w[2], w[3]>>
               \/ packet = <<w[1]>> /\ sending = <<w[2], w[3]>>
               \/ packet = <<w[1], w[2]>> /\ sending = <<w[3]>>
      BY <1>4 DEF Underway, l
    <3> DEFINE w == Mouse!Encode(dx, dy, b)
    <3>3. Coded(dx, dy, b)
      <4>1. dx \in -256 .. 255 /\ dy \in -256 .. 255 /\ b \in 0 .. 7
        BY MouseConstants
      <4>2. QED
        BY <4>1, DecodeOfEncode, Zenon
    <3>4. /\ moved[l] = [x |-> dx, y |-> -dy, buttons |-> b]
          /\ Mouse!Decode(<<w[1], w[2], w[3]>>) = [x |-> dx, y |-> -dy, buttons |-> b]
      BY <3>2, <3>3, Zenon DEF Coded
    <3>5. packet = <<w[1], w[2]>> /\ sending = <<w[3]>>
      <4> HIDE DEF w
      <4>1. \/ packet = <<>> /\ sending = <<w[1], w[2], w[3]>>
            \/ packet = <<w[1]>> /\ sending = <<w[2], w[3]>>
            \/ packet = <<w[1], w[2]>> /\ sending = <<w[3]>>
        BY <3>2, Zenon DEF w
      <4>2. QED
        BY <1>6, <4>1
    <3> HIDE DEF w
    <3>6. packet[1] = w[1] /\ packet[2] = w[2] /\ hd = w[3] /\ Tail(sending) = <<>>
      BY <3>5 DEF hd
    <3>7. Append(packet, hd) = <<w[1], w[2], w[3]>>
      BY <1>3, <1>6, <3>6
    <3>8. QED
      BY <1>1, <3>1, <3>4, <3>6, <3>7, Zenon DEF k
  <2> HIDE DEF k
  <2>4. Pushed(Size, moveHead, moveTail, Moves, moves, k)
    BY <1>2, <2>2, RingPush, Zenon
  <2>5. /\ moveHead' \in 0 .. Size - 1 /\ moves' \in [0 .. Size - 1 -> Moves]
        /\ n # Size - 1 =>
             /\ Count(Size, moveHead', moveTail) = n + 1
             /\ Ring(Size, moveHead', moveTail, moves') = Append(c, k)
    BY <1>2, <2>1, <2>4, Zenon DEF Pushed
  <2>6. n # Size - 1 => Mouse!Contents' = Append(c, k)
    <3>1. \A h, t \in 0 .. Size - 1 : \A e :
            /\ (h + Size - t) % Size = Count(Size, h, t)
            /\ [i \in 1 .. (h + Size - t) % Size |-> e[(t + i - 1) % Size]]
                 = Ring(Size, h, t, e)
      BY KeyMeant
    <3>2. moveHead' \in 0 .. Size - 1 /\ moveTail' \in 0 .. Size - 1 /\ moveTail' = moveTail
      BY <1>1, <1>2, <2>5
    <3>3. Mouse!Contents' = Ring(Size, moveHead', moveTail', moves')
      BY <3>1, <3>2, Zenon DEF Mouse!Held, Mouse!Contents
    <3>4. QED
      BY <2>5, <3>2, <3>3, Zenon
  <2>7. Mouse!MovesKept'
    <3> SUFFICES ASSUME losses = 0, ~ moveOverrun, n # Size - 1
                 PROVE  read \o Mouse!Contents' = SubSeq(moved, 1, l)
      <4>1. losses' = 0 /\ ~ moveOverrun' => losses = 0 /\ ~ moveOverrun /\ n # Size - 1
        BY <1>1, <2>1
      <4>2. losses = 0 => sending' = <<>>
        BY <2>3
      <4>3. QED
        BY <1>1, <4>1, <4>2, Zenon DEF Mouse!MovesKept, l
    <3>1. k = moved[l] /\ moved # <<>> /\ read \o c = SubSeq(moved, 1, l - 1)
      BY <1>5, <2>3
    <3>2. /\ SubSeq(moved, 1, l) = moved
          /\ Append(SubSeq(moved, 1, l - 1), moved[l]) = moved
      BY <1>2, <2>2, <3>1, FrontOfAppend DEF l
    <3>3. read \o Append(c, k) = Append(read \o c, k)
      BY <1>2, <2>2, AppendOfConcat
    <3>4. Mouse!Contents' = Append(c, k)
      BY <2>6
    <3>5. QED
      BY <3>1, <3>2, <3>3, <3>4, Zenon
  <2>8. Mouse!TypeOK'
    <3>1. \A m \in Moves : m.x \in -256 .. 255 /\ m.y \in -255 .. 256 /\ m.buttons \in 0 .. 7
      BY DEF Moves
    <3>2. \A s \in 0 .. Size - 1 : moves'[s] \in Moves
      BY <2>5
    <3>3. packet' = <<>> /\ Len(packet') = 0
      BY <2>1
    <3>4. QED
      BY <1>1, <1>2, <2>5, <3>1, <3>2, <3>3 DEF Mouse!TypeOK, Mouse!Slots
  <2>9. packet' \in Seq(0 .. 255)
    BY <2>1
  <2>10. losses' = 0 => IF sending' = <<>> THEN packet' = <<>> ELSE Underway'
    BY <1>1, <2>1, <2>3, Zenon
  <2>11. QED
    BY <1>1, <1>2, <1>3, <1>4, <2>5, <2>7, <2>8, <2>9, <2>10, Zenon DEF MouseInv
<1>7. CASE Len(packet) # 2
  <2>1. packet' = Append(packet, hd) /\ UNCHANGED <<moves, moveHead, moveOverrun>>
    BY <1>7, Zenon DEF Mouse!mouse_interrupt, hd
  <2>2. losses = 0 => Underway' /\ sending' # <<>>
    <3> SUFFICES ASSUME losses = 0 PROVE Underway' /\ sending' # <<>>
      OBVIOUS
    <3>1. moved # <<>>
      BY <1>4 DEF Underway
    <3>2. PICK dx \in Distances, dy \in Distances, b \in Buttons :
            LET w == Mouse!Encode(dx, dy, b) IN
            /\ moved[Len(moved)] = [x |-> dx, y |-> -dy, buttons |-> b]
            /\ \/ packet = <<>> /\ sending = <<w[1], w[2], w[3]>>
               \/ packet = <<w[1]>> /\ sending = <<w[2], w[3]>>
               \/ packet = <<w[1], w[2]>> /\ sending = <<w[3]>>
      BY <1>4 DEF Underway
    <3> DEFINE w == Mouse!Encode(dx, dy, b)
    <3>6. w[1] \in 0 .. 255 /\ w[2] \in 0 .. 255 /\ w[3] \in 0 .. 255
      <4>1. dx \in -256 .. 255 /\ dy \in -256 .. 255 /\ b \in 0 .. 7
        BY MouseConstants
      <4>2. Coded(dx, dy, b)
        BY <4>1, DecodeOfEncode, Zenon
      <4>3. QED
        BY <4>2, Zenon DEF Coded
    <3>3. \/ packet = <<>> /\ sending = <<w[1], w[2], w[3]>>
          \/ packet = <<w[1]>> /\ sending = <<w[2], w[3]>>
      <4> HIDE DEF w
      <4>1. \/ packet = <<>> /\ sending = <<w[1], w[2], w[3]>>
            \/ packet = <<w[1]>> /\ sending = <<w[2], w[3]>>
            \/ packet = <<w[1], w[2]>> /\ sending = <<w[3]>>
        BY <3>2, Zenon DEF w
      <4>2. QED
        BY <1>7, <4>1
    <3>4. /\ \/ packet' = <<w[1]>> /\ sending' = <<w[2], w[3]>>
             \/ packet' = <<w[1], w[2]>> /\ sending' = <<w[3]>>
          /\ sending' # <<>>
      <4> HIDE DEF w
      <4>1. CASE packet = <<>> /\ sending = <<w[1], w[2], w[3]>>
        <5>1. \A x, y, z : /\ Head(<<x, y, z>>) = x /\ Tail(<<x, y, z>>) = <<y, z>>
                           /\ Append(<<>>, x) = <<x>>
          OBVIOUS
        <5>2. sending' = <<w[2], w[3]>> /\ packet' = <<w[1]>>
          BY <1>1, <2>1, <4>1, <5>1, Zenon DEF hd
        <5>3. QED
          BY <5>2
      <4>2. CASE packet = <<w[1]>> /\ sending = <<w[2], w[3]>>
        <5>1. \A y, z : Head(<<y, z>>) = y /\ Tail(<<y, z>>) = <<z>>
          OBVIOUS
        <5>2. Append(<<w[1]>>, w[2]) = <<w[1], w[2]>>
          BY <3>6, PairOf
        <5>3. sending' = <<w[3]>> /\ packet' = <<w[1], w[2]>>
          BY <1>1, <2>1, <4>2, <5>1, <5>2, Zenon DEF hd
        <5>4. QED
          BY <5>3
      <4>3. QED
        BY <3>3, <4>1, <4>2
    <3>5. QED
      BY <1>1, <3>1, <3>2, <3>4, Zenon DEF Underway
  <2>3. Mouse!Contents' = c
    BY <1>1, <2>1, Zenon DEF Mouse!Contents, Mouse!Held, c
  <2>4. Mouse!MovesKept'
    BY <1>1, <1>5, <2>1, <2>2, <2>3, Zenon DEF Mouse!MovesKept, l
  <2>5. packet' \in Seq(0 .. 255) /\ Len(packet') <= 2
    <3>1. packet' \in Seq(0 .. 255) /\ Len(packet') = Len(packet) + 1
      BY <1>3, <2>1, Zenon
    <3>2. Len(packet) + 1 <= 2
      <4>1. \A x \in Nat : x <= 2 /\ x # 2 => x + 1 <= 2
        OBVIOUS
      <4>2. QED
        BY <1>3, <1>4, <1>7, <4>1, Zenon
    <3>3. QED
      BY <3>1, <3>2, Zenon
  <2>6. \A i \in DOMAIN packet' : packet'[i] \in 0 .. 255
    <3>1. DOMAIN packet' = 1 .. Len(packet')
      BY <2>5, LenProperties
    <3>2. QED
      BY <2>5, <3>1, ElementOfSeq
  <2>7. Mouse!TypeOK'
    <3>1. Mouse!TypeOK
      BY DEF MouseInv
    <3>2. \A s \in 0 .. Size - 1 :
            moves[s].x \in -256 .. 255 /\ moves[s].y \in -255 .. 256
            /\ moves[s].buttons \in 0 .. 7
      BY <3>1, Zenon DEF Mouse!TypeOK, Mouse!Slots
    <3>3. \A s \in 0 .. Size - 1 :
            moves'[s].x \in -256 .. 255 /\ moves'[s].y \in -255 .. 256
            /\ moves'[s].buttons \in 0 .. 7
      BY ONLY <2>1, <3>2
    <3>4. moveHead' \in 0 .. Size - 1 /\ moveTail' \in 0 .. Size - 1
      BY <1>1, <1>2, <2>1
    <3>5. QED
      BY <2>5, <2>6, <3>3, <3>4, Zenon DEF Mouse!TypeOK, Mouse!Slots
  <2>8. losses' = 0 => IF sending' = <<>> THEN packet' = <<>> ELSE Underway'
    BY <1>1, <2>2, Zenon
  <2>9. QED
    BY <1>1, <1>2, <1>3, <1>4, <2>1, <2>4, <2>5, <2>7, <2>8, Zenon DEF MouseInv
<1>8. QED
  BY <1>6, <1>7

LEMMA MouseInvNext == MouseInv /\ [Mouse!Next]_(Mouse!vars) => MouseInv'
<1>1. ASSUME MouseInv, UNCHANGED Mouse!vars PROVE MouseInv'
  <2>1. Underway' <=> Underway
    <3>1. sending' = sending /\ packet' = packet /\ moved' = moved
      BY <1>1 DEF Mouse!vars
    <3>2. QED
      BY ONLY <3>1 DEF Underway
  <2>2. Mouse!Contents' = Mouse!Contents
    BY <1>1, Zenon DEF Mouse!vars, Mouse!Contents, Mouse!Held
  <2>3. Mouse!MovesKept' <=> Mouse!MovesKept
    BY <1>1, <2>2, Zenon DEF Mouse!vars, Mouse!MovesKept
  <2>4. Mouse!TypeOK' <=> Mouse!TypeOK
    BY <1>1 DEF Mouse!vars, Mouse!TypeOK
  <2>5. QED
    BY <1>1, <2>1, <2>3, <2>4, Zenon DEF Mouse!vars, MouseInv
<1>2. QED
  BY <1>1, MouseMoves, MouseInterrupted, MouseLoses, MouseRead DEF Mouse!Next

(* What the keyboard and the mouse have sent is what their readers got and will     *)
(* get, until a ring is overrun (keyboard_interrupt, mouse_interrupt and the     *)
(* soiav_read functions).                                                     *)
THEOREM InputStaysKept == KernelSpec => []InputKept
<1>1. KernelInit => KeyInv /\ MouseInv
  BY KeyInvInit, MouseInvInit
<1>2. KeyInv /\ MouseInv /\ [KernelNext]_kernelVars => (KeyInv /\ MouseInv)'
  BY KeyInvNext, MouseInvNext, KeyStep, MouseStep
<1>3. KeyInv /\ MouseInv => InputKept
  BY DEF KeyInv, MouseInv, InputKept
<1>4. QED
  BY <1>1, <1>2, <1>3, PTL DEF KernelSpec
=============================================================================
