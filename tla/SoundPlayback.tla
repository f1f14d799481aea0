---------------------------- MODULE SoundPlayback ----------------------------
(***************************************************************************)
(* The sound driver (src/Kernel/Drivers/Sound.c): threads that hand a sound    *)
(* to the card, and the interrupt handler that copies it to the card portion   *)
(* by portion.  They share playback.buffer, buffer_len and buffer_pos under    *)
(* one lock, and playback.active without it.                                *)
(*                                                                         *)
(* Each player has a CPU of its own; an interrupt comes to one of these or to  *)
(* another one.  Sounds are numbered in the order the players take them up;    *)
(* 0 is no sound.                                                          *)
(***************************************************************************)
EXTENDS Integers, Sequences

CONSTANTS
  Players,        (* threads that play sounds                              *)
  Prober,         (* the one that runs soiav_audio_probe                    *)
  Other,          (* a CPU without a player                                *)
  BUFFER_SIZE,    (* samples in a portion; 8192 in the code                *)
  SystemLen,      (* samples of a system sound; SAMPLE_RATE / 4 in the code  *)
  WavLens,        (* audio_samples of the files: below 0 for one that is      *)
                  (* shorter than its header                               *)
  MaxPlays        (* bound: sounds                                         *)

(* Assumed of the constants; the modules that instantiate this one check it. *)
SoundAssumption ==
  /\ Prober \in Players /\ Other \notin Players
  /\ BUFFER_SIZE \in Nat \ {0} /\ SystemLen \in Nat
  /\ WavLens \subseteq Int
  /\ MaxPlays \in Nat

VARIABLES
  listed,         (* audio_devices is the card                             *)
  active, buffer, buffer_len, buffer_pos,      (* playback's fields          *)
  lock,           (* the player that holds playback.lock, or Other          *)
  interrupt,      (* the CPUs on which the handler waits for the lock       *)
  pc,
  mine,           (* per player the sound under way                        *)
  sounds,         (* history: per sound its length and whether it is a       *)
                  (* system sound                                          *)
  dma             (* the last portion in dma_buffer                         *)

vars == <<listed, active, buffer, buffer_len, buffer_pos, lock, interrupt, pc, mine,
          sounds, dma>>

Silence == [sound |-> 0, from |-> 0, to |-> 0]
Free == Other
Goto(p, l) == pc' = [pc EXCEPT ![p] = l]

(* The device as kzalloc and soiav_audio_probe leave it before request_irq.  *)
Init ==
  /\ listed = FALSE
  /\ active = TRUE /\ buffer = 0 /\ buffer_len = 0 /\ buffer_pos = 0
  /\ lock = Free /\ interrupt = {}
  /\ pc = [p \in Players |-> IF p = Prober THEN "request_irq" ELSE "idle"]
  /\ mine = [p \in Players |-> 0]
  /\ sounds = <<>>
  /\ dma = Silence

(* A player whose CPU serves the interrupt does not go on.                   *)
Runs(p) == p \notin interrupt

playback == <<active, buffer, buffer_len, buffer_pos, lock>>

(* request_irq; when it fails the device is given up before anyone sees it.    *)
RequestIrq ==
  /\ pc[Prober] = "request_irq"
  /\ Goto(Prober, "list") \/ Goto(Prober, "gone")
  /\ UNCHANGED <<listed, playback, interrupt, mine, sounds, dma>>

(* The rest of soiav_audio_probe, up to the test sound.                      *)
List ==
  /\ pc[Prober] = "list" /\ Runs(Prober)
  /\ listed' = TRUE
  /\ Goto(Prober, "test")
  /\ UNCHANGED <<playback, interrupt, mine, sounds, dma>>

(* The player tests active, without the lock, and has its samples ready.      *)
Take(p, len, system) ==
  /\ listed /\ Runs(p)
  /\ pc[p] \in {"idle", "test"}
  /\ active
  /\ Len(sounds) < MaxPlays
  /\ sounds' = Append(sounds, [len |-> len, system |-> system])
  /\ mine' = [mine EXCEPT ![p] = Len(sounds')]
  /\ Goto(p, "lock")
  /\ UNCHANGED <<listed, playback, interrupt, dma>>

(* Early returns: no card that plays, or no memory for the samples.           *)
Refuse(p) ==
  /\ pc[p] = "test" /\ Runs(p)
  /\ Goto(p, "idle")
  /\ UNCHANGED <<listed, playback, interrupt, mine, sounds, dma>>

soiav_play_system_sound(p) == Take(p, SystemLen, TRUE)
soiav_play_wav(p) == pc[p] = "idle" /\ \E n \in WavLens : Take(p, n, FALSE)

(* spin_lock, which leaves interrupts enabled.                              *)
Lock(p) ==
  /\ pc[p] = "lock" /\ Runs(p)
  /\ lock = Free
  /\ lock' = p
  /\ Goto(p, "buffer")
  /\ UNCHANGED <<listed, active, buffer, buffer_len, buffer_pos, interrupt, mine,
                 sounds, dma>>

SetBuffer(p) ==
  /\ pc[p] = "buffer" /\ Runs(p)
  /\ buffer' = mine[p]
  /\ Goto(p, "len")
  /\ UNCHANGED <<listed, active, buffer_len, buffer_pos, lock, interrupt, mine, sounds,
                 dma>>

SetLen(p) ==
  /\ pc[p] = "len" /\ Runs(p)
  /\ buffer_len' = sounds[mine[p]].len
  /\ Goto(p, "pos")
  /\ UNCHANGED <<listed, active, buffer, buffer_pos, lock, interrupt, mine, sounds, dma>>

(* buffer_pos = 0 and spin_unlock.                                         *)
SetPos(p) ==
  /\ pc[p] = "pos" /\ Runs(p)
  /\ buffer_pos' = 0
  /\ lock' = Free
  /\ Goto(p, IF sounds[mine[p]].system THEN "kfree" ELSE "idle")
  /\ UNCHANGED <<listed, active, buffer, buffer_len, interrupt, mine, sounds, dma>>

(* kfree of the samples that were just handed over: playback.buffer still       *)
(* points to them, and the handler reads what has become of that memory.      *)
KFree(p) ==
  /\ pc[p] = "kfree" /\ Runs(p)
  /\ mine' = [mine EXCEPT ![p] = 0]
  /\ Goto(p, "idle")
  /\ UNCHANGED <<listed, playback, interrupt, sounds, dma>>

(* The card, or a device that shares its line (IRQF_SHARED), interrupts a CPU:  *)
(* any of them, the one of the player that holds the lock included.           *)
Interrupt(c) ==
  /\ pc[Prober] \notin {"request_irq", "gone"}
  /\ interrupt = {}
  /\ interrupt' = {c}
  /\ UNCHANGED <<listed, playback, pc, mine, sounds, dma>>

Least(a, b) == IF a < b THEN a ELSE b

(* The handler in its critical section: the next portion, or the end.        *)
Copy ==
  IF buffer_pos < buffer_len
    THEN LET copy == Least(BUFFER_SIZE, buffer_len - buffer_pos) IN
         /\ dma' = [sound |-> buffer, from |-> buffer_pos, to |-> buffer_pos + copy]
         /\ buffer_pos' = buffer_pos + copy
         /\ UNCHANGED active
    ELSE /\ active' = FALSE
         /\ UNCHANGED <<dma, buffer_pos>>

(* Mutant: the handler does not take the lock.                              *)
handler_unlocked ==
  /\ interrupt # {}
  /\ IF active THEN Copy ELSE UNCHANGED <<active, dma, buffer_pos>>
  /\ interrupt' = {}
  /\ UNCHANGED <<listed, buffer, buffer_len, lock, pc, mine, sounds>>

(* Mutant: the end is not recognised.                                      *)
handler_without_end ==
  /\ interrupt # {}
  /\ lock = Free
  /\ IF active /\ buffer_pos + BUFFER_SIZE <= buffer_len THEN Copy
     ELSE UNCHANGED <<active, dma, buffer_pos>>
  /\ interrupt' = {}
  /\ UNCHANGED <<listed, buffer, buffer_len, lock, pc, mine, sounds>>

audio_interrupt ==
  /\ interrupt # {}
  /\ lock = Free
  /\ IF active THEN Copy ELSE UNCHANGED <<active, dma, buffer_pos>>
  /\ interrupt' = {}
  /\ UNCHANGED <<listed, buffer, buffer_len, lock, pc, mine, sounds>>

(* What a player that has begun goes on with.                              *)
Advance(p) ==
  Lock(p) \/ SetBuffer(p) \/ SetLen(p) \/ SetPos(p) \/ KFree(p)

Next ==
  \/ RequestIrq \/ List
  \/ \E p \in Players :
       \/ soiav_play_system_sound(p) \/ soiav_play_wav(p) \/ Refuse(p) \/ Advance(p)
  \/ \E c \in Players \union {Other} : Interrupt(c)
  \/ audio_interrupt

(* A card interrupts again and again.                                      *)
CardInterrupts == \E c \in Players \union {Other} : Interrupt(c)

FairSpec ==
  /\ Init /\ [][Next]_vars
  /\ \A p \in Players : WF_vars(Advance(p))
  /\ WF_vars(CardInterrupts) /\ WF_vars(audio_interrupt)
-----------------------------------------------------------------------------
TypeOK ==
  /\ listed \in BOOLEAN /\ active \in BOOLEAN
  /\ buffer \in 0 .. Len(sounds)
  /\ buffer_len \in Int /\ buffer_pos \in Nat
  /\ lock \in Players \union {Free}
  /\ interrupt \subseteq Players \union {Other}
  /\ mine \in [Players -> 0 .. Len(sounds)]

(* Every portion lies within the sound it is taken from, begins where the      *)
(* sound's last portion ended, or at 0, and is as long as it can be; between   *)
(* critical sections buffer, buffer_len and buffer_pos are of one sound.      *)
PortionsInOrder ==
  /\ dma # Silence =>
       /\ 0 <= dma.from /\ dma.from < dma.to /\ dma.to <= sounds[dma.sound].len
       /\ dma.to - dma.from = Least(BUFFER_SIZE, sounds[dma.sound].len - dma.from)
  /\ lock = Free =>
       /\ buffer # 0 => buffer_len = sounds[buffer].len
       /\ buffer_pos = IF dma.sound = buffer THEN dma.to ELSE 0

(* The handler spins for a lock that the player it has interrupted holds: no   *)
(* step of either can come any more.                                        *)
Stuck == lock \in interrupt

(* A sound that the card plays is played to its end, unless another one takes   *)
(* its place, or the card interrupts the CPU of a player within its critical    *)
(* section, which is entered with interrupts enabled.  In no other order of     *)
(* players and interrupts does a sound stop before its end.                  *)
SoundEnds ==
  \A s \in 1 .. MaxPlays :
    active /\ buffer = s ~>
      \/ buffer # s
      \/ sounds[s].len <= 0
      \/ dma.sound = s /\ dma.to = sounds[s].len
      \/ Stuck
=============================================================================
