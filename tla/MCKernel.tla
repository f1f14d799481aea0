------------------------------ MODULE MCKernel ------------------------------
(***************************************************************************)
(* The kernel outside the IPC subsystem and the windows: the events of the      *)
(* display server (EventRing) and its clients' connections (ClientSlots), the    *)
(* scancodes and the movements of the input driver (KeyboardInput, MouseInput),  *)
(* the sound driver (SoundPlayback) and the file system (SoiavFs).  They share    *)
(* no state, and in a behaviour only one of them moves.                       *)
(***************************************************************************)
EXTENDS EventRing, Integers

CONSTANTS
  Chars, Mute, NoKey, MaxTyped, MaxRead,
  Distances, Buttons, MaxMoves, MaxLosses,
  Size,           (* slots of the rings of the input driver                *)
  Players, Prober, Other, BUFFER_SIZE, SystemLen, WavLens, MaxPlays,
  Names, Inos, Former, MaxCreates, MaxFaults,
  MAX_CLIENTS, MaxConns

VARIABLES
  part,           (* what moves                                            *)
  keys, keyHead, keyTail, typed, text, keyOverrun,
  sending, packet, moves, moveHead, moveTail, moved, read, losses, moveOverrun,
  listed, active, samples, buffer_len, buffer_pos, lock, interrupt, player, mine,
  sounds, dma,
  super, root, dir, inode, dirBuffer, inodeBuffer, stage, dentries, call, creates,
  faults, created, refused,
  open, conns, client_fd, client_count, socket, thread, owned, unserved

Keyboard == INSTANCE KeyboardInput WITH
  buffer <- keys, head <- keyHead, tail <- keyTail, overrun <- keyOverrun
Mouse == INSTANCE MouseInput WITH
  buffer <- moves, head <- moveHead, tail <- moveTail, overrun <- moveOverrun
Sound == INSTANCE SoundPlayback WITH buffer <- samples, pc <- player
Volume == INSTANCE SoiavFs
Display == INSTANCE ClientSlots WITH slot <- owned
ASSUME KeyboardAssumed == Keyboard!KeyboardAssumption
ASSUME MouseAssumed == Mouse!MouseAssumption
ASSUME SoundAssumed == Sound!SoundAssumption
ASSUME VolumeAssumed == Volume!FsAssumption
ASSUME DisplayAssumed == Display!SlotAssumption

(* The ends of the range of a movement, and the values about zero.          *)
MCDistances == {-256, -1, 0, 255}

(* A file that is shorter than its header, and one of two portions.          *)
MCWavLens == {-1, 3}

(* A former volume with one file.                                          *)
MCFormer == {<<[name |-> CHOOSE n \in Names : TRUE, ino |-> 3, id |-> 0]>>}

keyVars == <<keys, keyHead, keyTail, typed, text, keyOverrun>>
mouseVars == <<sending, packet, moves, moveHead, moveTail, moved, read, losses,
               moveOverrun>>
soundVars == <<listed, active, samples, buffer_len, buffer_pos, lock, interrupt, player,
               mine, sounds, dma>>
fsVars == <<super, root, dir, inode, dirBuffer, inodeBuffer, stage, dentries, call,
            creates, faults, created, refused>>
clientVars == <<open, conns, client_fd, client_count, socket, thread, owned, unserved>>
kernelVars == <<vars, keyVars, mouseVars, soundVars, fsVars, clientVars, part>>

KernelInit ==
  /\ part \in {"events", "keys", "moves", "sound", "files", "clients"}
  /\ Init /\ Keyboard!Init /\ Mouse!Init /\ Sound!Init /\ Volume!Init /\ Display!Init

Played(A) ==
  /\ part = "sound" /\ A
  /\ UNCHANGED <<part, vars, keyVars, mouseVars, fsVars, clientVars>>

KernelNext ==
  \/ /\ part = "events" /\ Next
     /\ UNCHANGED <<part, keyVars, mouseVars, soundVars, fsVars, clientVars>>
  \/ /\ part = "keys" /\ Keyboard!Next
     /\ UNCHANGED <<part, vars, mouseVars, soundVars, fsVars, clientVars>>
  \/ /\ part = "moves" /\ Mouse!Next
     /\ UNCHANGED <<part, vars, keyVars, soundVars, fsVars, clientVars>>
  \/ Played(Sound!Next)
  \/ /\ part = "files" /\ Volume!Next
     /\ UNCHANGED <<part, vars, keyVars, mouseVars, soundVars, clientVars>>
  \/ /\ part = "clients" /\ Display!Next
     /\ UNCHANGED <<part, vars, keyVars, mouseVars, soundVars, fsVars>>

(* The fairness of SoundPlayback: players that run, a card that interrupts, and  *)
(* a handler that gets the lock when it is free.                             *)
KernelSpec ==
  /\ KernelInit /\ [][KernelNext]_kernelVars
  /\ \A p \in Players : WF_kernelVars(Played(Sound!Advance(p)))
  /\ WF_kernelVars(Played(Sound!CardInterrupts))
  /\ WF_kernelVars(Played(Sound!audio_interrupt))

-----------------------------------------------------------------------------
(* The events, with indices inside the array, are each given to one client.  *)
EventsDeliveredOnce == TypeOK /\ DeliveredOnce

(* Whatever keyboard_interrupt has saved, soiav_read_keyboard returns, until  *)
(* the ring is overrun; mouse_interrupt decodes what the mouse encodes, and     *)
(* lost bytes never make it leave its array or the range of a movement.       *)
InputKept ==
  /\ Keyboard!TypeOK /\ Keyboard!NoKeyLost
  /\ Mouse!TypeOK /\ Mouse!MovesKept

(* However players and interrupts interleave, the card is given the portions of  *)
(* one sound in order, and never what lies outside it.                       *)
SoundPortions == Sound!TypeOK /\ Sound!PortionsInOrder

(* A sound the card has begun with is played to its end or replaced, but where   *)
(* the interrupt comes on the CPU of a player that holds playback.lock: nothing   *)
(* in soiav_play_system_sound and soiav_play_wav keeps it off.                *)
SoundEnds == Sound!SoundEnds

(* After crashes and refused writes an entry leads to its own inode, and what     *)
(* was created stays created (soiavfs_create).                                *)
FilesOnDisk == Volume!TypeOK /\ Volume!FilesBacked /\ Volume!CreatesKept

(* A client's thread reads its own socket, in a slot of its own.               *)
ClientsApart == Display!TypeOK /\ Display!ClientsApart
=============================================================================
