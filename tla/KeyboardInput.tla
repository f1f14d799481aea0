---------------------------- MODULE KeyboardInput ----------------------------
(***************************************************************************)
(* The keyboard of the input driver (src/Kernel/Drivers/Input.c): the       *)
(* interrupt handler saves scancodes in a ring, soiav_read_keyboard takes    *)
(* them out and returns the characters among them. Both hold the lock of    *)
(* the device throughout. The handler does not look whether the ring is     *)
(* full.                                                                   *)
(***************************************************************************)
EXTENDS Naturals, Sequences

CONSTANTS
  Chars,          (* scancodes that are the press of a key with a character *)
  Mute,           (* the others: releases, and keys without a character     *)
  NoKey,          (* an empty slot                                          *)
  Size,           (* slots of the ring; 128 in the code                     *)
  MaxTyped,       (* bound: interrupts                                      *)
  MaxRead         (* bound: the buffer size a reader passes                 *)

(* Assumed of the constants; the modules that instantiate this one check it. *)
KeyboardAssumption ==
  /\ Chars \intersect Mute = {}
  /\ Size \in Nat \ {0, 1}
  /\ MaxRead \in Nat \ {0}

VARIABLES
  buffer,         (* dev->buffer                                            *)
  head,           (* dev->buffer_head                                       *)
  tail,           (* dev->buffer_tail                                       *)
  typed,          (* history: every scancode                                *)
  text,           (* history: every character a reader got                  *)
  overrun         (* history: a scancode filled the last free slot           *)

vars == <<buffer, head, tail, typed, text, overrun>>

Slots == 0 .. Size - 1
Held == (head + Size - tail) % Size
Contents == [i \in 1 .. Held |-> buffer[(tail + i - 1) % Size]]
(* The characters among scancodes, as the reader copies them out.           *)
Text(codes) ==
  LET upto[i \in 0 .. Len(codes)] ==
        IF i = 0 THEN <<>>
        ELSE IF codes[i] \in Chars THEN Append(upto[i - 1], codes[i])
        ELSE upto[i - 1]
  IN upto[Len(codes)]

Init ==
  /\ buffer = [s \in Slots |-> NoKey]
  /\ head = 0
  /\ tail = 0
  /\ typed = <<>>
  /\ text = <<>>
  /\ overrun = FALSE

(* Mutant: the index is advanced before the slot is written.                *)
keyboard_advance_first ==
  \E k \in Chars \union Mute :
    /\ Len(typed) < MaxTyped
    /\ head' = (head + 1) % Size
    /\ buffer' = [buffer EXCEPT ![head'] = k]
    /\ typed' = Append(typed, k)
    /\ overrun' = (overrun \/ Held = Size - 1)
    /\ UNCHANGED <<tail, text>>

(* The handler does not look for room: the scancode that fills the last free *)
(* slot makes the two indices meet, and the ring looks empty.                *)
keyboard_interrupt ==
  \E k \in Chars \union Mute :
    /\ Len(typed) < MaxTyped
    /\ buffer' = [buffer EXCEPT ![head] = k]
    /\ head' = (head + 1) % Size
    /\ typed' = Append(typed, k)
    /\ overrun' = (overrun \/ Held = Size - 1)
    /\ UNCHANGED <<tail, text>>

(* The reader takes scancodes until the ring is empty or it has max - 1      *)
(* characters; with max = 1 it takes none.                                  *)
soiav_read_keyboard(max) ==
  \E n \in 0 .. Held :
    LET taken == Text(SubSeq(Contents, 1, n))
    IN /\ Len(taken) <= max - 1
       /\ n > 0 => Len(Text(SubSeq(Contents, 1, n - 1))) < max - 1
       /\ n < Held => Len(taken) = max - 1
       /\ tail' = (tail + n) % Size
       /\ text' = text \o taken
       /\ UNCHANGED <<buffer, head, typed, overrun>>

Next ==
  \/ keyboard_interrupt
  \/ \E max \in 1 .. MaxRead : soiav_read_keyboard(max)

Spec == Init /\ [][Next]_vars
-----------------------------------------------------------------------------
TypeOK ==
  /\ buffer \in [Slots -> Chars \union Mute \union {NoKey}]
  /\ head \in Slots
  /\ tail \in Slots
  /\ text \in Seq(Chars)

(* The ring holds the newest scancodes, oldest first, also after it has been *)
(* overrun.  Until then what readers got and what still waits is together    *)
(* what was typed: no character is lost, doubled or out of place, wherever a *)
(* reader with a small buffer had to stop.                                  *)
NoKeyLost ==
  /\ Contents = SubSeq(typed, Len(typed) - Held + 1, Len(typed))
  /\ overrun \/ text \o Text(Contents) = Text(typed)
=============================================================================
