----------------------------- MODULE MouseInput -----------------------------
(***************************************************************************)
(* The mouse of the input driver (src/Kernel/Drivers/Input.c). A movement    *)
(* comes as three bytes, an interrupt each; the handler collects them in a   *)
(* static array, decodes every third byte's packet and saves it in a ring    *)
(* without looking whether the ring is full. soiav_read_mouse takes one.     *)
(***************************************************************************)
EXTENDS Integers, Sequences

CONSTANTS
  Distances,      (* movements along an axis, within -256 .. 255            *)
  Buttons,        (* sets of buttons as numbers, 0 .. 7                     *)
  Size,           (* slots of the ring; 128 in the code                     *)
  MaxMoves,       (* bound: movements                                       *)
  MaxLosses       (* bound: bytes lost on the wire                          *)

(* Assumed of the constants; the modules that instantiate this one check it. *)
MouseAssumption ==
  /\ Distances \subseteq -256 .. 255
  /\ Buttons \subseteq 0 .. 7
  /\ Size \in Nat \ {0, 1}
  /\ MaxLosses \in Nat

VARIABLES
  sending,        (* the bytes of the movement the mouse has still to send   *)
  packet,         (* packet[0 .. packet_index - 1]                          *)
  buffer,         (* dev->buffer                                            *)
  head,           (* dev->buffer_head                                       *)
  tail,           (* dev->buffer_tail                                       *)
  moved,          (* history: the movements of the mouse                    *)
  read,           (* history: the movements readers got                     *)
  losses,         (* history: bytes lost                                    *)
  overrun         (* history: a movement filled the last free slot           *)

vars ==
  <<sending, packet, buffer, head, tail, moved, read, losses, overrun>>

Slots == 0 .. Size - 1
Held == (head + Size - tail) % Size
Contents == [i \in 1 .. Held |-> buffer[(tail + i - 1) % Size]]

(* A PS/2 mouse sends distances as nine-bit two's complement: the low bytes  *)
(* after the buttons, bit 3 (always set) and the two sign bits.             *)
Sign(d) == IF d < 0 THEN 1 ELSE 0
Encode(dx, dy, b) ==
  <<b + 8 + 16 * Sign(dx) + 32 * Sign(dy), dx % 256, dy % 256>>

(* (packet[0] << 4) & 0x100 is 256 when bit 4 is set, << 3 when bit 5 is;    *)
(* the y axis is turned round.                                              *)
Decode(p) ==
  [x |-> p[2] - 256 * ((p[1] \div 16) % 2),
   y |-> -(p[3] - 256 * ((p[1] \div 32) % 2)),
   buttons |-> p[1] % 8]

Init ==
  /\ sending = <<>>
  /\ packet = <<>>
  /\ buffer = [s \in Slots |-> [x |-> 0, y |-> 0, buttons |-> 0]]
  /\ head = 0
  /\ tail = 0
  /\ moved = <<>>
  /\ read = <<>>
  /\ losses = 0
  /\ overrun = FALSE

(* The mouse moves, once its last movement is sent.                         *)
Move(dx, dy, b) ==
  /\ sending = <<>>
  /\ Len(moved) < MaxMoves
  /\ sending' = Encode(dx, dy, b)
  /\ moved' = Append(moved, [x |-> dx, y |-> -dy, buttons |-> b])
  /\ UNCHANGED <<packet, buffer, head, tail, read, losses, overrun>>

(* A byte arrives.                                                          *)
mouse_interrupt ==
  /\ sending # <<>>
  /\ sending' = Tail(sending)
  /\ IF Len(packet) = 2
       THEN /\ buffer' = [buffer EXCEPT ![head] =
                            Decode(Append(packet, Head(sending)))]
            /\ head' = (head + 1) % Size
            /\ overrun' = (overrun \/ Held = Size - 1)
            /\ packet' = <<>>
       ELSE /\ packet' = Append(packet, Head(sending))
            /\ UNCHANGED <<buffer, head, overrun>>
  /\ UNCHANGED <<tail, moved, read, losses>>

(* A byte is lost on its way.                                               *)
LoseByte ==
  /\ losses < MaxLosses
  /\ sending # <<>>
  /\ sending' = Tail(sending)
  /\ losses' = losses + 1
  /\ UNCHANGED <<packet, buffer, head, tail, moved, read, overrun>>

soiav_read_mouse ==
  /\ tail # head
  /\ read' = Append(read, buffer[tail])
  /\ tail' = (tail + 1) % Size
  /\ UNCHANGED <<sending, packet, buffer, head, moved, losses, overrun>>

Next ==
  \/ \E dx, dy \in Distances, b \in Buttons : Move(dx, dy, b)
  \/ mouse_interrupt
  \/ LoseByte
  \/ soiav_read_mouse

Spec == Init /\ [][Next]_vars
-----------------------------------------------------------------------------
(* Whatever bytes arrive and get lost, a decoded packet is in the range of a *)
(* movement, and the packet under way never grows past the array.           *)
TypeOK ==
  /\ Len(packet) <= 2
  /\ \A i \in DOMAIN packet : packet[i] \in 0 .. 255
  /\ \A s \in Slots : buffer[s].x \in -256 .. 255 /\ buffer[s].y \in -255 .. 256
                      /\ buffer[s].buttons \in 0 .. 7
  /\ head \in Slots
  /\ tail \in Slots

(* Without lost bytes and overruns a movement goes through bytes, decoding   *)
(* and ring and comes out as it was, at both ends of the nine-bit range:     *)
(* readers got, and will get, what the mouse has sent.                      *)
MovesKept ==
  losses = 0 /\ ~overrun =>
    read \o Contents =
      SubSeq(moved, 1, IF sending = <<>> THEN Len(moved) ELSE Len(moved) - 1)
=============================================================================
