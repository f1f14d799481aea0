------------------------------ MODULE EventRing ------------------------------
(***************************************************************************)
(* The event buffer of the display server (src/Kernel/Display_server.c).    *)
(* The input thread pushes events, the thread of every client pops one when *)
(* its client asks for it (SDP_GET_EVENT), and writes it to the client's    *)
(* socket after it has given up the lock.                                   *)
(*                                                                         *)
(* push_event and pop_event run under event_lock from their first access to *)
(* their last, so each is one step. An event is known by its serial number. *)
(***************************************************************************)
EXTENDS Naturals, Sequences, FiniteSets

CONSTANTS
  Clients,
  MAX_EVENTS,     (* slots of the ring; 128 in the code                     *)
  MaxSerial       (* bound: events the input thread pushes                  *)

ASSUME RingAssumption ==
  /\ MAX_EVENTS \in Nat \ {0, 1}
  /\ MaxSerial \in Nat

VARIABLES
  events,         (* server.events: the serial number in each slot           *)
  head,           (* server.event_head: the slot of the next push            *)
  tail,           (* server.event_tail: the slot of the next pop             *)
  pushed,         (* events pushed so far                                   *)
  ev,             (* the handler's local event_t; 0 when it has none         *)
  received        (* what each client has read from its socket               *)

vars == <<events, head, tail, pushed, ev, received>>

Slots == 0 .. MAX_EVENTS - 1
Serials == 1 .. MaxSerial
After(slot) == (slot + 1) % MAX_EVENTS

Init ==
  /\ events = [s \in Slots |-> 0]
  /\ head = 0
  /\ tail = 0
  /\ pushed = 0
  /\ ev = [c \in Clients |-> 0]
  /\ received = [c \in Clients |-> <<>>]

(* Mutant: a push that forgets the overflow branch.                         *)
PushNoOverflow ==
  /\ pushed < MaxSerial
  /\ pushed' = pushed + 1
  /\ events' = [events EXCEPT ![head] = pushed + 1]
  /\ head' = After(head)
  /\ UNCHANGED <<tail, ev, received>>

(* The input thread stores an event; a full ring gives up its oldest one.   *)
push_event ==
  /\ pushed < MaxSerial
  /\ pushed' = pushed + 1
  /\ events' = [events EXCEPT ![head] = pushed + 1]
  /\ head' = After(head)
  /\ tail' = IF After(head) = tail THEN After(tail) ELSE tail
  /\ UNCHANGED <<ev, received>>

(* Mutant: a pop that reads the event and leaves it in the ring.            *)
PopNoAdvance(c) ==
  /\ ev[c] = 0
  /\ tail # head
  /\ ev' = [ev EXCEPT ![c] = events[tail]]
  /\ UNCHANGED <<events, head, tail, pushed, received>>

(* SDP_GET_EVENT: take the oldest event, whatever client it is about. With   *)
(* an empty ring the client is told so and nothing changes.                 *)
pop_event(c) ==
  /\ ev[c] = 0
  /\ tail # head
  /\ ev' = [ev EXCEPT ![c] = events[tail]]
  /\ tail' = After(tail)
  /\ UNCHANGED <<events, head, pushed, received>>

(* The write after the unlock. Its result is ignored: the event is lost when *)
(* the client has gone.                                                     *)
Reply(c) ==
  /\ ev[c] # 0
  /\ ev' = [ev EXCEPT ![c] = 0]
  /\ received' \in {[received EXCEPT ![c] = Append(@, ev[c])], received}
  /\ UNCHANGED <<events, head, tail, pushed>>

Next == push_event \/ \E c \in Clients : pop_event(c) \/ Reply(c)

Spec == Init /\ [][Next]_vars
-----------------------------------------------------------------------------
(* What the ring holds, oldest first.                                       *)
Held == (head + MAX_EVENTS - tail) % MAX_EVENTS
Contents == [i \in 1 .. Held |-> events[(tail + i - 1) % MAX_EVENTS]]

(* Indices stay inside the array and the locals hold events of this run.    *)
TypeOK ==
  /\ events \in [Slots -> Serials \union {0}]
  /\ head \in Slots
  /\ tail \in Slots
  /\ pushed \in 0 .. MaxSerial
  /\ ev \in [Clients -> Serials \union {0}]
  /\ received \in [Clients -> Seq(Serials)]

(* pop_event gives an event to one client, and a client reads its events in  *)
(* the order they happened: no event is both in the ring and with a client,  *)
(* with two clients or twice with one, although the pop and the write to the *)
(* socket are separate steps and another client may overtake.               *)
With(c) == {received[c][i] : i \in DOMAIN received[c]}
           \union ({ev[c]} \ {0})
DeliveredOnce ==
  /\ \A c, d \in Clients : c # d => With(c) \intersect With(d) = {}
  /\ \A c \in Clients :
       /\ \A i \in 1 .. Held : Contents[i] \notin With(c)
       /\ \A i, j \in DOMAIN received[c] :
            i < j => received[c][i] < received[c][j]
       /\ ev[c] # 0 => \A i \in DOMAIN received[c] : received[c][i] < ev[c]

(* The ring is a bounded FIFO buffer of MAX_EVENTS - 1 events that drops its *)
(* oldest event when it is full.                                           *)
Fifo == INSTANCE BoundedFifo
          WITH Items <- Serials, Capacity <- MAX_EVENTS - 1,
               Policy <- "dropOldest", fifo <- Contents
ImplementsFifo == Fifo!Spec
=============================================================================
