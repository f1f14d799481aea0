----------------------------- MODULE BoundedFifo -----------------------------
(***************************************************************************)
(* What a bounded buffer between producers and consumers promises: items    *)
(* leave in the order they entered, none is duplicated, and an item is lost *)
(* only as the policy for a full buffer says.                              *)
(*                                                                         *)
(* IpcQueue implements it with the policy "reject", EventRing (the event    *)
(* buffer of the display server) with "dropOldest".                        *)
(***************************************************************************)
EXTENDS Naturals, Sequences

CONSTANTS
  Items,
  Capacity,
  Policy      (* what Put does to a full buffer: "reject" or "dropOldest"  *)

VARIABLE fifo

Init == fifo = <<>>

Put(x) ==
  \/ /\ Len(fifo) < Capacity
     /\ fifo' = Append(fifo, x)
  \/ /\ Policy = "dropOldest"
     /\ Len(fifo) = Capacity
     /\ fifo' = Append(Tail(fifo), x)

Take ==
  /\ fifo # <<>>
  /\ fifo' = Tail(fifo)

Next == Take \/ \E x \in Items : Put(x)

(* The buffer lives as long as the system.                                 *)
Spec == Init /\ [][Next]_fifo

(* The buffer's owner may close it, which throws away what it holds.       *)
ClosableSpec == Init /\ [][Next \/ fifo' = <<>>]_fifo
=============================================================================
