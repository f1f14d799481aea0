--------------------------------- MODULE Heap ---------------------------------
(***************************************************************************)
(* The heap of the C library (src/USERLAND/linbc.c): a static array cut into *)
(* blocks, each with a header, in a singly linked list that malloc searches  *)
(* first fit and free tidies up in one pass.                                *)
(*                                                                         *)
(* The list is the sequence blocks, a block its offset, size and free mark.  *)
(* A program is single threaded and gives back only what it was given.       *)
(***************************************************************************)
EXTENDS Naturals, Sequences, SequencesExt

CONSTANTS
  HEAP_SIZE,      (* bytes of the array                                     *)
  Header,         (* sizeof(mem_block_t)                                    *)
  Align,          (* 8 in the code                                          *)
  Requests        (* sizes a program asks for; far from the end of size_t    *)

ASSUME HeapAssumption ==
  /\ Align \in Nat \ {0}
  /\ Header \in Nat \ {0} /\ Header % Align = 0
  /\ HEAP_SIZE \in Nat /\ HEAP_SIZE > Header /\ HEAP_SIZE % Align = 0
  /\ Requests \subseteq Nat

VARIABLES
  blocks,         (* the list from free_list on; <<>> when that is NULL      *)
  live            (* the program's pointers with the sizes it asked for      *)

vars == <<blocks, live>>

Block(at, size, free) == [at |-> at, size |-> size, free |-> free]
Up(size) == ((size + Align - 1) \div Align) * Align
Pointer(i) == blocks[i].at + Header
With(p, size) == [q \in DOMAIN live \union {p} |->
                    IF q = p THEN size ELSE live[q]]
Without(pointers, p) == [q \in DOMAIN pointers \ {p} |-> pointers[q]]

Init ==
  /\ blocks = <<>>
  /\ live = <<>>

init_heap(list) ==
  IF list = <<>> THEN <<Block(0, HEAP_SIZE - Header, TRUE)>> ELSE list

(* The first free block that is large enough; 0 when there is none.          *)
Found(list, size) ==
  LET fits == {i \in DOMAIN list : list[i].free /\ list[i].size >= Up(size)}
  IN IF fits = {} THEN 0 ELSE CHOOSE i \in fits : \A j \in fits : i <= j

(* Mutant: the header of the rest is not counted.                           *)
TakeTight(list, i, size) ==
  LET b == list[i]
      rest == Block(b.at + Header + Up(size), b.size - Up(size) - Header, TRUE)
  IN IF b.size > Up(size)
       THEN ReplaceAt(InsertAt(list, i + 1, rest), i,
                      Block(b.at, Up(size), FALSE))
       ELSE ReplaceAt(list, i, Block(b.at, b.size, FALSE))

(* The list with block i taken, the rest of it split off when it is worth it. *)
Take(list, i, size) ==
  LET b == list[i]
      rest == Block(b.at + Header + Up(size), b.size - Up(size) - Header, TRUE)
  IN IF b.size > Up(size) + Header + Align
       THEN ReplaceAt(InsertAt(list, i + 1, rest), i,
                      Block(b.at, Up(size), FALSE))
       ELSE ReplaceAt(list, i, Block(b.at, b.size, FALSE))

(* The pass of free over the list: a free block swallows a free successor    *)
(* and the pass goes on behind it.                                          *)
Passed(done, b) ==
  IF done.mayMerge /\ Last(done.list).free /\ b.free
    THEN [list |-> Append(Front(done.list),
                          [Last(done.list) EXCEPT !.size = @ + Header + b.size]),
          mayMerge |-> FALSE]
    ELSE [list |-> Append(done.list, b), mayMerge |-> TRUE]

Merged(list) ==
  LET pass[i \in 0 .. Len(list)] ==
        IF i = 0 THEN [list |-> <<>>, mayMerge |-> FALSE]
        ELSE Passed(pass[i - 1], list[i])
  IN pass[Len(list)].list

Index(list, p) == CHOOSE i \in DOMAIN list : list[i].at + Header = p
Released(list, p) ==
  Merged(ReplaceAt(list, Index(list, p),
                   [list[Index(list, p)] EXCEPT !.free = TRUE]))

(* malloc, and calloc and realloc(NULL, size), which call it. Without room   *)
(* they return NULL.                                                        *)
malloc(size) ==
  LET list == init_heap(blocks)
      i == Found(list, size)
  IN IF i = 0
       THEN blocks' = list /\ UNCHANGED live
       ELSE /\ blocks' = Take(list, i, size)
            /\ live' = With(list[i].at + Header, size)

(* free, and realloc(p, 0), which calls it.                                 *)
free(p) ==
  /\ blocks' = Released(blocks, p)
  /\ live' = Without(live, p)

(* A block that is large enough stays; else the data move to a new one. When  *)
(* there is none the program gets NULL and still has the old block.          *)
realloc(p, size) ==
  LET i == Found(blocks, size)
      q == Pointer(i)
  IN /\ size > 0
     /\ IF size <= blocks[Index(blocks, p)].size
          THEN live' = With(p, size) /\ UNCHANGED blocks
        ELSE IF i = 0
          THEN UNCHANGED <<blocks, live>>
          ELSE /\ blocks' = Released(Take(blocks, i, size), p)
               /\ live' = Without(With(q, size), p)

Next ==
  \/ \E size \in Requests : malloc(size)
  \/ \E p \in DOMAIN live : free(p)
  \/ \E p \in DOMAIN live, size \in Requests : realloc(p, size)

Spec == Init /\ [][Next]_vars
-----------------------------------------------------------------------------
(* Sizes are natural numbers: what malloc splits off never wraps below zero. *)
TypeOK ==
  /\ \A i \in DOMAIN blocks :
       /\ blocks[i].at \in 0 .. HEAP_SIZE - 1
       /\ blocks[i].size \in 0 .. HEAP_SIZE
       /\ blocks[i].free \in BOOLEAN
  /\ \A p \in DOMAIN live : p \in 0 .. HEAP_SIZE /\ live[p] \in Requests

(* Splitting and merging lose no byte and share none: the blocks lie side by  *)
(* side and fill the array from end to end, however often they are cut up.   *)
BlocksTile ==
  blocks # <<>> =>
    /\ blocks[1].at = 0
    /\ \A i \in 1 .. Len(blocks) - 1 :
         blocks[i + 1].at = Pointer(i) + blocks[i].size
    /\ Pointer(Len(blocks)) + Last(blocks).size = HEAP_SIZE

(* What the program holds is exactly the blocks in use, each as large as was  *)
(* asked: none is handed out twice or lost, also when realloc fails halfway. *)
LiveBacked ==
  /\ DOMAIN live = {Pointer(i) : i \in {j \in DOMAIN blocks : ~blocks[j].free}}
  /\ \A i \in DOMAIN blocks :
       ~blocks[i].free => live[Pointer(i)] <= blocks[i].size

=============================================================================
