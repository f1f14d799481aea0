----------------------------- MODULE FileManager -----------------------------
(***************************************************************************)
(* The file manager (src/System/apps.c): the list of a directory, the selected *)
(* entry and the scroll position, under clicks, the wheel and the keys.        *)
(*                                                                         *)
(* The library's sprintf copies its format, so the path of a directory that is   *)
(* opened is "%s/%s", which leads nowhere: the list is empty from then on.      *)
(***************************************************************************)
EXTENDS Integers, Sequences, FiniteSets, FiniteSetsExt

CONSTANTS
  Listings,       (* what readdir may give for "/": sequences of entries        *)
  MAX_FILES,      (* entries of current_files; 1000 in the code               *)
  FILE_HEIGHT,    (* 24 in the code                                        *)
  TopEdge,        (* where the list begins; 70 in the code                   *)
  ListHeight,     (* of the part in which rows are drawn, which is also the     *)
                  (* limit of scrolling; 500 in the code                     *)
  MaxWheel

(* Assumed of the constants; the modules that instantiate this one check it. *)
FileManagerAssumption ==
  /\ \A l \in Listings :
       l \in Seq({l[i] : i \in DOMAIN l}) /\ \A i \in DOMAIN l : l[i].dir \in BOOLEAN
  /\ MAX_FILES \in Nat
  /\ {FILE_HEIGHT, TopEdge, ListHeight, MaxWheel} \subseteq Nat \ {0}

VARIABLES
  readable,       (* current_path is "/", and not what sprintf has made of it    *)
  listing,        (* what readdir gave                                     *)
  current_files, selected, scroll,
  last_index,
  aimed,          (* history: the row drawn where the last click went          *)
  drawn, opened   (* history: the entry in that row, or selected, when a list was  *)
                  (* last opened, and the entry it was opened for              *)

vars == <<readable, listing, current_files, selected, scroll, last_index, aimed, drawn,
          opened>>

file_count == Len(current_files)
Rows == 0 .. file_count - 1
NoRow == -1
NoEntry == [name |-> "", dir |-> FALSE, up |-> FALSE]

(* C's division.                                                           *)
Quot(a, b) == IF a >= 0 THEN a \div b ELSE -((-a) \div b)

Swap(l, i, j) == [l EXCEPT ![i] = l[j], ![j] = l[i]]

(* The two loops of list_directory that bring the directories to the front: the  *)
(* k-th comparison is of the entries i and j.                                *)
Sorted(l) ==
  LET n == Len(l)
      After[k \in 0 .. n * n] ==
        IF k = 0 THEN l
        ELSE LET m == After[k - 1]
                 i == ((k - 1) \div n) + 1  j == ((k - 1) % n) + 1
             IN IF i < j /\ m[j].dir /\ ~m[i].dir THEN Swap(m, i, j) ELSE m
  IN After[n * n]

(* What there is room for of a listing.                                     *)
First(l) == SubSeq(l, 1, IF Len(l) < MAX_FILES THEN Len(l) ELSE MAX_FILES)

(* A directory that cannot be opened leaves an empty list.                    *)
list_directory(path_is_root) ==
  \/ path_is_root /\ listing' \in Listings /\ current_files' = Sorted(First(listing'))
  \/ listing' = <<>> /\ current_files' = <<>>

Init ==
  /\ readable = TRUE
  /\ listing \in Listings \union {<<>>} /\ current_files = Sorted(First(listing))
  /\ selected = NoRow /\ scroll = 0
  /\ last_index = NoRow /\ aimed = NoRow /\ drawn = NoEntry /\ opened = NoEntry

(* draw_filemanager: where row i is, and whether it is drawn.                 *)
RowTop(i) == TopEdge - scroll * FILE_HEIGHT + i * FILE_HEIGHT
Drawn == {i \in Rows : RowTop(i) + FILE_HEIGHT > TopEdge /\ RowTop(i) < TopEdge + ListHeight}
RowAt(y) == {i \in Drawn : RowTop(i) <= y /\ y < RowTop(i) + FILE_HEIGHT}
Aimed(y) == IF RowAt(y) = {} THEN {NoRow} ELSE RowAt(y)

(* "..", which is still "/" there, or another directory, whose path is not its own. *)
OpenDirectory(i) ==
  /\ opened' = current_files[i + 1]
  /\ readable' = (readable /\ current_files[i + 1].up)
  /\ list_directory(readable')
  /\ selected' = NoRow /\ scroll' = 0

ListStays == UNCHANGED <<readable, listing, current_files, scroll, drawn, opened>>
EntryAt(row) == IF row = NoRow THEN NoEntry ELSE current_files[row + 1]

(* Mutant: the scroll position is forgotten.                                 *)
LeftClick_unscrolled(y) ==
  LET file_index == Quot(y - TopEdge, FILE_HEIGHT) IN
  /\ aimed' \in Aimed(y)
  /\ IF file_index \in Rows
       THEN last_index' = file_index /\ selected' = file_index /\ ListStays
       ELSE ListStays /\ UNCHANGED <<selected, last_index>>

(* A click of the left button; two within a second open a directory, and          *)
(* last_index is kept beyond that.                                          *)
LeftClick(y) ==
  LET file_index == Quot(y - TopEdge + scroll * FILE_HEIGHT, FILE_HEIGHT) IN
  IF file_index \in Rows
    THEN /\ last_index' = file_index
         /\ \/ selected' = file_index /\ ListStays /\ aimed' \in Aimed(y)
            \/ /\ last_index = file_index /\ current_files[file_index + 1].dir
               /\ OpenDirectory(file_index) /\ aimed' = NoRow
               /\ \E row \in Aimed(y) : drawn' = EntryAt(row)
    ELSE ListStays /\ aimed' \in Aimed(y) /\ UNCHANGED <<selected, last_index>>

(* The wheel.  A list that is shorter than its area is moved out of it.         *)
Wheel(n) ==
  LET moved == IF scroll - n < 0 THEN 0 ELSE scroll - n
      room == file_count * FILE_HEIGHT - ListHeight
  IN /\ scroll' = IF moved * FILE_HEIGHT > room THEN Quot(room, FILE_HEIGHT) ELSE moved
     /\ aimed' = NoRow
     /\ UNCHANGED <<readable, listing, current_files, selected, last_index, drawn, opened>>

KeyUp ==
  /\ selected' = IF selected > 0 THEN selected - 1 ELSE selected
  /\ aimed' = NoRow
  /\ ListStays /\ UNCHANGED last_index

KeyDown ==
  /\ selected' = IF selected < file_count - 1 THEN selected + 1 ELSE selected
  /\ aimed' = NoRow
  /\ ListStays /\ UNCHANGED last_index

KeyEnter ==
  /\ selected >= 0
  /\ current_files[selected + 1].dir
  /\ OpenDirectory(selected)
  /\ aimed' = NoRow /\ drawn' = EntryAt(selected)
  /\ UNCHANGED last_index

Next ==
  \/ \E y \in 0 .. TopEdge + ListHeight + FILE_HEIGHT : LeftClick(y)
  \/ \E n \in (-MaxWheel .. MaxWheel) \ {0} : Wheel(n)
  \/ KeyUp \/ KeyDown \/ KeyEnter

Spec == Init /\ [][Next]_vars
-----------------------------------------------------------------------------
TypeOK ==
  /\ readable \in BOOLEAN /\ scroll \in Int
  /\ last_index \in Nat \union {NoRow} /\ aimed \in Rows \union {NoRow}

(* The list has the directories first and each of the first MAX_FILES entries that  *)
(* readdir gave once; selected, which indexes it, is in it; a click on a row that is  *)
(* drawn selects that row and no other; and a list is opened only for a directory,    *)
(* the one that was drawn where the click went, if any was, or that was selected.    *)
(* It is not that directory's list: the path is not made of its name.             *)
ListRight ==
  /\ \A i, j \in DOMAIN current_files :
       current_files[j].dir /\ ~current_files[i].dir => j < i
  /\ \A e \in {listing[i] : i \in DOMAIN listing} \union
              {current_files[i] : i \in DOMAIN current_files} :
       Cardinality({i \in DOMAIN First(listing) : listing[i] = e}) =
       Cardinality({i \in DOMAIN current_files : current_files[i] = e})
  /\ selected \in Rows \union {NoRow}
  /\ aimed # NoRow => selected = aimed
  /\ opened # NoEntry => opened.dir /\ drawn \in {opened, NoEntry}
=============================================================================
