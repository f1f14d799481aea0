----------------------------- MODULE ShellHistory -----------------------------
(***************************************************************************)
(* The command history of the shell (src/USERLAND/Shell.c): a ring of the    *)
(* last commands, which the arrow keys recall into the line being edited.    *)
(* The line is edited as a whole; typing leaves the history alone.           *)
(***************************************************************************)
EXTENDS Naturals, Sequences

CONSTANTS
  Commands,       (* lines a user types, the empty one not among them       *)
  Empty,          (* the empty line                                         *)
  MAX_HISTORY,    (* 100 in the code                                        *)
  MaxEntered      (* bound: commands stored                                 *)

(* Assumed of the constants; the modules that instantiate this one check it. *)
HistoryAssumption ==
  /\ Empty \notin Commands
  /\ MAX_HISTORY \in Nat \ {0}
  /\ MaxEntered \in Nat

VARIABLES
  history,
  history_count,
  history_pos,
  cmd,            (* the line under way                                     *)
  recalled,       (* TRUE from an arrow key on, until the line is edited     *)
  added           (* history: the commands that add_to_history has stored    *)

vars == <<history, history_count, history_pos, cmd, recalled, added>>

Slot(n) == n % MAX_HISTORY

Init ==
  /\ history = [s \in 0 .. MAX_HISTORY - 1 |-> Empty]
  /\ history_count = 0
  /\ history_pos = 0
  /\ cmd = Empty
  /\ recalled = FALSE
  /\ added = <<>>

(* Printable keys and backspace.                                            *)
Edit ==
  /\ cmd' \in Commands \union {Empty}
  /\ recalled' = FALSE
  /\ UNCHANGED <<history, history_count, history_pos, added>>

(* What history_count > 0 && strcmp(history[history_count - 1], cmd) == 0 can  *)
(* be. The index is not reduced: from MAX_HISTORY + 1 commands on it is       *)
(* outside the array, and what lies there may be equal or not.               *)
Repeats(c) ==
  IF history_count <= MAX_HISTORY
    THEN {history_count > 0 /\ history[history_count - 1] = c}
    ELSE BOOLEAN

(* The rest of add_to_history.                                              *)
add(c) ==
  /\ history' = [history EXCEPT ![Slot(history_count)] = c]
  /\ history_count' = history_count + 1
  /\ history_pos' = history_count'
  /\ added' = Append(added, c)

(* Enter: the line goes into the history, unless it repeats the last command, *)
(* and is executed; the next line is empty. "exit" ends the shell.           *)
Enter ==
  /\ cmd # Empty
  /\ Len(added) < MaxEntered
  /\ \E repeated \in Repeats(cmd) :
       IF repeated
         THEN UNCHANGED <<history, history_count, history_pos, added>>
         ELSE add(cmd)
  /\ cmd' = Empty
  /\ recalled' = FALSE

(* The arrow up (0x48).                                                     *)
HistoryUp ==
  /\ history_pos > 0
  /\ history_pos' = history_pos - 1
  /\ cmd' = history[Slot(history_pos')]
  /\ recalled' = TRUE
  /\ UNCHANGED <<history, history_count, added>>

(* The arrow down (0x50): the next command, the empty line after the last.    *)
HistoryDown ==
  /\ history_pos < history_count
  /\ history_pos' = history_pos + 1
  /\ cmd' = IF history_pos' < history_count THEN history[Slot(history_pos')]
            ELSE Empty
  /\ recalled' = TRUE
  /\ UNCHANGED <<history, history_count, added>>

Next == Edit \/ Enter \/ HistoryUp \/ HistoryDown

Spec == Init /\ [][Next]_vars
-----------------------------------------------------------------------------
TypeOK ==
  /\ history \in [0 .. MAX_HISTORY - 1 -> Commands \union {Empty}]
  /\ history_count \in Nat
  /\ history_pos \in 0 .. history_count
  /\ cmd \in Commands \union {Empty}
  /\ recalled \in BOOLEAN

(* The ring holds the last MAX_HISTORY commands that were stored, where the        *)
(* history command looks for them, oldest first, however often the ring has gone    *)
(* round.  (What the command prints is another matter: the library's printf does   *)
(* not know the "%5d" of its format.)                                        *)
Listed == {n \in 0 .. history_count - 1 : n + MAX_HISTORY >= history_count}
HoldsRecent ==
  history_count = Len(added) /\ \A n \in Listed : history[Slot(n)] = added[n + 1]

(* No command is stored after itself, as long as the ring has not gone round when  *)
(* it is; from then on the comparison is with what lies outside the array.  The     *)
(* arrow keys walk through the last MAX_HISTORY commands, past the last one the     *)
(* line is empty, and further back they go round the ring again: in place of a      *)
(* command that is no longer there comes the one that has taken its slot.       *)
WalksThrough ==
  /\ \A i \in 1 .. Len(added) - 1 : i <= MAX_HISTORY => added[i] # added[i + 1]
  /\ recalled =>
       IF history_pos = history_count THEN cmd = Empty
       ELSE \E n \in Listed :
              /\ Slot(n) = Slot(history_pos) /\ cmd = added[n + 1]
              /\ history_pos \in Listed => n = history_pos
=============================================================================
