---------------------------- MODULE ShellCommands ----------------------------
(***************************************************************************)
(* How the shell (src/USERLAND/Shell.c) executes a line: it is cut into words   *)
(* where it stands, the first word is looked up among the built-in commands and  *)
(* along PATH, and a program is run by a child that the shell waits for.  Other   *)
(* processes change what is executable meanwhile.                            *)
(*                                                                         *)
(* A line is a sequence of blanks and letters; what its first word names comes     *)
(* with it, and whether a directory of PATH and this word are too long together    *)
(* for fullpath, which has PATH_MAX bytes that nothing checks: there the model       *)
(* ends.  A word with a slash, which is not looked up along PATH, is left out.  A    *)
(* built-in command is one step, whatever it does.                           *)
(***************************************************************************)
EXTENDS Integers, Sequences, FiniteSets

CONSTANTS
  MAX_ARGS,       (* 64 in the code                                        *)
  MaxLen,         (* bound: the length of a line                            *)
  Dirs,
  PATH,           (* the directories of PATH in their order, the root for an    *)
                  (* empty element                                         *)
  MaxLines        (* bound: lines                                          *)

(* Assumed of the constants; the modules that instantiate this one check it. *)
CommandsAssumption ==
  /\ MAX_ARGS \in Nat \ {0, 1} /\ MaxLen \in Nat /\ MaxLines \in Nat
  /\ PATH \in Seq(Dirs)

BLANK == " "
LETTER == "c"
NUL == "0"
Texts == UNION {[1 .. n -> {BLANK, LETTER}] : n \in 0 .. MaxLen}

VARIABLES
  at,             (* where the shell is                                    *)
  line,           (* the line as it was entered, and what its first word is      *)
  cmd,            (* the line as parse_command leaves it                      *)
  args,           (* where its words begin                                  *)
  p,              (* the next character of cmd, or the next element of PATH     *)
  executable,     (* the directories where the command is executable          *)
  fullpath,       (* the directory of the program                          *)
  child,          (* "none", "starts", "runs" the program, "ended"           *)
  passed,         (* history: elements of PATH tested in vain                 *)
  lines

vars == <<at, line, cmd, args, p, executable, fullpath, child, passed, lines>>

NoProgram == "none"

Init ==
  /\ at = "prompt" /\ line = [text |-> <<>>, first |-> "program", long |-> FALSE]
  /\ cmd = <<>> /\ args = <<>> /\ p = 1
  /\ executable \in SUBSET Dirs /\ fullpath = NoProgram /\ child = "none"
  /\ passed = {} /\ lines = 0

Goto(from, to) == at = from /\ at' = to
parsing == <<cmd, args>>
running == <<executable, fullpath, child, passed>>

(* main reads a line.                                                      *)
Enter ==
  /\ Goto("prompt", "exit?")
  /\ lines < MaxLines
  /\ lines' = lines + 1
  /\ line' \in [text : Texts, first : {"exit", "builtin", "program"}, long : BOOLEAN]
  /\ line'.long => line'.first = "program"
  /\ cmd' = line'.text
  /\ args' = <<>> /\ p' = 1
  /\ UNCHANGED running

(* Only the line that is exactly "exit" ends the shell.                       *)
TestExit ==
  /\ LET alone == line.text # <<>> /\ \A i \in DOMAIN line.text : line.text[i] = LETTER
     IN Goto("exit?", IF line.first = "exit" /\ alone THEN "ended" ELSE "parse")
  /\ UNCHANGED <<line, parsing, p, running, lines>>

End == Len(cmd) + 1
NextOf(chars, i) ==
  CHOOSE k \in i .. End : (k = End \/ cmd[k] \in chars) /\ \A m \in i .. k - 1 : cmd[m] \notin chars

(* Mutant: the end of a word is not marked.                                  *)
parse_unmarked ==
  LET first == NextOf({LETTER}, p) IN
  /\ p # End /\ Len(args) < MAX_ARGS - 1
  /\ Goto("parse", "parse")
  /\ IF first = End
       THEN p' = End /\ UNCHANGED parsing
       ELSE /\ args' = Append(args, first)
            /\ p' = NextOf({BLANK}, first)
            /\ UNCHANGED cmd
  /\ UNCHANGED <<line, running, lines>>

(* One round of the loop of parse_command.                                  *)
parse_command ==
  LET first == NextOf({LETTER}, p) IN
  /\ p # End /\ Len(args) < MAX_ARGS - 1
  /\ Goto("parse", "parse")
  /\ IF first = End
       THEN p' = End /\ UNCHANGED parsing
       ELSE LET last == NextOf({BLANK}, first) IN
            /\ args' = Append(args, first)
            /\ IF last = End THEN p' = End /\ UNCHANGED cmd
               ELSE p' = last + 1 /\ cmd' = [cmd EXCEPT ![last] = NUL]
  /\ UNCHANGED <<line, running, lines>>

(* The loop has ended: no words, a built-in command, which leaves the shell as   *)
(* it is, or a search along PATH.  ("exit" with blanks or words comes here and     *)
(* does nothing.)                                                          *)
Choose ==
  /\ p = End \/ Len(args) = MAX_ARGS - 1
  /\ Goto("parse", IF args # <<>> /\ line.first = "program" THEN "search" ELSE "parsed")
  /\ p' = 1 /\ passed' = {}
  /\ UNCHANGED <<line, parsing, executable, fullpath, child, lines>>

Builtin == Goto("parsed", "prompt") /\ UNCHANGED <<line, parsing, p, running, lines>>

(* find_in_path: one element of PATH is tested; past the last one the command    *)
(* is not found.                                                           *)
find_in_path ==
  /\ IF p > Len(PATH)
       THEN Goto("search", "prompt") /\ UNCHANGED <<p, fullpath, passed>>
       ELSE IF line.long
         THEN Goto("search", "overrun") /\ UNCHANGED <<p, fullpath, passed>>
       ELSE IF PATH[p] \in executable
         THEN Goto("search", "fork") /\ fullpath' = PATH[p] /\ UNCHANGED <<p, passed>>
         ELSE /\ Goto("search", "search")
              /\ p' = p + 1 /\ passed' = passed \union {PATH[p]} /\ UNCHANGED fullpath
  /\ UNCHANGED <<line, parsing, executable, child, lines>>

(* Other processes install and remove the program.                           *)
Install ==
  /\ at \in {"search", "fork", "wait"}
  /\ \E d \in Dirs : executable' = executable \union {d} \/ executable' = executable \ {d}
  /\ UNCHANGED <<at, line, parsing, p, fullpath, child, passed, lines>>

(* execute_command: soiav_fork makes a child to wait for, or fails.           *)
Fork ==
  /\ \/ Goto("fork", "wait") /\ child' = "starts"
     \/ Goto("fork", "prompt") /\ UNCHANGED child
  /\ UNCHANGED <<line, parsing, p, executable, fullpath, passed, lines>>

(* The child becomes the program, or ends with an error when the program has       *)
(* gone since.                                                             *)
Execve ==
  /\ child = "starts"
  /\ child' = IF fullpath \in executable THEN "runs" ELSE "ended"
  /\ UNCHANGED <<at, line, parsing, p, executable, fullpath, passed, lines>>

ProgramEnds ==
  /\ child = "runs" /\ child' = "ended"
  /\ UNCHANGED <<at, line, parsing, p, executable, fullpath, passed, lines>>

(* soiav_waitpid returns.                                                  *)
Waited ==
  /\ Goto("wait", "prompt")
  /\ child = "ended" /\ child' = "none"
  /\ UNCHANGED <<line, parsing, p, executable, fullpath, passed, lines>>

Next ==
  \/ Enter \/ TestExit \/ parse_command \/ Choose \/ Builtin \/ find_in_path
  \/ Install \/ Fork \/ Execve \/ ProgramEnds \/ Waited

Spec == Init /\ [][Next]_vars
-----------------------------------------------------------------------------
TypeOK ==
  /\ line.text \in Texts /\ Len(cmd) = Len(line.text)
  /\ p \in Nat \ {0} /\ executable \subseteq Dirs /\ passed \subseteq Dirs
  /\ child \in {"none", "starts", "runs", "ended"}

(* The words of a line: where a letter follows a blank or nothing.             *)
WordStarts ==
  {i \in DOMAIN line.text : line.text[i] = LETTER /\ (i = 1 \/ line.text[i - 1] = BLANK)}

(* What a command is given are the first MAX_ARGS - 1 words of the line as it     *)
(* was entered, each of them ended where a blank was or the line is; the program  *)
(* that runs is the first one along PATH that was executable when it was tested;  *)
(* and there is no prompt while it runs.                                     *)
CommandRight ==
  /\ at \in {"parsed", "search", "fork", "wait"} =>
       /\ \A k \in DOMAIN args :
            /\ Cardinality({i \in WordStarts : i < args[k]}) = k - 1
            /\ args[k] \in WordStarts
            /\ LET last == NextOf({NUL}, args[k]) IN
                 /\ \A i \in args[k] .. last - 1 : line.text[i] = LETTER
                 /\ last # End => line.text[last] = BLANK
       /\ \/ Len(args) = Cardinality(WordStarts)
          \/ Len(args) = MAX_ARGS - 1 /\ Cardinality(WordStarts) >= MAX_ARGS
  /\ child # "none" =>
       /\ at = "wait"
       /\ \E k \in DOMAIN PATH :
            fullpath = PATH[k] /\ passed = {PATH[j] : j \in 1 .. k - 1}
=============================================================================
