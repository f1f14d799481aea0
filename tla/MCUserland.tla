----------------------------- MODULE MCUserland -----------------------------
(***************************************************************************)
(* User space but for the server: the C library's heap (Heap), files (Stdio)      *)
(* and strings (CString), the shell's history (ShellHistory) and commands          *)
(* (ShellCommands), and two applications (FileManager, Calculator).  They share    *)
(* no state here; in a behaviour only one of them moves.                      *)
(***************************************************************************)
EXTENDS Heap, Integers

CONSTANTS
  Bytes, Junk, FILE_BUFFER_SIZE, SIZE_MAX, Modes, Whences, OldFile, Amounts, MaxLen, MaxFails,
  SIZE, Chars, Counts, Numbers,
  Commands, Empty, MAX_HISTORY, MaxEntered,
  MAX_ARGS, MaxText, Dirs, PATH, MaxLines,
  Listings, MAX_FILES, FILE_HEIGHT, TopEdge, ListHeight, MaxWheel,
  Digits, Operators, DISPLAY_SIZE, ErrorWidth, MaxTerm

VARIABLES
  part,           (* what moves                                            *)
  file, off, mode, buf, buf_pos, buf_len, error, call, todo, need, got, round,
  fails, want, at, from, dropped, astray,
  mem, was, dest, src, number, function, out,
  history, history_count, history_pos, edited, recalled, added,
  shell, line, cmd, args, position, executable, fullpath, child, passed, lines,
  readable, listing, current_files, selected, scroll, last_index, aimed, drawn,
  opened,
  display, current_value, memory, operator, new_number, overrun, entered

File == INSTANCE Stdio
Text == INSTANCE CString WITH n <- number, call <- function
Recall == INSTANCE ShellHistory WITH cmd <- edited
Shell == INSTANCE ShellCommands WITH MaxLen <- MaxText, at <- shell, p <- position
Browser == INSTANCE FileManager
Pocket == INSTANCE Calculator
ASSUME File!StdioAssumption
ASSUME Text!StringAssumption
ASSUME Recall!HistoryAssumption
ASSUME Shell!CommandsAssumption
ASSUME Browser!FileManagerAssumption
ASSUME Pocket!CalculatorAssumption

MCOldFile == <<0, 1, 0>>
MCNumbers == {-2147483647, -16, 0, 9, 10, 255, 256}
MCPATH == <<"d1", "d2">>

(* The root with more entries than the list takes and than are drawn, with fewer,   *)
(* and with one.                                                            *)
Entry(n, d) == [name |-> n, dir |-> d, up |-> n = ".."]
MCListings ==
  LET up == Entry("..", TRUE)
      d == Entry("d", TRUE)
      f == Entry("f", FALSE)
      g == Entry("g", FALSE)
      h == Entry("h", FALSE)
  IN {<<f, up, d, g, h>>, <<f, d>>, <<up>>}

fileVars ==
  <<file, off, mode, buf, buf_pos, buf_len, error, call, todo, need, got, round,
    fails, want, at, from, dropped, astray>>
textVars == <<mem, was, dest, src, number, function, out>>
recallVars == <<history, history_count, history_pos, edited, recalled, added>>
shellVars ==
  <<shell, line, cmd, args, position, executable, fullpath, child, passed, lines>>
browserVars ==
  <<readable, listing, current_files, selected, scroll, last_index, aimed, drawn, opened>>
pocketVars == <<display, current_value, memory, operator, new_number, overrun, entered>>
userVars ==
  <<vars, fileVars, textVars, recallVars, shellVars, browserVars, pocketVars, part>>

(* Only the part that moves begins in each of its initial states.             *)
UserInit ==
  /\ part \in {"heap", "file", "text", "history", "commands", "files", "calculator"}
  /\ Init /\ File!Init /\ Recall!Init /\ Pocket!Init
  /\ IF part = "text" THEN Text!Init
     ELSE /\ mem = [i \in 0 .. SIZE - 1 |-> 0] /\ was = mem
          /\ dest = 0 /\ src = 0 /\ number = 0 /\ function = "none" /\ out = 0
  /\ Shell!Init /\ (part # "commands" => executable = {})
  /\ Browser!Init /\ (part # "files" => listing = <<Entry("..", TRUE)>>)

Carried(A) ==
  /\ part = "file" /\ A
  /\ UNCHANGED <<part, vars, textVars, recallVars, shellVars, browserVars, pocketVars>>

UserNext ==
  \/ /\ part = "heap" /\ Next
     /\ UNCHANGED <<part, fileVars, textVars, recallVars, shellVars, browserVars,
                    pocketVars>>
  \/ Carried(File!Next)
  \/ /\ part = "text" /\ Text!Next
     /\ UNCHANGED <<part, vars, fileVars, recallVars, shellVars, browserVars, pocketVars>>
  \/ /\ part = "history" /\ Recall!Next
     /\ UNCHANGED <<part, vars, fileVars, textVars, shellVars, browserVars, pocketVars>>
  \/ /\ part = "commands" /\ Shell!Next
     /\ UNCHANGED <<part, vars, fileVars, textVars, recallVars, browserVars, pocketVars>>
  \/ /\ part = "files" /\ Browser!Next
     /\ UNCHANGED <<part, vars, fileVars, textVars, recallVars, shellVars, pocketVars>>
  \/ /\ part = "calculator" /\ Pocket!Next
     /\ UNCHANGED <<part, vars, fileVars, textVars, recallVars, shellVars, browserVars>>

(* A call of fread or fwrite that has begun is carried on with.               *)
UserSpec ==
  /\ UserInit /\ [][UserNext]_userVars
  /\ WF_userVars(Carried(File!Step))

-----------------------------------------------------------------------------
(* malloc, free and realloc keep the list a partition of the array in which    *)
(* the blocks in use are those the program holds.                           *)
HeapSound == TypeOK /\ BlocksTile /\ LiveBacked

(* fread gives the bytes the program is at, ftell says where that is, and what  *)
(* fwrite has taken is in the file or in the buffer, in its place: until bytes   *)
(* of the buffer are dropped, by a write that was cut short or that fseek or      *)
(* fclose ignored, or the one index has taken bytes read for bytes to be written.  *)
(* From a refused read to the next fseek nothing is promised of reads.          *)
FileRight == File!TypeOK /\ File!ReadsRight /\ File!TellsRight /\ File!WritesKept

(* The loops of fread and fwrite end, also when the kernel refuses a read or a   *)
(* write or cuts a write short; on stdout, which has no buffer, fwrite does not.  *)
CallsReturn == File!CallsReturn

(* strlen, strcmp, strstr, memmove and the others give what C promises wherever   *)
(* their operands lie (strchr and strrchr for a char, which above 127 is negative),  *)
(* and printf's numbers read back as what was printed.                        *)
StringsRight == Text!TypeOK /\ Text!PromiseKept

(* The ring of the history holds the last commands, and the arrow keys walk        *)
(* through them and then round the ring; a line runs the words that were typed, by  *)
(* the program that PATH gives, where its path fits in fullpath.                *)
ShellRight ==
  /\ Recall!TypeOK /\ Recall!HoldsRecent /\ Recall!WalksThrough
  /\ Shell!TypeOK /\ Shell!CommandRight

(* The file manager selects the row the click was on and opens a list only for a    *)
(* directory that was there, and the calculator holds the value of what was         *)
(* entered, as long as it fits in display.                                    *)
AppsRight ==
  /\ Browser!TypeOK /\ Browser!ListRight
  /\ Pocket!TypeOK /\ Pocket!EvaluatesEntered
=============================================================================
