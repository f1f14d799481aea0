-------------------------------- MODULE Stdio --------------------------------
(***************************************************************************)
(* Buffered files of the C library (src/USERLAND/linbc.c): fopen, fread,     *)
(* fwrite, fseek, ftell and fclose over the file calls of the kernel. One    *)
(* buffer and one index, buf_pos, serve reading and writing.                *)
(*                                                                         *)
(* One stream on one file. The loops of fread and fwrite take a step for     *)
(* every round; the other calls are a step each. The kernel may refuse a     *)
(* read or a write and may take a part of what it is given. The histories    *)
(* say what a program that knows nothing of buffers expects, and where the   *)
(* library has lost it for good.                                            *)
(***************************************************************************)
EXTENDS Integers, Sequences, SequencesExt

CONSTANTS
  Bytes,          (* the bytes a program writes                             *)
  Junk,           (* a byte of the buffer that was never set                *)
  FILE_BUFFER_SIZE,  (* 4096 in the code                                    *)
  SIZE_MAX,       (* the largest size_t, which -1 is as one                  *)
  Modes,          (* the modes fopen is called with                         *)
  Whences,        (* the kinds of fseek a program uses                      *)
  OldFile,        (* what the file holds at first                           *)
  Amounts,        (* bytes a call of fread or fwrite is about               *)
  MaxLen,         (* bound: bytes of the file                               *)
  MaxFails        (* bound: reads refused, writes refused or cut short       *)

(* Assumed of the constants; the modules that instantiate this one check it. *)
StdioAssumption ==
  /\ Junk \notin Bytes /\ 0 \in Bytes
  /\ FILE_BUFFER_SIZE \in Nat \ {0}
  /\ SIZE_MAX \in Nat /\ SIZE_MAX > FILE_BUFFER_SIZE
  /\ Modes \subseteq {"r", "r+", "w", "a", "stdout"}
  /\ Whences \subseteq {"SEEK_SET", "SEEK_CUR", "SEEK_END"}
  /\ OldFile \in Seq(Bytes)
  /\ Amounts \subseteq Nat \ {0}

VARIABLES
  file, off,      (* kernel: the content of the file, the offset of the fd   *)
  mode,           (* the mode of the stream, "closed" when there is none     *)
  buf,            (* stream->buf                                            *)
  buf_pos, buf_len,
  error,          (* stream->error                                          *)
  call,           (* the call under way: "none", "fread" or "fwrite"         *)
  todo,           (* fwrite: the bytes not yet copied                       *)
  need,           (* fread: total - read; stays until the next call          *)
  got,            (* fread: the bytes so far; stays until the next call      *)
  round,          (* flips with every round but the last, to tell a loop       *)
                  (* that does nothing from a halt                          *)
  fails,          (* reads refused, writes refused or cut short so far       *)
  want,           (* history: the file the program expects                  *)
  at,             (* history: the position it expects                       *)
  from,           (* history: the position of the last fread                *)
  dropped,        (* history: bytes of the buffer were dropped: a write took  *)
                  (* a part of them, or fseek or fclose went on after one   *)
  astray          (* history: the one index took bytes read for bytes to be   *)
                  (* written, or the other way round                        *)

stream == <<mode, buf, buf_pos, buf_len, error>>
loop == <<call, todo, need, got, round>>
kernel == <<file, off, fails>>
expected == <<want, at, from, dropped, astray>>
vars == <<stream, loop, kernel, expected>>

Least(m, n) == IF m < n THEN m ELSE n
(* s with d written over it from offset o on; a gap reads as zeros.          *)
Overwritten(s, o, d) ==
  [i \in 1 .. (IF o + Len(d) > Len(s) THEN o + Len(d) ELSE Len(s)) |->
     IF i \in o + 1 .. o + Len(d) THEN d[i - o]
     ELSE IF i <= Len(s) THEN s[i] ELSE 0]

(* fopen allocates the buffer; that of stdout is NULL, with size 0.          *)
buf_size == IF mode = "stdout" THEN 0 ELSE FILE_BUFFER_SIZE
Readable == mode \in {"r", "r+"}
Writable == mode \in {"r+", "w", "a", "stdout"}
(* Where the kernel writes: O_APPEND moves to the end first.                 *)
Target == IF mode \in {"a", "stdout"} THEN Len(file) ELSE off
(* Where the program expects the byte it writes next.                        *)
Where == IF mode \in {"a", "stdout"} THEN Len(want) ELSE at

Init ==
  /\ file = OldFile /\ off = 0 /\ fails = 0
  /\ mode = "closed"
  /\ buf = [i \in 1 .. FILE_BUFFER_SIZE |-> Junk]
  /\ buf_pos = 0 /\ buf_len = 0 /\ error = FALSE
  /\ call = "none" /\ todo = <<>> /\ need = 0 /\ got = <<>> /\ round = 0
  /\ want = OldFile /\ at = 0 /\ from = 0 /\ dropped = FALSE /\ astray = FALSE

(* soiav_write(fd, data) returns taken: the kernel takes the first bytes, all    *)
(* or some of them, or refuses with -1, always so for a file that is not open  *)
(* for writing.                                                             *)
soiav_write(data, taken) ==
  /\ taken >= 0 => Writable
  /\ Writable /\ taken < Len(data) => fails < MaxFails
  /\ file' = IF taken > 0 THEN Overwritten(file, Target, SubSeq(data, 1, taken))
             ELSE file
  /\ fails' = IF Writable /\ taken < Len(data) THEN fails + 1 ELSE fails

OffAfter(taken) == IF taken > 0 THEN Target + taken ELSE off

(* What the buffer holds: bytes that were read when buf_len is not 0, else bytes  *)
(* that wait to be written.                                                 *)
Holds(read) == buf_pos > 0 /\ (buf_len > 0) = read

(* fopen; stdout is open from the start, with no buffer.                     *)
fopen(m) ==
  /\ mode = "closed"
  /\ mode' = m
  /\ file' = IF m = "w" THEN <<>> ELSE file
  /\ off' = 0
  /\ buf' = [i \in 1 .. FILE_BUFFER_SIZE |-> Junk]
  /\ buf_pos' = 0 /\ buf_len' = 0 /\ error' = FALSE
  /\ want' = file'
  /\ at' = IF m \in {"a", "stdout"} THEN Len(file) ELSE 0
  /\ from' = 0 /\ dropped' = FALSE /\ astray' = FALSE
  /\ got' = <<>> /\ need' = 0
  /\ UNCHANGED <<call, todo, round, fails>>

(* The library has kept what it was given: no bytes were dropped and none       *)
(* taken for others. A program is followed to there (a bound): then the call    *)
(* under way is carried on and the stream may be closed.                      *)
Sound == ~dropped /\ ~astray

(* fread and fwrite begin; their loops are the Round actions.                *)
fread(n) ==
  /\ Readable /\ call = "none" /\ Sound /\ at <= Len(want)
  /\ call' = "fread" /\ need' = n /\ got' = <<>>
  /\ from' = at
  /\ UNCHANGED <<stream, todo, round, kernel, want, at, dropped, astray>>

Goes == round' = IF call' = "none" THEN 0 ELSE 1 - round

(* Where a round of fread copies from.                                      *)
Start(refill) == IF refill THEN 0 ELSE buf_pos

(* A round of fread: refill an empty buffer, which ends the call at the end   *)
(* of the file, and copy what there is. Bytes that waited to be written are    *)
(* overwritten.                                                             *)
FreadRound ==
  /\ call = "fread"
  /\ buf_pos >= buf_len \/ buf_len # SIZE_MAX
  /\ LET refill == buf_pos >= buf_len
         chunk == IF refill
                    THEN SubSeq(file, off + 1, Least(off + buf_size, Len(file)))
                    ELSE SubSeq(buf, 1, buf_len)
         copied == SubSeq(chunk, Start(refill) + 1,
                          Least(Start(refill) + need, Len(chunk)))
     IN /\ buf' = Overwritten(buf, 0, chunk)
        /\ buf_len' = Len(chunk)
        /\ buf_pos' = Start(refill) + Len(copied)
        /\ off' = IF refill THEN off + Len(chunk) ELSE off
        /\ got' = got \o copied
        /\ at' = at + Len(copied)
        /\ need' = need - Len(copied)
        /\ call' = IF chunk = <<>> \/ need' = 0 THEN "none" ELSE call
        /\ astray' = (astray \/ (refill /\ Holds(FALSE)))
  /\ Goes
  /\ UNCHANGED <<mode, error, todo, file, fails, want, from, dropped>>

(* A round after a read was refused: buf_len is unsigned, and -1 in it is more   *)
(* than enough, now and in later calls. The buffer is not filled; the call     *)
(* takes all it needs from there and from what lies behind.                  *)
FreadGarbled ==
  /\ call = "fread"
  /\ LET refill == buf_pos >= buf_len
         memory == [i \in 1 .. Start(refill) + need |->
                      IF i <= buf_size THEN buf[i] ELSE Junk]
     IN /\ IF refill THEN fails < MaxFails /\ fails' = fails + 1
                  ELSE buf_len = SIZE_MAX /\ fails' = fails
        /\ Start(refill) + need < SIZE_MAX
        /\ got' = got \o SubSeq(memory, Start(refill) + 1, Start(refill) + need)
        /\ buf_len' = SIZE_MAX
        /\ buf_pos' = Start(refill) + need
        /\ at' = at + need
        /\ need' = 0 /\ call' = "none"
        /\ astray' = (astray \/ (refill /\ Holds(FALSE)))
  /\ Goes
  /\ UNCHANGED <<mode, buf, error, todo, file, off, want, from, dropped>>

(* The index of a stream may lie behind its buffer after a refused read only;   *)
(* what is stored or written from there is left out.                         *)
fwrite(data) ==
  /\ Writable /\ call = "none" /\ Sound /\ buf_pos <= buf_size
  /\ Where + Len(data) <= MaxLen /\ Len(file) <= MaxLen
  /\ call' = "fwrite" /\ todo' = data /\ got' = <<>>
  /\ astray' = (astray \/ buf_len > 0)
  /\ UNCHANGED <<stream, need, round, kernel, want, at, from, dropped>>

(* Mutants: the buffer is only written when one more byte would be in it; a    *)
(* refused write forgets what is in it.                                     *)
FullLate(n) == n > buf_size
KeptNever(taken, n) == 0

Full(n) == n >= buf_size
Room == buf_size - buf_pos
(* buf_pos after n bytes were given to soiav_write.                         *)
Kept(taken, n) == IF taken >= 0 THEN 0 ELSE n

(* A round of fwrite: copy what fits and write a full buffer. A refused       *)
(* write ends the call; what was copied counts as written and stays. A short    *)
(* one passes for a whole one, and the rest of the buffer is dropped.          *)
FwriteRound ==
  /\ call = "fwrite"
  /\ LET n == Least(Room, Len(todo))
         copied == SubSeq(todo, 1, n)
     IN /\ want' = Overwritten(want, Where, copied)
        /\ at' = Where + n
        /\ todo' = SubSeq(todo, n + 1, Len(todo))
        /\ buf' = Overwritten(buf, buf_pos, copied)
        /\ IF Full(buf_pos + n)
             THEN \E taken \in -1 .. buf_pos + n :
                    /\ soiav_write(SubSeq(buf', 1, buf_pos + n), taken)
                    /\ off' = OffAfter(taken)
                    /\ buf_pos' = Kept(taken, buf_pos + n)
                    /\ error' = (error \/ taken < 0)
                    /\ dropped' = (dropped \/ (taken >= 0 /\ taken < buf_pos + n))
                    /\ call' = IF taken < 0 \/ todo' = <<>> THEN "none" ELSE call
             ELSE /\ buf_pos' = buf_pos + n
                  /\ call' = IF todo' = <<>> THEN "none" ELSE call
                  /\ UNCHANGED <<error, kernel, dropped>>
  /\ Goes
  /\ UNCHANGED <<mode, buf_len, need, got, from, astray>>

(* What fseek and fclose do first; they ignore what it returns, and give the    *)
(* kernel what was read as well as what is to be written.                     *)
Flush(taken) ==
  IF buf_pos = 0
    THEN taken = 0 /\ UNCHANGED <<file, fails, dropped>>
    ELSE /\ Writable => buf_pos <= buf_size /\ Len(file) <= MaxLen
         /\ soiav_write(SubSeq(buf, 1, buf_pos), taken)
         /\ dropped' = (dropped \/ (Writable /\ taken < buf_pos))

(* fseek: the kernel's offset moves, counted from where the flush left it,     *)
(* which is not where a program is that has bytes of the buffer left to read.  *)
(* The program stays within its file.                                       *)
fseek(whence, offset) ==
  LET base(here, content) == CASE whence = "SEEK_SET" -> 0
                               [] whence = "SEEK_CUR" -> here
                               [] whence = "SEEK_END" -> Len(content)
  IN /\ mode \notin {"closed", "stdout"} /\ call = "none" /\ Sound
     /\ base(at, want) + offset \in 0 .. Len(want)
     /\ at' = base(at, want) + offset
     /\ \E taken \in -1 .. buf_pos :
          LET position == base(OffAfter(taken), file') + offset
          IN /\ Flush(taken)
             /\ off' = IF position >= 0 THEN position ELSE OffAfter(taken)
     /\ astray' = \/ astray
                  \/ Writable /\ Holds(TRUE)
                  \/ whence = "SEEK_CUR" /\ buf_len > 0 /\ buf_pos # buf_len
     /\ buf_pos' = 0 /\ buf_len' = 0 /\ got' = <<>> /\ need' = 0
     /\ UNCHANGED <<mode, buf, error, call, todo, round, want, from>>

(* fclose; the fields of the stream are freed.                               *)
fclose ==
  /\ mode \notin {"closed", "stdout"} /\ call = "none"
  /\ \E taken \in -1 .. buf_pos : Flush(taken)
  /\ mode' = "closed" /\ off' = 0
  /\ buf' = [i \in 1 .. FILE_BUFFER_SIZE |-> Junk]
  /\ buf_pos' = 0 /\ buf_len' = 0 /\ error' = FALSE
  /\ got' = <<>> /\ need' = 0 /\ at' = 0 /\ from' = 0
  /\ astray' = (astray \/ (Writable /\ Holds(TRUE)))
  /\ UNCHANGED <<call, todo, round, want>>

ftell == off + (IF buf_pos > 0 THEN buf_pos - buf_len ELSE 0)

Step == FreadRound \/ FreadGarbled \/ FwriteRound

Data == UNION {[1 .. n -> Bytes] : n \in Amounts}

Next ==
  \/ \E m \in Modes : fopen(m)
  \/ \E n \in Amounts : fread(n)
  \/ \E data \in Data : fwrite(data)
  \/ \E whence \in Whences, offset \in -1 .. MaxLen : fseek(whence, offset)
  \/ fclose
  \/ Step

Spec == Init /\ [][Next]_vars
-----------------------------------------------------------------------------
TypeOK ==
  /\ file \in Seq(Bytes \union {Junk}) /\ off \in Nat
  /\ mode \in Modes \union {"closed"}
  /\ buf \in [1 .. FILE_BUFFER_SIZE -> Bytes \union {Junk}]
  /\ buf_pos \in Nat /\ buf_len \in 0 .. FILE_BUFFER_SIZE \union {SIZE_MAX}
  /\ call \in {"none", "fread", "fwrite"}
  /\ todo \in Seq(Bytes) /\ got \in Seq(Bytes \union {Junk})

(* A program that reads gets the bytes of the file from the position it is    *)
(* at, whatever refills and seeks there were between, and less than it asked  *)
(* for only at the end. (Not after a read was refused, whose error the code     *)
(* takes for bytes, until the next fseek.)                                   *)
ReadsRight ==
  Sound /\ buf_len # SIZE_MAX =>
    /\ got = SubSeq(want, from + 1, from + Len(got))
    /\ call = "none" /\ need > 0 => at = Len(want)

(* A program that writes loses nothing: the file, with what still waits in    *)
(* the buffer written over it, is what the program has written, also after   *)
(* fwrite met refused writes.                                               *)
WritesKept ==
  Sound =>
    want = IF mode \in {"closed", "r"} \/ buf_len > 0 THEN file
           ELSE Overwritten(file, Target, SubSeq(buf, 1, buf_pos))

(* ftell tells the program the position it is at, in the middle of a buffer,  *)
(* too. An append stream is not asked.                                      *)
TellsRight ==
  mode \in {"r", "r+", "w"} /\ Sound /\ buf_len # SIZE_MAX => ftell = at

(* Every fread and fwrite comes to an end, also when reads and writes are       *)
(* refused or cut short; but not on stdout, whose buffer of no bytes is always   *)
(* full and always written, and takes no byte: fwrite, and with it fputc and      *)
(* printf, go round until the kernel refuses a write of nothing.               *)
CallsReturn == [](call # "none" /\ mode # "stdout" => <>(call = "none"))

=============================================================================
