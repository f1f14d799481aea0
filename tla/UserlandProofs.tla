---------------------------- MODULE UserlandProofs ----------------------------
(***************************************************************************)
(* Theorems about MCUserland: for files and writes of any content and length *)
(* and buffers of any size a stream gives back what was written, where it     *)
(* was written, until the library drops bytes or takes some for others;         *)
(* malloc's list is sound for an array, headers and requests of any size; the   *)
(* file manager selects and opens the row that is drawn where the click goes      *)
(* and the calculator evaluates what was entered, for any listings and screens;   *)
(* the shell keeps the last commands and runs the words typed, for any lines,     *)
(* PATH and history; and the string functions do what C promises, for any        *)
(* array, sizes and numbers.                                                *)
(***************************************************************************)
EXTENDS MCUserland, SequenceTheorems, FiniteSetTheorems, WellFoundedInduction, TLAPS

-----------------------------------------------------------------------------
(* Pieces of sequences.                                                    *)

LEMMA Piece ==
  ASSUME NEW S, NEW s \in Seq(S), NEW a \in Nat, NEW b \in Nat,
         a <= b, b <= Len(s)
  PROVE  /\ SubSeq(s, a + 1, b) \in Seq(S)
         /\ Len(SubSeq(s, a + 1, b)) = b - a
         /\ \A i \in 1 .. b - a : SubSeq(s, a + 1, b)[i] = s[a + i]
<1>1. \A i \in a + 1 .. b : s[i] \in S
  BY ElementOfSeq
<1>2. /\ SubSeq(s, a + 1, b) \in Seq(S)
      /\ Len(SubSeq(s, a + 1, b)) = IF a + 1 <= b THEN b - (a + 1) + 1 ELSE 0
      /\ \A i \in 1 .. b - (a + 1) + 1 : SubSeq(s, a + 1, b)[i] = s[a + 1 + i - 1]
  BY <1>1, SubSeqProperties
<1>3. b - (a + 1) + 1 = b - a /\ \A i \in 1 .. b - a : a + 1 + i - 1 = a + i
  OBVIOUS
<1>4. Len(SubSeq(s, a + 1, b)) = b - a
  BY <1>2
<1>5. QED
  BY <1>2, <1>3, <1>4

LEMMA FirstPiece ==
  ASSUME NEW S, NEW s \in Seq(S), NEW n \in Nat, n <= Len(s)
  PROVE  /\ SubSeq(s, 1, n) \in Seq(S) /\ Len(SubSeq(s, 1, n)) = n
         /\ \A i \in 1 .. n : SubSeq(s, 1, n)[i] = s[i]
<1>1. 0 + 1 = 1 /\ n - 0 = n /\ \A i \in 1 .. n : 0 + i = i
  OBVIOUS
<1>2. QED
  BY <1>1, Piece, 0 \in Nat, 0 <= n

(* A piece of a piece, and two pieces side by side.                          *)
LEMMA PieceOfPiece ==
  ASSUME NEW S, NEW s \in Seq(S), NEW a \in Nat, NEW n \in Nat,
         a + n <= Len(s), NEW c \in Nat, NEW d \in Nat, c <= d, d <= n
  PROVE  SubSeq(SubSeq(s, a + 1, a + n), c + 1, d) = SubSeq(s, a + c + 1, a + d)
<1> DEFINE t == SubSeq(s, a + 1, a + n)
           u == SubSeq(t, c + 1, d)
           v == SubSeq(s, (a + c) + 1, a + d)
<1>1. t \in Seq(S) /\ Len(t) = n /\ \A i \in 1 .. n : t[i] = s[a + i]
  <2>1. a + n \in Nat /\ a <= a + n /\ (a + n) - a = n
    OBVIOUS
  <2>2. QED
    BY <2>1, Piece
<1>2. u \in Seq(S) /\ Len(u) = d - c /\ \A i \in 1 .. d - c : u[i] = t[c + i]
  <2> HIDE DEF t
  <2> QED BY <1>1, Piece
<1>3. v \in Seq(S) /\ Len(v) = d - c /\ \A i \in 1 .. d - c : v[i] = s[(a + c) + i]
  <2>1. a + c \in Nat /\ a + d \in Nat /\ a + c <= a + d /\ a + d <= Len(s)
        /\ (a + d) - (a + c) = d - c
    BY LenProperties
  <2>2. QED
    BY <2>1, Piece
<1>4. \A i \in 1 .. d - c : c + i \in 1 .. n /\ a + (c + i) = (a + c) + i
  OBVIOUS
<1>5. \A i \in 1 .. d - c : u[i] = v[i]
  <2> HIDE DEF t, u, v
  <2> QED BY <1>1, <1>2, <1>3, <1>4
<1>6. QED
  <2> HIDE DEF u, v
  <2>1. u = v
    BY <1>2, <1>3, <1>5, SeqEqual
  <2>2. QED
    BY <2>1 DEF t, u, v

LEMMA PiecesJoin ==
  ASSUME NEW S, NEW s \in Seq(S), NEW a \in Nat, NEW b \in Nat, NEW c \in Nat,
         a <= b, b <= c, c <= Len(s)
  PROVE  SubSeq(s, a + 1, b) \o SubSeq(s, b + 1, c) = SubSeq(s, a + 1, c)
<1> DEFINE t == SubSeq(s, a + 1, b)
           u == SubSeq(s, b + 1, c)
           v == SubSeq(s, a + 1, c)
<1>1. t \in Seq(S) /\ Len(t) = b - a /\ \A i \in 1 .. b - a : t[i] = s[a + i]
  BY Piece
<1>2. u \in Seq(S) /\ Len(u) = c - b /\ \A i \in 1 .. c - b : u[i] = s[b + i]
  BY Piece
<1>3. v \in Seq(S) /\ Len(v) = c - a /\ \A i \in 1 .. c - a : v[i] = s[a + i]
  BY Piece
<1> HIDE DEF t, u, v
<1>4. /\ t \o u \in Seq(S) /\ Len(t \o u) = Len(t) + Len(u)
      /\ \A i \in 1 .. Len(t) + Len(u) :
           (t \o u)[i] = IF i <= Len(t) THEN t[i] ELSE u[i - Len(t)]
  BY <1>1, <1>2, ConcatProperties
<1>5. Len(t) + Len(u) = c - a
  BY <1>1, <1>2
<1>6. ASSUME NEW i \in 1 .. c - a PROVE (t \o u)[i] = v[i]
  <2>1. CASE i <= b - a
    BY <1>1, <1>3, <1>4, <1>5, <2>1
  <2>2. CASE ~ (i <= b - a)
    <3>1. i - (b - a) \in 1 .. c - b /\ b + (i - (b - a)) = a + i
      BY <2>2
    <3>2. QED
      BY <1>1, <1>2, <1>3, <1>4, <1>5, <2>2, <3>1
  <2>3. QED
    BY <2>1, <2>2
<1>7. t \o u = v
  BY <1>3, <1>4, <1>5, <1>6, SeqEqual
<1>8. QED
  BY <1>7 DEF t, u, v
-----------------------------------------------------------------------------
(* Writing over a sequence.                                                *)

Larger(m, n) == IF m > n THEN m ELSE n

(* w is s, of elements of S, with d written over it from offset o on.         *)
Over(w, S, s, o, d) ==
  /\ w \in Seq(S) /\ Len(w) = Larger(o + Len(d), Len(s))
  /\ \A i \in 1 .. Larger(o + Len(d), Len(s)) :
       w[i] = IF i \in o + 1 .. o + Len(d) THEN d[i - o]
              ELSE IF i <= Len(s) THEN s[i] ELSE 0

LEMMA OverIs ==
  ASSUME NEW S, 0 \in S, NEW s \in Seq(S), NEW o \in Nat, NEW d \in Seq(S)
  PROVE  Over(File!Overwritten(s, o, d), S, s, o, d)
<1> DEFINE n == Larger(o + Len(d), Len(s))
           E(i) == IF i \in o + 1 .. o + Len(d) THEN d[i - o]
                   ELSE IF i <= Len(s) THEN s[i] ELSE 0
           w == [i \in 1 .. n |-> E(i)]
<1>1. Len(s) \in Nat /\ Len(d) \in Nat
  BY LenProperties
<1>2. n \in Nat
  BY <1>1 DEF Larger
<1>3. \A i \in 1 .. n : E(i) \in S
  <2>1. \A i \in o + 1 .. o + Len(d) : i - o \in 1 .. Len(d)
    BY <1>1
  <2>2. \A i \in o + 1 .. o + Len(d) : d[i - o] \in S
    BY <2>1, ElementOfSeq
  <2>3. \A i \in 1 .. n : i <= Len(s) => s[i] \in S
    BY <1>1, <1>2, ElementOfSeq
  <2>4. QED
    BY <2>2, <2>3
<1>4. w \in [1 .. n -> S]
  <2> HIDE DEF n, E
  <2> QED BY <1>3
<1>5. w \in Seq(S) /\ Len(w) = n
  <2> HIDE DEF n, w
  <2>1. w \in Seq(S)
    BY <1>2, <1>4, SeqDef
  <2>2. QED
    BY <1>2, <1>4, <2>1, LenProperties
<1>6. File!Overwritten(s, o, d) = w
  BY DEF File!Overwritten, Larger
<1>7. \A i \in 1 .. n : w[i] = E(i)
  OBVIOUS
<1>8. QED
  <2> HIDE DEF w
  <2>1. Over(w, S, s, o, d)
    BY <1>5, <1>7 DEF Over
  <2>2. QED
    BY <1>6, <2>1

(* Nothing written changes nothing.                                        *)
LEMMA OverNothing ==
  ASSUME NEW S, 0 \in S, NEW s \in Seq(S), NEW o \in Nat, o <= Len(s)
  PROVE  File!Overwritten(s, o, <<>>) = s
<1> DEFINE w == File!Overwritten(s, o, <<>>)
<1>1. <<>> \in Seq(S) /\ Len(<<>>) = 0 /\ Len(s) \in Nat
  BY EmptySeq, LenProperties
<1>2. Larger(o + 0, Len(s)) = Len(s) /\ \A i : i \notin o + 1 .. o + 0
  BY <1>1 DEF Larger
<1>3. w \in Seq(S) /\ Len(w) = Len(s) /\ \A i \in 1 .. Len(s) : w[i] = s[i]
  <2>1. Over(w, S, s, o, <<>>)
    BY <1>1, OverIs
  <2> HIDE DEF w
  <2>2. QED
    BY <1>1, <1>2, <2>1 DEF Over
<1>4. w = s
  <2> HIDE DEF w
  <2> QED BY <1>3, SeqEqual
<1>5. QED
  BY <1>4

(* Two writes, the second behind the first, are one.                        *)
LEMMA OverTwice ==
  ASSUME NEW S, 0 \in S, NEW s \in Seq(S), NEW o \in Nat, o <= Len(s),
         NEW d \in Seq(S), NEW e \in Seq(S)
  PROVE  File!Overwritten(File!Overwritten(s, o, d), o + Len(d), e)
           = File!Overwritten(s, o, d \o e)
<1> DEFINE w == File!Overwritten(s, o, d)
           x == File!Overwritten(w, o + Len(d), e)
           y == File!Overwritten(s, o, d \o e)
           n == Larger(o + Len(d), Len(s))
           m == Larger(o + Len(d) + Len(e), Len(s))
<1>1. Len(s) \in Nat /\ Len(d) \in Nat /\ Len(e) \in Nat /\ o + Len(d) \in Nat
  BY LenProperties
<1>2. /\ d \o e \in Seq(S) /\ Len(d \o e) = Len(d) + Len(e)
      /\ \A i \in 1 .. Len(d) + Len(e) :
           (d \o e)[i] = IF i <= Len(d) THEN d[i] ELSE e[i - Len(d)]
  BY ConcatProperties
<1>3. /\ w \in Seq(S) /\ Len(w) = n
      /\ \A i \in 1 .. n : w[i] = IF i \in o + 1 .. o + Len(d) THEN d[i - o]
                                  ELSE IF i <= Len(s) THEN s[i] ELSE 0
  <2>1. Over(w, S, s, o, d)
    BY OverIs
  <2> HIDE DEF w
  <2>2. QED
    BY <2>1 DEF Over
<1>4. /\ x \in Seq(S) /\ Len(x) = Larger(o + Len(d) + Len(e), n)
      /\ \A i \in 1 .. Larger(o + Len(d) + Len(e), n) :
           x[i] = IF i \in o + Len(d) + 1 .. o + Len(d) + Len(e)
                    THEN e[i - (o + Len(d))]
                  ELSE IF i <= n THEN w[i] ELSE 0
  <2> HIDE DEF w
  <2>1. Over(x, S, w, o + Len(d), e)
    BY <1>1, <1>3, OverIs
  <2>2. Len(w) = n
    BY <1>3
  <2> HIDE DEF x, n
  <2>3. QED
    BY <2>1, <2>2 DEF Over
<1>5. /\ y \in Seq(S) /\ Len(y) = Larger(o + (Len(d) + Len(e)), Len(s))
      /\ \A i \in 1 .. Larger(o + (Len(d) + Len(e)), Len(s)) :
           y[i] = IF i \in o + 1 .. o + (Len(d) + Len(e)) THEN (d \o e)[i - o]
                  ELSE IF i <= Len(s) THEN s[i] ELSE 0
  <2>1. Over(y, S, s, o, d \o e)
    BY <1>2, OverIs
  <2> HIDE DEF y
  <2>2. QED
    BY <1>2, <2>1 DEF Over
<1>6. /\ m = Larger(o + Len(d) + Len(e), n)
      /\ m = Larger(o + (Len(d) + Len(e)), Len(s))
      /\ m \in Nat /\ n \in Nat /\ n <= m
  BY <1>1 DEF Larger
<1>7. ASSUME NEW i \in 1 .. m PROVE x[i] = y[i]
  <2> HIDE DEF w, x, y
  <2>1. CASE i \in o + Len(d) + 1 .. o + Len(d) + Len(e)
    <3>1. /\ i \in o + 1 .. o + (Len(d) + Len(e))
          /\ i - o \in 1 .. Len(d) + Len(e) /\ ~ (i - o <= Len(d))
          /\ i - o - Len(d) = i - (o + Len(d))
      BY <1>1, <2>1
    <3>2. x[i] = e[i - (o + Len(d))]
      BY <1>4, <1>6, <2>1
    <3>3. y[i] = (d \o e)[i - o] /\ (d \o e)[i - o] = e[i - o - Len(d)]
      BY <1>2, <1>5, <1>6, <3>1
    <3>4. QED
      BY <3>1, <3>2, <3>3
  <2>2. CASE i \in o + 1 .. o + Len(d)
    <3>1. /\ i \notin o + Len(d) + 1 .. o + Len(d) + Len(e)
          /\ i \in o + 1 .. o + (Len(d) + Len(e))
          /\ i - o \in 1 .. Len(d) + Len(e) /\ i - o <= Len(d)
          /\ i <= n /\ i \in 1 .. n
      BY <1>1, <2>2 DEF Larger
    <3>2. x[i] = w[i] /\ w[i] = d[i - o]
      BY <1>3, <1>4, <1>6, <2>2, <3>1
    <3>3. y[i] = (d \o e)[i - o] /\ (d \o e)[i - o] = d[i - o]
      BY <1>2, <1>5, <1>6, <3>1
    <3>4. QED
      BY <3>2, <3>3
  <2>3. CASE i \notin o + 1 .. o + (Len(d) + Len(e))
    <3>1. /\ i \notin o + Len(d) + 1 .. o + Len(d) + Len(e)
          /\ i \notin o + 1 .. o + Len(d)
          /\ i <= Len(s) /\ i <= n /\ i \in 1 .. n
      BY <1>1, <2>3 DEF Larger
    <3>2. x[i] = w[i] /\ w[i] = s[i]
      BY <1>3, <1>4, <1>6, <3>1
    <3>3. y[i] = s[i]
      BY <1>5, <1>6, <2>3, <3>1
    <3>4. QED
      BY <3>2, <3>3
  <2>4. QED
    BY <1>1, <2>1, <2>2, <2>3
<1>8. x = y
  <2> HIDE DEF x, y, m
  <2> QED BY <1>4, <1>5, <1>6, <1>7, SeqEqual
<1>9. QED
  BY <1>8

(* What the buffer holds after a copy into it.                              *)
LEMMA BufferOver ==
  ASSUME NEW S, 0 \in S, NEW s \in Seq(S), NEW o \in Nat, NEW d \in Seq(S),
         o + Len(d) <= Len(s)
  PROVE  /\ File!Overwritten(s, o, d) \in Seq(S)
         /\ Len(File!Overwritten(s, o, d)) = Len(s)
         /\ SubSeq(File!Overwritten(s, o, d), 1, o + Len(d)) = SubSeq(s, 1, o) \o d
<1> DEFINE w == File!Overwritten(s, o, d)
           t == SubSeq(s, 1, o)
           u == SubSeq(w, 1, o + Len(d))
<1>1. Len(s) \in Nat /\ Len(d) \in Nat /\ o + Len(d) \in Nat /\ o <= Len(s)
  BY LenProperties
<1>2. Larger(o + Len(d), Len(s)) = Len(s)
  BY <1>1 DEF Larger
<1>3. /\ w \in Seq(S) /\ Len(w) = Len(s)
      /\ \A i \in 1 .. Len(s) : w[i] = IF i \in o + 1 .. o + Len(d) THEN d[i - o]
                                       ELSE IF i <= Len(s) THEN s[i] ELSE 0
  <2>1. Over(w, S, s, o, d)
    BY OverIs
  <2> HIDE DEF w
  <2>2. QED
    BY <1>2, <2>1 DEF Over
<1>4. t \in Seq(S) /\ Len(t) = o /\ \A i \in 1 .. o : t[i] = s[i]
  BY <1>1, FirstPiece
<1> HIDE DEF w, t
<1>5. u \in Seq(S) /\ Len(u) = o + Len(d) /\ \A i \in 1 .. o + Len(d) : u[i] = w[i]
  BY <1>1, <1>3, FirstPiece
<1> HIDE DEF u
<1>6. /\ t \o d \in Seq(S) /\ Len(t \o d) = o + Len(d)
      /\ \A i \in 1 .. o + Len(d) : (t \o d)[i] = IF i <= o THEN t[i] ELSE d[i - o]
  BY <1>4, ConcatProperties
<1>7. ASSUME NEW i \in 1 .. o + Len(d) PROVE u[i] = (t \o d)[i]
  <2>1. CASE i <= o
    <3>1. i \in 1 .. o /\ i \in 1 .. Len(s) /\ i \notin o + 1 .. o + Len(d)
      BY <1>1, <2>1
    <3>2. QED
      BY <1>3, <1>4, <1>5, <1>6, <2>1, <3>1
  <2>2. CASE ~ (i <= o)
    <3>1. i \in o + 1 .. o + Len(d) /\ i \in 1 .. Len(s)
      BY <1>1, <2>2
    <3>2. QED
      BY <1>3, <1>5, <1>6, <2>2, <3>1
  <2>3. QED
    BY <2>1, <2>2
<1>8. u = t \o d
  BY <1>5, <1>6, <1>7, SeqEqual
<1>9. QED
  BY <1>3, <1>8 DEF w, t, u
-----------------------------------------------------------------------------
(* Buffered files.                                                         *)

Ends == {"a", "stdout"}
Stored == Bytes \union {Junk}

(* What the buffer has before buf_pos.                                      *)
Pending == SubSeq(buf, 1, buf_pos)

(* The inductive invariant.  A call belongs to the mode of its stream, and only  *)
(* what is read has a length in the buffer.                                   *)
CallFits ==
  /\ call = "fread" => File!Readable /\ need > 0
  /\ call = "fwrite" => /\ File!Writable /\ buf_pos <= File!buf_size /\ got = <<>>
                        /\ File!Sound => buf_len = 0
  /\ ~ File!Readable => got = <<>> /\ need = 0 /\ buf_len = 0
  /\ mode \in {"r", "closed"} /\ buf_len = 0 => buf_pos = 0
  /\ mode = "closed" => call = "none"
  /\ mode = "stdout" => buf_pos = 0
  /\ buf_len = SIZE_MAX => buf_pos < SIZE_MAX

(* What fread has given is the piece of the file before where the program is.   *)
Reading ==
  File!Sound /\ buf_len # SIZE_MAX =>
    /\ got = SubSeq(want, from + 1, from + Len(got))
    /\ call = "fread" => at = from + Len(got)
    /\ call # "fread" /\ need > 0 => at = Len(want)

(* What waits in the buffer goes where the kernel writes next, up to where the    *)
(* program is.                                                             *)
Waiting ==
  File!Sound /\ buf_len = 0 =>
    /\ want = File!Overwritten(file, File!Target, Pending)
    /\ mode \notin Ends => off <= Len(file) /\ at = off + buf_pos

(* What was read into the buffer is the piece of the file before the kernel's      *)
(* offset, and the program is at its index in it.                              *)
Refilled ==
  File!Sound /\ buf_len > 0 =>
    /\ want = file /\ buf_pos > 0
    /\ buf_len # SIZE_MAX =>
         /\ off <= Len(file) /\ buf_pos <= buf_len /\ buf_len <= off
         /\ at = (off - buf_len) + buf_pos
         /\ SubSeq(buf, 1, buf_len) = SubSeq(file, (off - buf_len) + 1, off)

FileTypes ==
  /\ file \in Seq(Stored) /\ off \in Nat /\ mode \in Modes \union {"closed"}
  /\ buf \in [1 .. FILE_BUFFER_SIZE -> Stored]
  /\ buf_pos \in Nat /\ buf_len \in 0 .. FILE_BUFFER_SIZE \union {SIZE_MAX}
  /\ call \in {"none", "fread", "fwrite"}
  /\ todo \in Seq(Bytes) /\ got \in Seq(Stored)
  /\ want \in Seq(Stored) /\ at \in Nat /\ from \in Nat /\ need \in Nat
  /\ dropped \in BOOLEAN /\ astray \in BOOLEAN

FileInv == FileTypes /\ CallFits /\ Reading /\ Waiting /\ Refilled

LEMMA FileStep == [UserNext]_userVars => [File!Next]_(File!vars)
BY DEF UserNext, userVars, Carried, fileVars, File!vars, File!stream, File!loop,
       File!kernel, File!expected

LEMMA FileConstants ==
  /\ Bytes \subseteq Stored /\ Junk \in Stored /\ 0 \in Stored
  /\ FILE_BUFFER_SIZE \in Nat \ {0}
  /\ SIZE_MAX \in Nat /\ SIZE_MAX > FILE_BUFFER_SIZE
  /\ Modes \subseteq {"r", "r+", "w", "a", "stdout"}
  /\ Whences \subseteq {"SEEK_SET", "SEEK_CUR", "SEEK_END"}
  /\ OldFile \in Seq(Stored)
  /\ Amounts \subseteq Nat \ {0}
<1>1. Bytes \subseteq Stored /\ OldFile \in Seq(Bytes)
  BY File!StdioAssumption DEF File!StdioAssumption, Stored
<1>2. OldFile \in Seq(Stored)
  BY <1>1, SeqMonotonic
<1>3. QED
  BY <1>1, <1>2, File!StdioAssumption DEF File!StdioAssumption, Stored

LEMMA EmptyBuffer ==
  \A b : SubSeq(b, 1, 0) = <<>> /\ \A n \in Nat : SubSeq(b, n + 1, n) = <<>>
<1>1. ASSUME NEW b, NEW n \in Nat PROVE SubSeq(b, n + 1, n) = <<>>
  <2>1. n + 1 \in Int /\ n \in Int /\ n < n + 1
    OBVIOUS
  <2>2. QED
    BY <2>1, SubSeqEmpty
<1>2. 0 \in Nat /\ 0 + 1 = 1
  OBVIOUS
<1>3. QED
  BY <1>1, <1>2

LEMMA NoLength ==
  \A n \in Nat : (n - 0) + 0 = n /\ n - 0 = n /\ n + 0 = n /\ 0 <= n /\ n <= n
OBVIOUS

(* The sizes of what a stream is made of.                                   *)
LEMMA FileNumbers ==
  ASSUME FileTypes
  PROVE  /\ off \in Nat /\ buf_pos \in Nat /\ buf_len \in Nat /\ Len(file) \in Nat
         /\ buf_len = SIZE_MAX \/ buf_len <= FILE_BUFFER_SIZE
         /\ FILE_BUFFER_SIZE \in Nat /\ FILE_BUFFER_SIZE > 0
         /\ SIZE_MAX \in Nat /\ SIZE_MAX > FILE_BUFFER_SIZE
         /\ buf \in Seq(Stored) /\ Len(buf) = FILE_BUFFER_SIZE
         /\ file \in Seq(Stored) /\ want \in Seq(Stored) /\ Len(want) \in Nat
         /\ at \in Nat /\ from \in Nat /\ need \in Nat
         /\ todo \in Seq(Stored) /\ Len(todo) \in Nat
         /\ got \in Seq(Stored) /\ Len(got) \in Nat
         /\ File!buf_size \in Nat /\ File!buf_size <= FILE_BUFFER_SIZE
         /\ File!Target \in Nat /\ File!Where \in Nat
<1>1. /\ off \in Nat /\ buf_pos \in Nat
      /\ buf_len \in 0 .. FILE_BUFFER_SIZE \union {SIZE_MAX}
      /\ FILE_BUFFER_SIZE \in Nat /\ FILE_BUFFER_SIZE > 0
      /\ SIZE_MAX \in Nat /\ SIZE_MAX > FILE_BUFFER_SIZE
      /\ buf \in [1 .. FILE_BUFFER_SIZE -> Stored]
      /\ file \in Seq(Stored) /\ want \in Seq(Stored) /\ at \in Nat /\ from \in Nat
      /\ need \in Nat /\ todo \in Seq(Bytes) /\ got \in Seq(Stored)
  BY FileConstants DEF FileTypes
<1>2. buf \in Seq(Stored) /\ Len(buf) = FILE_BUFFER_SIZE
  <2>1. buf \in Seq(Stored)
    BY <1>1, SeqDef
  <2>2. DOMAIN buf = 1 .. FILE_BUFFER_SIZE /\ DOMAIN buf = 1 .. Len(buf)
        /\ Len(buf) \in Nat
    BY <1>1, <2>1, LenProperties
  <2>3. QED
    BY <1>1, <2>1, <2>2
<1>3. todo \in Seq(Stored)
  BY <1>1, FileConstants, SeqMonotonic
<1>4. /\ Len(file) \in Nat /\ Len(want) \in Nat /\ Len(todo) \in Nat
      /\ Len(got) \in Nat
  BY <1>1, <1>3, LenProperties
<1>5. /\ File!buf_size \in Nat /\ File!buf_size <= FILE_BUFFER_SIZE
      /\ File!Target \in Nat /\ File!Where \in Nat
  BY <1>1, <1>4 DEF File!buf_size, File!Target, File!Where
<1>6. QED
  BY <1>1, <1>2, <1>3, <1>4, <1>5

(* A program whose bytes have all been written expects what the file holds.      *)
LEMMA Settled ==
  ASSUME FileInv, File!Sound, buf_len > 0 \/ buf_pos = 0
  PROVE  want = file
<1>1. CASE buf_len > 0
  BY <1>1 DEF FileInv, Refilled
<1>2. CASE ~ (buf_len > 0)
  <2>1. buf_len = 0 /\ buf_pos = 0 /\ FileTypes
    BY <1>2, FileNumbers DEF FileInv
  <2>2. want = File!Overwritten(file, File!Target, <<>>)
    BY <2>1, EmptyBuffer DEF FileInv, Waiting, Pending
  <2>3. File!Target \in Nat /\ File!Target <= Len(file)
    BY <2>1, FileNumbers DEF FileInv, Waiting, File!Target, Ends
  <2>4. File!Overwritten(file, File!Target, <<>>) = file
    BY <2>1, <2>3, FileNumbers, FileConstants, OverNothing
  <2>5. QED
    BY <2>2, <2>4
<1>3. QED
  BY <1>1, <1>2

LEMMA FileInvImplies == FileInv => FileRight
<1> SUFFICES ASSUME FileInv PROVE FileRight
  OBVIOUS
<1>1. /\ FileTypes /\ CallFits /\ Reading /\ Waiting /\ Refilled
      /\ off \in Nat /\ buf_pos \in Nat /\ buf_len \in Nat
  BY FileNumbers DEF FileInv
<1>2. File!TypeOK
  BY <1>1 DEF FileTypes, File!TypeOK, Stored
<1>3. File!ReadsRight
  BY <1>1 DEF Reading, File!ReadsRight
<1>4. File!TellsRight
  <2> SUFFICES ASSUME mode \in {"r", "r+", "w"}, File!Sound, buf_len # SIZE_MAX
               PROVE  File!ftell = at
    BY Zenon DEF File!TellsRight
  <2>1. CASE buf_len = 0
    BY <1>1, <2>1 DEF Waiting, Ends, File!ftell
  <2>2. CASE buf_len > 0
    BY <1>1, <2>2 DEF Refilled, File!ftell
  <2>3. QED
    BY <1>1, <2>1, <2>2
<1>5. File!WritesKept
  <2> SUFFICES ASSUME File!Sound
               PROVE  want = IF mode \in {"closed", "r"} \/ buf_len > 0 THEN file
                             ELSE File!Overwritten(file, File!Target, Pending)
    BY DEF File!WritesKept, Pending
  <2>1. CASE mode \in {"closed", "r"} \/ buf_len > 0
    <3>1. buf_len > 0 \/ buf_pos = 0
      BY <1>1, <2>1 DEF CallFits
    <3>2. QED
      BY <2>1, <3>1, Settled
  <2>2. CASE ~ (mode \in {"closed", "r"} \/ buf_len > 0)
    BY <1>1, <2>2 DEF Waiting
  <2>3. QED
    BY <2>1, <2>2
<1>6. QED
  BY <1>2, <1>3, <1>4, <1>5 DEF FileRight

LEMMA FileInvInit == UserInit => FileInv
<1> SUFFICES ASSUME UserInit PROVE FileInv
  OBVIOUS
<1>1. File!Init
  BY DEF UserInit
<1> USE <1>1 DEF File!Init
<1>2. FileTypes
  <2>1. <<>> \in Seq(Stored) /\ <<>> \in Seq(Bytes)
    BY EmptySeq
  <2>2. buf \in [1 .. FILE_BUFFER_SIZE -> Stored]
    BY FileConstants
  <2>3. buf_len \in 0 .. FILE_BUFFER_SIZE \union {SIZE_MAX} /\ OldFile \in Seq(Stored)
    BY FileConstants
  <2>4. QED
    BY <2>1, <2>2, <2>3 DEF FileTypes
<1>3. CallFits
  BY FileConstants DEF CallFits
<1>4. Reading
  BY EmptyBuffer, EmptySeq DEF Reading
<1>5. Waiting
  <2>1. Pending = <<>> /\ File!Target = 0 /\ Len(file) \in Nat
    BY <1>2, EmptyBuffer, FileNumbers DEF Pending, File!Target
  <2>2. File!Overwritten(file, 0, <<>>) = file
    BY <2>1, FileConstants, OverNothing
  <2>3. QED
    BY <2>1, <2>2 DEF Waiting
<1>6. Refilled
  BY DEF Refilled
<1>7. QED
  BY <1>2, <1>3, <1>4, <1>5, <1>6 DEF FileInv

(* A buffer after a copy into it is a buffer.                                *)
LEMMA BufferType ==
  ASSUME FileTypes, NEW o \in Nat, NEW d \in Seq(Stored),
         o + Len(d) <= FILE_BUFFER_SIZE
  PROVE  /\ File!Overwritten(buf, o, d) \in [1 .. FILE_BUFFER_SIZE -> Stored]
         /\ SubSeq(File!Overwritten(buf, o, d), 1, o + Len(d)) = SubSeq(buf, 1, o) \o d
<1> DEFINE w == File!Overwritten(buf, o, d)
<1>1. /\ 0 \in Stored /\ buf \in Seq(Stored) /\ Len(buf) = FILE_BUFFER_SIZE
      /\ FILE_BUFFER_SIZE \in Nat
  BY FileConstants, FileNumbers
<1>2. /\ w \in Seq(Stored) /\ Len(w) = Len(buf)
      /\ SubSeq(w, 1, o + Len(d)) = SubSeq(buf, 1, o) \o d
  BY <1>1, BufferOver
<1>3. w \in [1 .. FILE_BUFFER_SIZE -> Stored]
  <2> HIDE DEF w
  <2> QED BY <1>1, <1>2, LenProperties
<1>4. QED
  BY <1>2, <1>3

LEMMA FopenKeeps ==
  ASSUME FileInv, NEW m \in Modes, File!fopen(m) PROVE FileInv'
<1> USE DEF File!fopen
<1>1. FileTypes /\ call = "none"
  BY DEF FileInv, CallFits
<1>2. file' \in Seq(Stored) /\ Len(file) \in Nat /\ Len(file') \in Nat
  <2>1. file' \in Seq(Stored)
    BY <1>1, FileNumbers, EmptySeq
  <2>2. QED
    BY <1>1, <2>1, FileNumbers, LenProperties
<1>3. FileTypes'
  <2>1. <<>> \in Seq(Stored) /\ at' \in Nat
    BY <1>2, EmptySeq
  <2>2. buf' \in [1 .. FILE_BUFFER_SIZE -> Stored]
    BY FileConstants
  <2>3. buf_len' \in 0 .. FILE_BUFFER_SIZE \union {SIZE_MAX}
    BY FileConstants
  <2>4. QED
    BY <1>1, <1>2, <2>1, <2>2, <2>3 DEF FileTypes
<1>4. CallFits'
  BY <1>1, FileConstants DEF CallFits
<1>5. Reading'
  <2>1. got' = <<>> /\ need' = 0 /\ call' = "none" /\ from' = 0 /\ Len(<<>>) = 0
    BY <1>1
  <2>2. SubSeq(want', 0 + 1, 0 + 0) = <<>>
    BY EmptyBuffer
  <2>3. QED
    BY <2>1, <2>2 DEF Reading
<1>6. Waiting'
  <2>1. Pending' = <<>>
    BY EmptyBuffer DEF Pending
  <2>2. File!Target' \in Nat /\ File!Target' <= Len(file')
    BY <1>2 DEF File!Target
  <2>3. File!Overwritten(file', File!Target', <<>>) = file'
    BY <1>2, <2>2, FileConstants, OverNothing
  <2>4. mode' \notin Ends => at' = 0 /\ off' = 0 /\ buf_pos' = 0 /\ 0 <= Len(file')
    BY <1>2 DEF Ends
  <2>5. QED
    BY <2>1, <2>3, <2>4 DEF Waiting
<1>7. Refilled'
  BY DEF Refilled
<1>8. QED
  BY <1>3, <1>4, <1>5, <1>6, <1>7 DEF FileInv

LEMMA FreadKeeps ==
  ASSUME FileInv, NEW n \in Amounts, File!fread(n) PROVE FileInv'
<1> USE DEF File!fread, File!stream, File!kernel
<1>1. File!Readable /\ FileTypes /\ n \in Nat /\ n > 0 /\ call = "none"
  BY FileConstants DEF FileInv
<1>2. <<>> \in Seq(Stored) /\ Len(<<>>) = 0 /\ at \in Nat /\ at + 0 = at
  BY <1>1, FileNumbers, EmptySeq
<1>3. FileTypes'
  BY <1>1, <1>2 DEF FileTypes
<1>4. CallFits'
  BY <1>1 DEF FileInv, CallFits, File!Readable
<1>5. Reading'
  <2>1. SubSeq(want, at + 1, at) = <<>>
    BY <1>2, EmptyBuffer
  <2>2. got' = <<>> /\ from' = at /\ at' = at /\ want' = want /\ call' = "fread"
    OBVIOUS
  <2>3. QED
    BY <1>2, <2>1, <2>2 DEF Reading
<1>6. Waiting' /\ Refilled'
  BY DEF FileInv, Waiting, Refilled, Pending, File!Target, File!Sound
<1>7. QED
  BY <1>3, <1>4, <1>5, <1>6 DEF FileInv

LEMMA FwriteKeeps ==
  ASSUME FileInv, NEW data \in File!Data, File!fwrite(data) PROVE FileInv'
<1> USE DEF File!fwrite, File!stream, File!kernel
<1>1. File!Writable /\ FileTypes /\ call = "none" /\ buf_len \in Nat
  BY FileNumbers DEF FileInv
<1>2. data \in Seq(Bytes)
  <2>1. PICK n \in Amounts : data \in [1 .. n -> Bytes]
    BY DEF File!Data
  <2>2. n \in Nat
    BY FileConstants
  <2>3. QED
    BY <2>1, <2>2, SeqDef
<1>3. <<>> \in Seq(Stored)
  BY EmptySeq
<1>4. FileTypes'
  <2>1. astray' \in BOOLEAN
    BY DEF FileTypes
  <2>2. QED
    BY <1>1, <1>2, <1>3, <2>1 DEF FileTypes
<1>5. File!Sound' => File!Sound /\ buf_len = 0
  <2>1. astray' = (astray \/ buf_len > 0) /\ File!Sound
    OBVIOUS
  <2>2. File!Sound' => ~ (buf_len > 0)
    BY <2>1, Zenon DEF File!Sound
  <2>3. QED
    BY <1>1, <2>1, <2>2
<1>6. CallFits'
  BY <1>1, <1>3, <1>5 DEF FileInv, CallFits, File!Readable, File!Writable, File!buf_size
<1>7. Reading'
  <2>1. SubSeq(want, from + 1, from + 0) = <<>>
    BY <1>1, FileNumbers, EmptyBuffer, NoLength
  <2>2. got' = <<>> /\ from' = from /\ want' = want /\ call' = "fwrite" /\ Len(<<>>) = 0
        /\ at' = at /\ need' = need /\ buf_len' = buf_len
    OBVIOUS
  <2>3. QED
    BY <1>1, <1>5, <2>1, <2>2 DEF FileInv, Reading
<1>8. Waiting' /\ Refilled'
  BY <1>5 DEF FileInv, Waiting, Refilled, Pending, File!Target
<1>9. QED
  BY <1>4, <1>6, <1>7, <1>8 DEF FileInv

(* What a stream that is read finds where it starts to copy: the piece of the    *)
(* file from base on.                                                       *)
LEMMA Sought ==
  ASSUME FileInv, File!Readable, File!Sound, buf_len # SIZE_MAX,
         buf_pos >= buf_len => ~ File!Holds(FALSE)
  PROVE  /\ want = file /\ off <= Len(file)
         /\ buf_pos >= buf_len => at = off
         /\ ~ (buf_pos >= buf_len) =>
              /\ buf_len <= off /\ at = (off - buf_len) + buf_pos
              /\ SubSeq(buf, 1, buf_len) = SubSeq(file, (off - buf_len) + 1, off)
<1>1. /\ FileTypes /\ off \in Nat /\ buf_pos \in Nat /\ buf_len \in Nat /\ at \in Nat
      /\ mode \notin Ends
  BY FileNumbers DEF FileInv, File!Readable, Ends
<1>2. CASE buf_len = 0
  <2>1. ~ File!Holds(FALSE)
    <3>1. buf_pos >= buf_len
      BY <1>1, <1>2
    <3>2. QED
      BY <3>1, Zenon
  <2>2. ~ (buf_pos > 0)
    <3>1. (buf_len > 0) = FALSE
      BY <1>2
    <3>2. QED
      BY <2>1, <3>1, Zenon DEF File!Holds
  <2>3. buf_pos = 0
    BY <1>1, <2>2
  <2>4. want = file
    BY <2>3, Settled
  <2>5. QED
    BY <1>1, <1>2, <2>3, <2>4 DEF FileInv, Waiting
<1>3. CASE buf_len # 0
  <2>1. buf_len > 0
    BY <1>1, <1>3
  <2>2. QED
    BY <1>1, <2>1 DEF FileInv, Refilled
<1>4. QED
  BY <1>2, <1>3

LEMMA FreadRoundKeeps ==
  ASSUME FileInv, File!FreadRound PROVE FileInv'
<1> DEFINE refill == buf_pos >= buf_len
           stop == File!Least(off + File!buf_size, Len(file))
           chunk == IF refill THEN SubSeq(file, off + 1, stop)
                    ELSE SubSeq(buf, 1, buf_len)
           start == IF refill THEN 0 ELSE buf_pos
           end == File!Least(start + need, Len(chunk))
           copied == SubSeq(chunk, start + 1, end)
           base == IF refill THEN off ELSE off - buf_len
           next == IF refill THEN off + Len(chunk) ELSE off
           k == end - start
<1>1. /\ call = "fread" /\ need > 0 /\ FileTypes /\ File!Readable
      /\ mode \in {"r", "r+"} /\ mode \notin Ends
  BY DEF FileInv, CallFits, File!FreadRound, File!Readable, Ends
<1>2. /\ buf' = File!Overwritten(buf, 0, chunk)
      /\ buf_len' = Len(chunk) /\ buf_pos' = start + Len(copied)
      /\ off' = next /\ got' = got \o copied
      /\ at' = at + Len(copied) /\ need' = need - Len(copied)
      /\ call' = (IF chunk = <<>> \/ need' = 0 THEN "none" ELSE call)
      /\ astray' = (astray \/ (refill /\ File!Holds(FALSE)))
      /\ UNCHANGED <<mode, error, todo, file, fails, want, from, dropped>>
  BY DEF File!FreadRound, File!Start
<1>3. /\ off \in Nat /\ buf_pos \in Nat /\ buf_len \in Nat /\ Len(file) \in Nat
      /\ FILE_BUFFER_SIZE \in Nat /\ FILE_BUFFER_SIZE > 0
      /\ File!buf_size = FILE_BUFFER_SIZE
      /\ file \in Seq(Stored) /\ buf \in Seq(Stored) /\ Len(buf) = FILE_BUFFER_SIZE
      /\ want \in Seq(Stored) /\ at \in Nat /\ from \in Nat /\ need \in Nat
      /\ got \in Seq(Stored) /\ Len(got) \in Nat
      /\ SIZE_MAX > FILE_BUFFER_SIZE /\ SIZE_MAX \in Nat
  BY <1>1, FileNumbers DEF File!buf_size
<1>4. buf_len # SIZE_MAX /\ buf_len <= FILE_BUFFER_SIZE
  <2>1. buf_pos >= buf_len \/ buf_len # SIZE_MAX
    BY DEF File!FreadRound
  <2>2. buf_len = SIZE_MAX => buf_pos < SIZE_MAX
    BY DEF FileInv, CallFits
  <2>3. buf_len # SIZE_MAX
    BY <1>3, <2>1, <2>2
  <2>4. QED
    BY <1>1, <2>3, FileNumbers
<1>5. /\ Len(chunk) \in Nat /\ chunk \in Seq(Stored) /\ Len(chunk) <= FILE_BUFFER_SIZE
      /\ Len(chunk) = 0 => refill /\ off >= Len(file)
      /\ start \in Nat /\ start <= Len(chunk)
      /\ Len(chunk) > 0 => start < Len(chunk)
      /\ ~ refill => Len(chunk) = buf_len
      /\ refill /\ off <= Len(file) =>
           off + Len(chunk) = stop /\ stop <= Len(file) /\ stop \in Nat
  <2>1. CASE refill /\ off <= Len(file)
    <3>1. /\ stop \in Nat /\ off <= stop /\ stop <= Len(file)
          /\ stop - off <= FILE_BUFFER_SIZE
          /\ stop = off => off = Len(file)
      BY <1>3, <2>1 DEF File!Least
    <3>2. chunk = SubSeq(file, off + 1, stop) /\ start = 0
      BY <2>1
    <3> HIDE DEF stop
    <3>3. chunk \in Seq(Stored) /\ Len(chunk) = stop - off
      <4>1. /\ SubSeq(file, off + 1, stop) \in Seq(Stored)
            /\ Len(SubSeq(file, off + 1, stop)) = stop - off
        BY <1>3, <3>1, Piece
      <4>2. QED
        BY <3>2, <4>1
    <3> HIDE DEF chunk
    <3>4. QED
      BY <1>3, <2>1, <3>1, <3>2, <3>3
  <2>2. CASE refill /\ ~ (off <= Len(file))
    <3>1. chunk = SubSeq(file, off + 1, Len(file)) /\ start = 0
      BY <1>3, <2>2 DEF File!Least
    <3>2. SubSeq(file, off + 1, Len(file)) = <<>>
      <4>1. off + 1 \in Int /\ Len(file) \in Int /\ Len(file) < off + 1
        BY <1>3, <2>2
      <4>2. QED
        BY <4>1, SubSeqEmpty
    <3>3. chunk = <<>> /\ <<>> \in Seq(Stored) /\ Len(<<>>) = 0
      BY <3>1, <3>2, EmptySeq
    <3> HIDE DEF chunk
    <3>4. QED
      BY <1>3, <2>2, <3>1, <3>3
  <2>3. CASE ~ refill
    <3>1. chunk = SubSeq(buf, 1, buf_len) /\ start = buf_pos
      BY <2>3
    <3>2. SubSeq(buf, 1, buf_len) \in Seq(Stored) /\ Len(SubSeq(buf, 1, buf_len)) = buf_len
      BY <1>3, <1>4, FirstPiece
    <3> HIDE DEF chunk
    <3>3. QED
      BY <1>3, <1>4, <2>3, <3>1, <3>2
  <2>4. QED
    BY <2>1, <2>2, <2>3
<1>6. /\ end \in Nat /\ start <= end /\ end <= Len(chunk) /\ k \in Nat /\ k <= need
      /\ Len(chunk) > 0 => k > 0
  <2> HIDE DEF chunk, start
  <2> QED BY <1>1, <1>3, <1>5 DEF File!Least
<1>7. copied \in Seq(Stored) /\ Len(copied) = k
  <2> HIDE DEF chunk, start, end
  <2> QED BY <1>5, <1>6, Piece
<1>8. /\ buf' \in [1 .. FILE_BUFFER_SIZE -> Stored]
      /\ SubSeq(buf', 1, Len(chunk)) = chunk
  <2> HIDE DEF chunk
  <2>1. 0 + Len(chunk) = Len(chunk)
    BY <1>5
  <2>2. /\ buf' \in [1 .. FILE_BUFFER_SIZE -> Stored]
        /\ SubSeq(buf', 1, 0 + Len(chunk)) = SubSeq(buf, 1, 0) \o chunk
    BY <1>1, <1>2, <1>5, <2>1, BufferType
  <2>3. SubSeq(buf, 1, 0) \o chunk = chunk
    BY <1>5, EmptyBuffer, ConcatEmptySeq
  <2>4. QED
    BY <2>1, <2>2, <2>3
<1> HIDE DEF chunk, stop, start, end, copied, k
<1>9. got' \in Seq(Stored) /\ Len(got') = Len(got) + k
  <2>1. got \in Seq(Stored) /\ copied \in Seq(Stored) /\ got' = got \o copied
    BY <1>2, <1>3, <1>7
  <2>2. got \o copied \in Seq(Stored) /\ Len(got \o copied) = Len(got) + Len(copied)
    BY <2>1, ConcatProperties
  <2>3. QED
    BY <1>7, <2>1, <2>2
<1>10. FileTypes'
  <2>1. /\ off' \in Nat /\ buf_len' \in 0 .. FILE_BUFFER_SIZE /\ buf_pos' \in Nat
        /\ at' \in Nat /\ need' \in Nat
    BY <1>2, <1>3, <1>5, <1>6, <1>7 DEF k
  <2>2. call' \in {"none", "fread"} /\ astray' \in BOOLEAN
    BY <1>1, <1>2 DEF FileTypes
  <2>3. QED
    BY <1>1, <1>2, <1>8, <1>9, <2>1, <2>2 DEF FileTypes
<1>11. CallFits'
  <2>1. call' = "fread" => need' > 0
    BY <1>1, <1>2, <1>3, <1>6, <1>7
  <2>2. buf_len' = 0 => buf_pos' = 0
    BY <1>2, <1>5, <1>6, <1>7 DEF k
  <2>3. buf_len' # SIZE_MAX
    BY <1>2, <1>3, <1>5
  <2>4. call' \in {"none", "fread"} /\ mode' \in {"r", "r+"} /\ File!Readable'
    BY <1>1, <1>2 DEF File!Readable
  <2>5. QED
    BY <2>1, <2>2, <2>3, <2>4 DEF CallFits
<1>12. ASSUME File!Sound'
       PROVE  /\ File!Sound /\ want = file /\ off <= Len(file)
              /\ base \in Nat /\ base + Len(chunk) <= Len(file)
              /\ next = base + Len(chunk) /\ at = base + start
              /\ chunk = SubSeq(file, base + 1, base + Len(chunk))
  <2>1. File!Sound /\ (refill => ~ File!Holds(FALSE))
    <3>1. astray' = (astray \/ (refill /\ File!Holds(FALSE))) /\ dropped' = dropped
      BY <1>2
    <3>2. QED
      BY <1>12, <3>1, Zenon DEF File!Sound
  <2>2. /\ want = file /\ off <= Len(file)
        /\ refill => at = off
        /\ ~ refill =>
             /\ buf_len <= off /\ at = (off - buf_len) + buf_pos
             /\ SubSeq(buf, 1, buf_len) = SubSeq(file, (off - buf_len) + 1, off)
    BY <1>1, <1>4, <2>1, Sought
  <2>3. CASE refill
    <3>1. chunk = SubSeq(file, off + 1, stop) /\ start = 0
      BY <2>3 DEF chunk, start
    <3>2. off + Len(chunk) = stop /\ stop <= Len(file)
      BY <1>5, <2>2, <2>3
    <3>3. base = off /\ next = off + Len(chunk)
      BY <2>3
    <3>4. chunk = SubSeq(file, base + 1, base + Len(chunk))
      BY <3>1, <3>2, <3>3
    <3> HIDE DEF base, next, refill
    <3>5. at = base + start
      BY <1>3, <2>2, <2>3, <3>1, <3>3
    <3>6. QED
      BY <1>3, <2>1, <2>2, <3>2, <3>3, <3>4, <3>5
  <2>4. CASE ~ refill
    <3>1. chunk = SubSeq(file, (off - buf_len) + 1, off)
      BY <2>2, <2>4 DEF chunk
    <3>2. Len(chunk) = buf_len /\ (off - buf_len) + buf_len = off
      BY <1>3, <1>5, <2>4
    <3>3. QED
      BY <1>3, <2>1, <2>2, <2>4, <3>1, <3>2 DEF start
  <2>5. QED
    BY <2>3, <2>4
<1> HIDE DEF refill, base, next
<1>13. ASSUME File!Sound'
       PROVE  /\ copied = SubSeq(file, at + 1, at + k)
              /\ at + k = base + end /\ at + k <= Len(file)
  <2>1. at + k = base + end /\ at + k <= Len(file)
    BY <1>3, <1>5, <1>6, <1>12, <1>13 DEF k
  <2>2. copied = SubSeq(file, base + start + 1, base + end)
    <3>1. SubSeq(SubSeq(file, base + 1, base + Len(chunk)), start + 1, end)
            = SubSeq(file, base + start + 1, base + end)
      <4>1. /\ file \in Seq(Stored) /\ base \in Nat /\ Len(chunk) \in Nat
            /\ base + Len(chunk) <= Len(file) /\ start \in Nat /\ end \in Nat
            /\ start <= end /\ end <= Len(chunk)
        BY <1>3, <1>5, <1>6, <1>12, <1>13
      <4>2. QED
        BY ONLY <4>1, PieceOfPiece
    <3>2. chunk = SubSeq(file, base + 1, base + Len(chunk))
      BY <1>12, <1>13
    <3>3. QED
      BY <3>1, <3>2 DEF copied
  <2>3. QED
    BY <1>12, <1>13, <2>1, <2>2
<1>14. Reading'
  <2> SUFFICES ASSUME File!Sound'
               PROVE  /\ got' = SubSeq(want', from' + 1, from' + Len(got'))
                      /\ call' = "fread" => at' = from' + Len(got')
                      /\ call' # "fread" /\ need' > 0 => at' = Len(want')
    BY DEF Reading
  <2>1. /\ want = file /\ File!Sound /\ got = SubSeq(file, from + 1, at)
        /\ at = from + Len(got) /\ copied = SubSeq(file, at + 1, at + k)
        /\ at + k <= Len(file)
    BY <1>1, <1>4, <1>12, <1>13 DEF FileInv, Reading
  <2>2. from <= at /\ at <= at + k /\ at + k \in Nat
    BY <1>3, <1>6, <2>1
  <2>3. got' = SubSeq(file, from + 1, at + k)
    <3>1. SubSeq(file, from + 1, at) \o SubSeq(file, at + 1, at + k)
            = SubSeq(file, from + 1, at + k)
      <4>1. file \in Seq(Stored) /\ from \in Nat /\ at \in Nat /\ at + k <= Len(file)
        BY <1>3, <2>1
      <4>2. QED
        BY ONLY <2>2, <4>1, PiecesJoin
    <3>2. got' = got \o copied
      BY <1>2
    <3>3. QED
      BY <2>1, <3>1, <3>2
  <2>4. from + Len(got') = at + k /\ at' = at + k
    BY <1>2, <1>3, <1>6, <1>7, <1>9, <2>1
  <2>5. ASSUME call' # "fread", need' > 0 PROVE at' = Len(file)
    <3>1. chunk = <<>>
      BY <1>1, <1>2, <2>5
    <3>2. Len(chunk) = 0
      BY <3>1, EmptySeq
    <3>3. off = Len(file) /\ base = off /\ start = 0 /\ end = 0
      BY <1>3, <1>5, <1>6, <1>12, <3>2 DEF base, start, refill
    <3>4. QED
      BY <1>3, <1>13, <2>4, <3>3
  <2>6. QED
    BY <1>2, <2>1, <2>3, <2>4, <2>5
<1>15. ASSUME File!Sound'
       PROVE  /\ off' = base + Len(chunk) /\ buf_len' = Len(chunk)
              /\ buf_pos' = end /\ at' = base + end /\ file' = file /\ want' = file
  BY <1>2, <1>5, <1>6, <1>7, <1>12, <1>13, <1>15 DEF k
<1>16. Waiting'
  <2> SUFFICES ASSUME File!Sound', buf_len' = 0
               PROVE  /\ want' = File!Overwritten(file', File!Target', Pending')
                      /\ off' <= Len(file') /\ at' = off' + buf_pos'
    BY DEF Waiting
  <2>1. buf_pos' = 0 /\ end = 0 /\ Len(chunk) = 0
    BY <1>5, <1>6, <1>15
  <2>2. Pending' = <<>>
    BY <2>1, EmptyBuffer DEF Pending
  <2>3. off' <= Len(file') /\ at' = off' + buf_pos' /\ off' \in Nat
    BY <1>12, <1>15, <2>1
  <2>4. File!Target' = off'
    BY <1>1, <1>2 DEF File!Target, Ends
  <2>5. File!Overwritten(file, off', <<>>) = file
    BY <1>3, <1>15, <2>3, FileConstants, OverNothing
  <2>6. QED
    BY <1>15, <2>2, <2>3, <2>4, <2>5
<1>17. Refilled'
  <2> SUFFICES ASSUME File!Sound', buf_len' > 0
               PROVE  /\ want' = file' /\ buf_pos' > 0
                      /\ off' <= Len(file') /\ buf_pos' <= buf_len' /\ buf_len' <= off'
                      /\ at' = (off' - buf_len') + buf_pos'
                      /\ SubSeq(buf', 1, buf_len')
                           = SubSeq(file', (off' - buf_len') + 1, off')
    BY DEF Refilled
  <2>1. buf_pos' > 0
    BY <1>5, <1>6, <1>15 DEF k
  <2>2. off' - buf_len' = base /\ buf_len' <= off' /\ off' <= Len(file')
    BY <1>5, <1>12, <1>15
  <2>3. SubSeq(buf', 1, buf_len') = SubSeq(file', (off' - buf_len') + 1, off')
    BY <1>8, <1>12, <1>15, <2>2
  <2>4. QED
    BY <1>5, <1>6, <1>12, <1>15, <2>1, <2>2, <2>3
<1>18. QED
  BY <1>10, <1>11, <1>14, <1>16, <1>17 DEF FileInv

LEMMA FreadGarbledKeeps ==
  ASSUME FileInv, File!FreadGarbled PROVE FileInv'
<1> DEFINE refill == buf_pos >= buf_len
           start == IF refill THEN 0 ELSE buf_pos
           behind == [i \in 1 .. start + need |->
                        IF i <= File!buf_size THEN buf[i] ELSE Junk]
           taken == SubSeq(behind, start + 1, start + need)
<1>1. /\ call = "fread" /\ need > 0 /\ FileTypes /\ File!Readable
  BY DEF FileInv, CallFits, File!FreadGarbled
<1>2. /\ refill \/ buf_len = SIZE_MAX
      /\ start + need < SIZE_MAX /\ got' = got \o taken
      /\ buf_len' = SIZE_MAX /\ buf_pos' = start + need
      /\ at' = at + need /\ need' = 0 /\ call' = "none"
      /\ astray' = (astray \/ (refill /\ File!Holds(FALSE)))
      /\ UNCHANGED <<mode, buf, error, todo, file, off, want, from, dropped>>
  BY DEF File!FreadGarbled, File!Start
<1>3. /\ buf_pos \in Nat /\ buf_len \in Nat /\ need \in Nat /\ at \in Nat
      /\ SIZE_MAX \in Nat /\ SIZE_MAX > FILE_BUFFER_SIZE /\ FILE_BUFFER_SIZE \in Nat
      /\ got \in Seq(Stored) /\ start \in Nat /\ start + need \in Nat
      /\ File!buf_size \in Nat /\ File!buf_size <= FILE_BUFFER_SIZE
      /\ FILE_BUFFER_SIZE > 0
  BY <1>1, FileNumbers
<1>4. taken \in Seq(Stored)
  <2> HIDE DEF start
  <2>1. ASSUME NEW i \in 1 .. start + need
        PROVE  (IF i <= File!buf_size THEN buf[i] ELSE Junk) \in Stored
    <3>1. i <= File!buf_size => i \in 1 .. FILE_BUFFER_SIZE
      BY <1>3
    <3>2. QED
      BY <1>1, <3>1, FileConstants DEF FileTypes
  <2>2. behind \in [1 .. start + need -> Stored]
    BY <2>1
  <2>3. behind \in Seq(Stored) /\ DOMAIN behind = 1 .. start + need
    BY <1>3, <2>2, SeqDef
  <2> HIDE DEF behind
  <2>4. Len(behind) = start + need
    BY <1>3, <2>3, LenProperties
  <2>5. start <= start + need /\ start + need <= Len(behind)
    BY <1>3, <2>4
  <2>6. QED
    BY <1>3, <2>3, <2>5, Piece
<1> HIDE DEF taken, behind, start
<1>5. got' \in Seq(Stored)
  BY <1>2, <1>3, <1>4, ConcatProperties
<1>6. FileTypes'
  <2>1. buf_len' \in 0 .. FILE_BUFFER_SIZE \union {SIZE_MAX} /\ buf_pos' \in Nat
        /\ at' \in Nat /\ need' \in Nat /\ astray' \in BOOLEAN
    BY <1>1, <1>2, <1>3 DEF FileTypes
  <2>2. QED
    BY <1>1, <1>2, <1>5, <2>1 DEF FileTypes
<1>7. CallFits'
  <2>1. buf_len' # 0 /\ buf_pos' < SIZE_MAX
    BY <1>2, <1>3
  <2>2. File!Readable' /\ mode' \in {"r", "r+"}
    BY <1>1, <1>2 DEF File!Readable
  <2>3. QED
    BY <1>2, <2>1, <2>2 DEF CallFits
<1>8. Reading' /\ Waiting'
  BY <1>2, <1>3 DEF Reading, Waiting
<1>9. Refilled'
  <2> SUFFICES ASSUME File!Sound' PROVE want' = file' /\ buf_pos' > 0
    BY <1>2 DEF Refilled
  <2>1. File!Sound /\ (refill => ~ File!Holds(FALSE))
    <3>1. astray' = (astray \/ (refill /\ File!Holds(FALSE))) /\ dropped' = dropped
      BY <1>2
    <3>2. QED
      BY <3>1, Zenon DEF File!Sound
  <2>2. buf_len > 0 \/ buf_pos = 0
    <3> SUFFICES ASSUME ~ (buf_len > 0) PROVE buf_pos = 0
      OBVIOUS
    <3>1. refill /\ (buf_len > 0) = FALSE
      BY <1>3
    <3>2. ~ (buf_pos > 0)
      BY <2>1, <3>1, Zenon DEF File!Holds
    <3>3. QED
      BY <1>3, <3>2
  <2>3. want = file
    BY <2>1, <2>2, Settled
  <2>4. QED
    BY <1>1, <1>2, <1>3, <2>3
<1>10. QED
  BY <1>6, <1>7, <1>8, <1>9 DEF FileInv

(* Where the program and the kernel write next.                             *)
LEMMA TargetIs ==
  ASSUME FileTypes, Waiting, File!Sound, buf_len = 0, buf_pos <= FILE_BUFFER_SIZE
  PROVE  /\ want = File!Overwritten(file, File!Target, Pending)
         /\ Len(Pending) = buf_pos /\ Pending \in Seq(Stored)
         /\ File!Target <= Len(file) /\ File!Where = File!Target + buf_pos
<1>1. /\ off \in Nat /\ buf_pos \in Nat /\ Len(file) \in Nat /\ at \in Nat
      /\ Len(want) \in Nat /\ buf_pos <= Len(buf) /\ file \in Seq(Stored)
      /\ buf \in Seq(Stored) /\ File!Target \in Nat
  BY FileNumbers
<1>2. Pending \in Seq(Stored) /\ Len(Pending) = buf_pos
  BY <1>1, FirstPiece DEF Pending
<1>3. want = File!Overwritten(file, File!Target, Pending)
  BY DEF Waiting
<1>4. CASE mode \in Ends
  <2>1. File!Target = Len(file) /\ File!Where = Len(want)
    BY <1>4 DEF File!Target, File!Where, Ends
  <2>2. Len(want) = Larger(Len(file) + buf_pos, Len(file))
    <3>1. Over(want, Stored, file, Len(file), Pending)
      BY <1>1, <1>2, <1>3, <2>1, FileConstants, OverIs
    <3>2. QED
      BY <1>2, <3>1 DEF Over
  <2>3. QED
    BY <1>1, <1>2, <1>3, <2>1, <2>2 DEF Larger
<1>5. CASE mode \notin Ends
  <2>1. File!Target = off /\ File!Where = at
    BY <1>5 DEF File!Target, File!Where, Ends
  <2>2. off <= Len(file) /\ at = off + buf_pos
    BY <1>5 DEF Waiting
  <2>3. QED
    BY <1>2, <1>3, <2>1, <2>2
<1>6. QED
  BY <1>4, <1>5

(* What the kernel takes of what it is given goes into the file.               *)
LEMMA WriteIs ==
  ASSUME FileTypes, NEW data \in Seq(Stored), NEW taken \in -1 .. Len(data),
         File!soiav_write(data, taken)
  PROVE  /\ file' \in Seq(Stored) /\ File!OffAfter(taken) \in Nat
         /\ taken < 0 => file' = file /\ File!OffAfter(taken) = off
         /\ taken = Len(data) /\ File!Target <= Len(file) =>
              file' = File!Overwritten(file, File!Target, data)
<1>1. /\ off \in Nat /\ File!Target \in Nat /\ file \in Seq(Stored) /\ Len(data) \in Nat
  BY FileNumbers, LenProperties
<1>2. /\ file' = IF taken > 0
                   THEN File!Overwritten(file, File!Target, SubSeq(data, 1, taken))
                   ELSE file
  BY DEF File!soiav_write
<1>3. File!OffAfter(taken) \in Nat /\ (taken < 0 => File!OffAfter(taken) = off)
  BY <1>1 DEF File!OffAfter
<1>4. CASE taken > 0
  <2>1. taken \in Nat /\ taken <= Len(data)
    BY <1>1, <1>4
  <2>2. SubSeq(data, 1, taken) \in Seq(Stored)
    BY <2>1, FirstPiece
  <2>3. file' \in Seq(Stored)
    <3>1. Over(file', Stored, file, File!Target, SubSeq(data, 1, taken))
      BY <1>1, <1>2, <1>4, <2>2, FileConstants, OverIs
    <3>2. QED
      BY <3>1 DEF Over
  <2>4. taken = Len(data) => file' = File!Overwritten(file, File!Target, data)
    BY <1>2, <1>4, SubSeqFull
  <2>5. QED
    BY <1>3, <1>4, <2>3, <2>4
<1>5. CASE ~ (taken > 0)
  <2>1. file' = file
    BY <1>2, <1>5
  <2>2. ASSUME taken = Len(data), File!Target <= Len(file)
        PROVE  file' = File!Overwritten(file, File!Target, data)
    <3>1. data = <<>>
      BY <1>1, <1>5, <2>2, EmptySeq
    <3>2. File!Overwritten(file, File!Target, <<>>) = file
      BY <1>1, <2>2, FileConstants, OverNothing
    <3>3. QED
      BY <2>1, <3>1, <3>2
  <2>3. QED
    BY <1>1, <1>3, <2>1, <2>2
<1>6. QED
  BY <1>4, <1>5

LEMMA FwriteRoundKeeps ==
  ASSUME FileInv, File!FwriteRound PROVE FileInv'
<1> DEFINE n == File!Least(File!Room, Len(todo))
           copied == SubSeq(todo, 1, n)
           full == File!Full(buf_pos + n)
           data == SubSeq(buf', 1, buf_pos + n)
           target == File!Target
<1>1. /\ FileTypes /\ Waiting /\ File!Writable /\ call = "fwrite"
      /\ mode \in {"r+", "w", "a", "stdout"} /\ buf_pos <= File!buf_size /\ got = <<>>
      /\ File!Sound => buf_len = 0
      /\ ~ File!Readable => need = 0 /\ buf_len = 0
  BY DEF FileInv, CallFits, File!FwriteRound, File!Writable
<1>2. /\ want' = File!Overwritten(want, File!Where, copied)
      /\ at' = File!Where + n
      /\ todo' = SubSeq(todo, n + 1, Len(todo))
      /\ buf' = File!Overwritten(buf, buf_pos, copied)
      /\ UNCHANGED <<mode, buf_len, need, got, from, astray>>
  BY DEF File!FwriteRound
<1>3. PICK taken \in -1 .. buf_pos + n :
        IF full
          THEN /\ File!soiav_write(data, taken)
               /\ off' = File!OffAfter(taken)
               /\ buf_pos' = File!Kept(taken, buf_pos + n)
               /\ dropped' = (dropped \/ (taken >= 0 /\ taken < buf_pos + n))
               /\ call' = IF taken < 0 \/ todo' = <<>> THEN "none" ELSE call
          ELSE /\ buf_pos' = buf_pos + n
               /\ call' = IF todo' = <<>> THEN "none" ELSE call
               /\ file' = file /\ off' = off /\ dropped' = dropped
  <2>1. CASE full
    BY <2>1 DEF File!FwriteRound
  <2>2. CASE ~ full
    <3>1. buf_pos + n \in Nat /\ -1 \in -1 .. buf_pos + n
      BY <1>1, FileNumbers DEF File!Least, File!Room
    <3>2. /\ buf_pos' = buf_pos + n
          /\ call' = IF todo' = <<>> THEN "none" ELSE call
          /\ file' = file /\ off' = off /\ dropped' = dropped
      BY <2>2 DEF File!FwriteRound, File!kernel
    <3> HIDE DEF full, n
    <3>3. QED
      BY <2>2, <3>1, <3>2
  <2>3. QED
    BY <2>1, <2>2
<1>4. /\ off \in Nat /\ buf_pos \in Nat /\ buf_len \in Nat /\ Len(file) \in Nat
      /\ at \in Nat /\ FILE_BUFFER_SIZE \in Nat /\ FILE_BUFFER_SIZE > 0
      /\ File!buf_size \in Nat /\ File!buf_size <= FILE_BUFFER_SIZE
      /\ file \in Seq(Stored) /\ want \in Seq(Stored) /\ Len(want) \in Nat
      /\ todo \in Seq(Bytes) /\ todo \in Seq(Stored) /\ Len(todo) \in Nat
      /\ target \in Nat /\ File!Where \in Nat
      /\ SIZE_MAX \in Nat /\ SIZE_MAX > FILE_BUFFER_SIZE
  BY <1>1, FileNumbers DEF FileTypes
<1>5. /\ n \in Nat /\ n <= Len(todo) /\ buf_pos + n \in Nat
      /\ buf_pos + n <= File!buf_size
      /\ mode = "stdout" => buf_pos + n = 0
  <2>1. File!Room = File!buf_size - buf_pos
    BY DEF File!Room
  <2>2. mode = "stdout" => File!buf_size = 0
    BY DEF File!buf_size
  <2>3. QED
    BY <1>1, <1>4, <2>1, <2>2 DEF File!Least
<1>6. /\ copied \in Seq(Stored) /\ Len(copied) = n /\ todo' \in Seq(Bytes)
  <2> HIDE DEF n
  <2>1. n <= Len(todo) /\ Len(todo) <= Len(todo)
    BY <1>4, <1>5
  <2>2. QED
    BY <1>2, <1>4, <1>5, <2>1, FirstPiece, Piece
<1> HIDE DEF n, copied, full, data, target
<1>7. /\ buf' \in [1 .. FILE_BUFFER_SIZE -> Stored]
      /\ data = Pending \o copied
      /\ data \in Seq(Stored) /\ Len(data) = buf_pos + n
  <2>1. buf_pos + Len(copied) <= FILE_BUFFER_SIZE
    BY <1>4, <1>5, <1>6
  <2>2. /\ buf' \in [1 .. FILE_BUFFER_SIZE -> Stored]
        /\ SubSeq(buf', 1, buf_pos + n) = SubSeq(buf, 1, buf_pos) \o copied
    BY <1>1, <1>2, <1>4, <1>6, <2>1, BufferType
  <2>3. data = Pending \o copied
    BY <2>2 DEF data, Pending
  <2>4. Pending \in Seq(Stored) /\ Len(Pending) = buf_pos
    <3>1. buf \in Seq(Stored) /\ buf_pos <= Len(buf)
      BY <1>1, <1>4, FileNumbers
    <3>2. QED
      BY <1>4, <3>1, FirstPiece DEF Pending
  <2>5. /\ Pending \o copied \in Seq(Stored)
        /\ Len(Pending \o copied) = Len(Pending) + Len(copied)
    BY <1>6, <2>4, ConcatProperties
  <2>6. QED
    BY <1>6, <2>2, <2>3, <2>4, <2>5
<1>8. Over(want', Stored, want, File!Where, copied)
  BY <1>2, <1>4, <1>6, FileConstants, OverIs
<1>9. /\ file' \in Seq(Stored) /\ off' \in Nat /\ dropped' \in BOOLEAN
      /\ buf_pos' \in Nat /\ buf_pos' <= File!buf_size
      /\ mode = "stdout" => buf_pos' = 0
      /\ call' \in {"none", "fwrite"}
  <2>1. CASE full
    <3>1. taken \in -1 .. Len(data) /\ File!soiav_write(data, taken)
      BY <1>3, <1>7, <2>1
    <3>2. file' \in Seq(Stored) /\ File!OffAfter(taken) \in Nat
      BY <1>1, <1>7, <3>1, WriteIs
    <3>3. buf_pos' \in {0, buf_pos + n}
      BY <1>3, <2>1 DEF File!Kept
    <3>4. dropped' \in BOOLEAN
      BY <1>3, <2>1
    <3>5. QED
      BY <1>1, <1>3, <1>4, <1>5, <2>1, <3>2, <3>3, <3>4
  <2>2. CASE ~ full
    BY <1>1, <1>3, <1>4, <1>5, <2>2 DEF FileTypes
  <2>3. QED
    BY <2>1, <2>2
<1>10. FileTypes'
  <2>1. want' \in Seq(Stored) /\ at' \in Nat
    BY <1>2, <1>4, <1>5, <1>8 DEF Over
  <2>2. QED
    BY <1>1, <1>2, <1>6, <1>7, <1>9, <2>1 DEF FileTypes
<1>11. File!Sound' => File!Sound /\ (full /\ taken >= 0 => taken = buf_pos + n)
  <2>1. CASE full
    <3>1. dropped' = (dropped \/ (taken >= 0 /\ taken < buf_pos + n)) /\ astray' = astray
      BY <1>2, <1>3, <2>1
    <3>2. File!Sound' => File!Sound /\ ~ (taken >= 0 /\ taken < buf_pos + n)
      BY <3>1, Zenon DEF File!Sound
    <3>3. QED
      BY <1>5, <3>2
  <2>2. CASE ~ full
    BY <1>2, <1>3, <2>2 DEF File!Sound
  <2>3. QED
    BY <2>1, <2>2
<1>12. CallFits'
  <2>1. /\ File!Readable' <=> File!Readable
        /\ File!Writable' <=> File!Writable
        /\ File!buf_size' = File!buf_size
    BY <1>2 DEF File!Readable, File!Writable, File!buf_size
  <2>2. File!Sound' => buf_len' = 0
    BY <1>1, <1>2, <1>11
  <2>3. mode' \notin {"r", "closed"} /\ got' = <<>>
    BY <1>1, <1>2
  <2>4. buf_len' = SIZE_MAX => buf_pos' < SIZE_MAX
    BY <1>4, <1>9
  <2>5. QED
    BY <1>1, <1>2, <1>9, <2>1, <2>2, <2>3, <2>4 DEF CallFits
(* What the kernel took is in the file; what it did not is in the buffer.     *)
<1> DEFINE written == full /\ taken >= 0
<1>13. ASSUME File!Sound'
       PROVE  /\ File!Sound /\ target <= Len(file) /\ File!Where = target + buf_pos
              /\ want' = File!Overwritten(file, target, data)
              /\ buf_len' = 0 /\ buf_len = 0
  <2>1. File!Sound /\ buf_len = 0 /\ buf_len' = 0
    BY <1>1, <1>2, <1>11, <1>13
  <2>2. buf_pos <= FILE_BUFFER_SIZE
    BY <1>1, <1>4
  <2>3. /\ want = File!Overwritten(file, target, Pending)
        /\ Len(Pending) = buf_pos /\ Pending \in Seq(Stored)
        /\ target <= Len(file) /\ File!Where = target + buf_pos
    BY <1>1, <2>1, <2>2, TargetIs DEF target
  <2>4. File!Overwritten(File!Overwritten(file, target, Pending),
                         target + Len(Pending), copied)
          = File!Overwritten(file, target, Pending \o copied)
    <3>1. /\ 0 \in Stored /\ file \in Seq(Stored) /\ target \in Nat
          /\ target <= Len(file) /\ Pending \in Seq(Stored)
          /\ copied \in Seq(Stored)
      BY <1>4, <1>6, <2>3, FileConstants
    <3>2. QED
      BY <3>1, OverTwice
  <2>5. QED
    BY <1>2, <1>7, <2>1, <2>3, <2>4
<1>14. ASSUME File!Sound'
       PROVE  IF written
                THEN /\ file' = File!Overwritten(file, target, data) /\ buf_pos' = 0
                     /\ off' = IF buf_pos + n > 0 THEN target + (buf_pos + n) ELSE off
                ELSE file' = file /\ off' = off /\ buf_pos' = buf_pos + n
  <2>1. CASE written
    <3>1. /\ taken = Len(data) /\ taken = buf_pos + n /\ taken \in -1 .. Len(data)
          /\ File!soiav_write(data, taken)
      BY <1>3, <1>5, <1>7, <1>11, <1>14, <2>1
    <3>2. file' = File!Overwritten(file, target, data)
      BY <1>1, <1>7, <1>13, <1>14, <3>1, WriteIs DEF target
    <3>3. /\ buf_pos' = 0
          /\ off' = IF buf_pos + n > 0 THEN target + (buf_pos + n) ELSE off
      BY <1>3, <2>1, <3>1 DEF File!Kept, File!OffAfter, target
    <3>4. QED
      BY <2>1, <3>2, <3>3
  <2>2. CASE full /\ ~ (taken >= 0)
    <3>1. taken < 0 /\ taken \in -1 .. Len(data) /\ File!soiav_write(data, taken)
      BY <1>3, <1>5, <1>7, <2>2
    <3>2. file' = file /\ File!OffAfter(taken) = off
      BY <1>1, <1>7, <3>1, WriteIs
    <3>3. buf_pos' = buf_pos + n /\ off' = File!OffAfter(taken)
      BY <1>3, <2>2 DEF File!Kept
    <3>4. QED
      BY <2>2, <3>2, <3>3
  <2>3. CASE ~ full
    BY <1>3, <2>3
  <2>4. QED
    BY <2>1, <2>2, <2>3
<1> HIDE DEF written
<1>15. Over(File!Overwritten(file, target, data), Stored, file, target, data)
  BY <1>4, <1>7, FileConstants, OverIs
<1>16. mode \notin Ends => target = off /\ File!Where = at
  BY DEF target, File!Target, File!Where, Ends
<1>17. Waiting'
  <2> SUFFICES ASSUME File!Sound'
               PROVE  /\ want' = File!Overwritten(file', File!Target', Pending')
                      /\ mode \notin Ends => off' <= Len(file') /\ at' = off' + buf_pos'
    BY <1>2 DEF Waiting
  <2>1. CASE written
    <3>1. Pending' = <<>>
      BY <1>14, <2>1, EmptyBuffer DEF Pending
    <3>2. want' = file'
      BY <1>13, <1>14, <2>1
    <3>3. Len(file') = Larger(target + (buf_pos + n), Len(file))
      BY <1>7, <1>14, <1>15, <2>1 DEF Over
    <3>4. mode \notin Ends => off' <= Len(file') /\ at' = off' + buf_pos'
      <4> SUFFICES ASSUME mode \notin Ends
                   PROVE  off' <= Len(file') /\ at' = off' + buf_pos'
        OBVIOUS
      <4>1. target = off /\ target + (buf_pos + n) <= Len(file')
        BY <1>4, <1>5, <1>13, <1>16, <3>3 DEF Larger
      <4>2. off' = target + (buf_pos + n) /\ buf_pos' = 0
        BY <1>4, <1>5, <1>14, <2>1, <4>1
      <4>3. at' = (target + buf_pos) + n
        BY <1>2, <1>13
      <4>4. QED
        BY <1>4, <1>5, <4>1, <4>2, <4>3
    <3>5. File!Target' \in Nat /\ File!Target' <= Len(file')
      <4>1. Len(file') \in Nat
        BY <1>9, LenProperties
      <4>2. mode' = mode
        BY <1>2
      <4>3. QED
        BY <1>9, <3>4, <4>1, <4>2 DEF File!Target, Ends
    <3>6. File!Overwritten(file', File!Target', <<>>) = file'
      BY <1>9, <3>5, FileConstants, OverNothing
    <3>7. QED
      BY <3>1, <3>2, <3>4, <3>6
  <2>2. CASE ~ written
    <3>1. Pending' = data /\ File!Target' = target
      BY <1>2, <1>14, <2>2 DEF Pending, data, target, File!Target
    <3>2. want' = File!Overwritten(file', File!Target', Pending')
      BY <1>13, <1>14, <2>2, <3>1
    <3>3. ASSUME mode \notin Ends
          PROVE  off' <= Len(file') /\ at' = off' + buf_pos'
      <4>1. off <= Len(file) /\ target = off
        BY <1>13, <1>16, <3>3
      <4>2. at' = (off + buf_pos) + n
        BY <1>2, <1>13, <4>1
      <4>3. QED
        BY <1>4, <1>5, <1>14, <2>2, <4>1, <4>2
    <3>4. QED
      BY <3>2, <3>3
  <2>3. QED
    BY <2>1, <2>2
<1>18. Refilled'
  BY <1>4, <1>13 DEF Refilled
<1>19. Reading'
  <2> SUFFICES ASSUME File!Sound'
               PROVE  /\ got' = SubSeq(want', from' + 1, from' + Len(got'))
                      /\ need' > 0 => at' = Len(want')
    BY <1>9 DEF Reading
  <2>1. got' = <<>> /\ Len(<<>>) = 0 /\ from' \in Nat
    BY <1>1, <1>2, <1>10 DEF FileTypes
  <2>2. SubSeq(want', from' + 1, from' + 0) = <<>>
    BY <2>1, EmptyBuffer, NoLength
  <2>3. ASSUME need' > 0 PROVE at' = Len(want')
    <3>1. need > 0 /\ call # "fread" /\ File!Sound /\ buf_len # SIZE_MAX
      BY <1>1, <1>2, <1>4, <1>13, <2>3
    <3>2. at = Len(want)
      BY <3>1 DEF FileInv, Reading
    <3>3. mode \notin Ends
      BY <1>1, <3>1 DEF File!Readable, Ends
    <3>4. Len(want') = Larger(at + n, Len(want)) /\ at' = at + n
      BY <1>2, <1>6, <1>8, <1>16, <3>3 DEF Over
    <3>5. QED
      BY <1>4, <1>5, <3>2, <3>4 DEF Larger
  <2>4. QED
    BY <2>1, <2>2, <2>3
<1>20. QED
  BY <1>10, <1>12, <1>17, <1>18, <1>19 DEF FileInv

(* What fseek and fclose do first: when it worked the file is what the program     *)
(* has written. Nothing is flushed of a stream that is only read.               *)
LEMMA FlushIs ==
  ASSUME FileInv, NEW taken \in -1 .. buf_pos, File!Flush(taken)
  PROVE  /\ file' \in Seq(Stored) /\ File!OffAfter(taken) \in Nat
         /\ dropped' \in BOOLEAN
         /\ ~ File!Writable =>
              file' = file /\ dropped' = dropped /\ File!OffAfter(taken) = off
         /\ File!Writable /\ File!Sound /\ ~ dropped' /\ buf_len = 0 =>
              /\ file' = want
              /\ mode \notin Ends => File!OffAfter(taken) = at
<1>1. /\ FileTypes /\ Waiting /\ off \in Nat /\ buf_pos \in Nat
      /\ file \in Seq(Stored) /\ buf \in Seq(Stored) /\ Len(buf) = FILE_BUFFER_SIZE
      /\ File!buf_size \in Nat /\ File!buf_size <= FILE_BUFFER_SIZE
      /\ FILE_BUFFER_SIZE \in Nat /\ at \in Nat
  BY FileNumbers DEF FileInv
<1>2. mode \notin Ends => File!Target = off
  BY DEF File!Target, Ends
<1>3. CASE buf_pos = 0
  <2>1. taken = 0 /\ file' = file /\ dropped' = dropped
    BY <1>3 DEF File!Flush
  <2>2. File!OffAfter(taken) = off
    BY <2>1 DEF File!OffAfter
  <2>3. File!Sound => want = file
    BY <1>3, Settled
  <2>4. File!Sound /\ buf_len = 0 /\ mode \notin Ends => at = off
    BY <1>1, <1>3 DEF Waiting
  <2>5. QED
    BY <1>1, <2>1, <2>2, <2>3, <2>4 DEF FileTypes
<1>4. CASE buf_pos # 0 /\ ~ File!Writable
  <2>1. File!soiav_write(Pending, taken)
    BY <1>4 DEF File!Flush, Pending
  <2>2. taken < 0 /\ taken \in Int
    BY <1>4, <2>1 DEF File!soiav_write
  <2>3. file' = file /\ File!OffAfter(taken) = off
    BY <2>1, <2>2 DEF File!soiav_write, File!OffAfter
  <2>4. dropped' = (dropped \/ (File!Writable /\ taken < buf_pos))
    BY <1>4 DEF File!Flush
  <2>5. dropped' = dropped
    <3>1. (dropped' <=> dropped) /\ dropped' \in BOOLEAN /\ dropped \in BOOLEAN
      BY <1>1, <1>4, <2>4 DEF FileTypes
    <3>2. QED
      BY <3>1
  <2>6. QED
    BY <1>1, <1>4, <2>3, <2>5 DEF FileTypes
<1>5. CASE buf_pos # 0 /\ File!Writable
  <2>1. /\ buf_pos <= FILE_BUFFER_SIZE /\ File!soiav_write(Pending, taken)
        /\ dropped' = (dropped \/ (File!Writable /\ taken < buf_pos))
    BY <1>1, <1>5 DEF File!Flush, Pending
  <2>2. Pending \in Seq(Stored) /\ Len(Pending) = buf_pos
    BY <1>1, <2>1, FirstPiece DEF Pending
  <2>3. /\ file' \in Seq(Stored) /\ File!OffAfter(taken) \in Nat
        /\ taken = buf_pos /\ File!Target <= Len(file) =>
             file' = File!Overwritten(file, File!Target, Pending)
    BY <1>1, <2>1, <2>2, WriteIs
  <2>4. dropped' \in BOOLEAN
    BY <2>1
  <2>5. ASSUME File!Sound, ~ dropped', buf_len = 0
        PROVE  file' = want /\ (mode \notin Ends => File!OffAfter(taken) = at)
    <3>1. ~ (taken < buf_pos)
      BY <1>5, <2>1, <2>5, Zenon
    <3>2. taken = buf_pos
      BY <1>1, <3>1
    <3>3. /\ want = File!Overwritten(file, File!Target, Pending)
          /\ File!Target <= Len(file)
      BY <1>1, <2>1, <2>5, TargetIs
    <3>4. mode \notin Ends => at = off + buf_pos
      BY <2>5 DEF FileInv, Waiting
    <3>5. File!OffAfter(taken) = File!Target + buf_pos
      BY <1>1, <1>5, <3>2 DEF File!OffAfter
    <3>6. QED
      BY <1>2, <2>3, <3>2, <3>3, <3>4, <3>5
  <2>6. QED
    BY <1>5, <2>3, <2>4, <2>5
<1>6. QED
  BY <1>3, <1>4, <1>5

(* A stream that is closed or moved has nothing in its buffer.                *)
LEMMA Emptied ==
  ASSUME FileTypes', buf_pos' = 0, buf_len' = 0, got' = <<>>, need' = 0, call' = "none",
         File!Sound' => /\ want' = file'
                        /\ mode' \notin Ends => off' <= Len(file') /\ at' = off'
  PROVE  FileInv'
<1>1. file' \in Seq(Stored) /\ from' \in Nat /\ off' \in Nat
  BY DEF FileTypes
<1>2. Len(file') \in Nat
  BY <1>1, LenProperties
<1>3. CallFits'
  BY FileConstants DEF CallFits
<1>4. Reading'
  <2> SUFFICES ASSUME File!Sound'
               PROVE  /\ got' = SubSeq(want', from' + 1, from' + Len(got'))
                      /\ call' # "fread" /\ ~ (need' > 0)
    BY DEF Reading
  <2>1. SubSeq(want', from' + 1, from') = <<>> /\ from' + 0 = from'
    BY <1>1, EmptyBuffer, NoLength, Zenon
  <2>2. Len(<<>>) = 0
    OBVIOUS
  <2>3. from' + Len(got') = from'
    BY <2>1, <2>2
  <2>4. call' # "fread" /\ ~ (need' > 0)
    OBVIOUS
  <2>5. got' = SubSeq(want', from' + 1, from' + Len(got'))
    BY <2>1, <2>3, Zenon
  <2>6. QED
    BY <2>4, <2>5
<1>5. Waiting'
  <2> SUFFICES ASSUME File!Sound'
               PROVE  /\ want' = File!Overwritten(file', File!Target', Pending')
                      /\ mode' \notin Ends => off' <= Len(file') /\ at' = off' + buf_pos'
    BY DEF Waiting
  <2>1. Pending' = <<>>
    BY EmptyBuffer DEF Pending
  <2>2. File!Target' \in Nat /\ File!Target' <= Len(file')
    BY <1>1, <1>2 DEF File!Target, Ends
  <2>3. File!Overwritten(file', File!Target', <<>>) = file'
    BY <1>1, <2>2, FileConstants, OverNothing
  <2>4. off' + 0 = off'
    BY <1>1, NoLength, Zenon
  <2>5. QED
    BY <2>1, <2>3, <2>4
<1>6. Refilled'
  BY DEF Refilled
<1>7. QED
  BY <1>3, <1>4, <1>5, <1>6 DEF FileInv

LEMMA FseekKeeps ==
  ASSUME FileInv, NEW whence \in Whences, NEW offset \in -1 .. MaxLen,
         File!fseek(whence, offset)
  PROVE  FileInv'
<1> DEFINE Base(here, content) == CASE whence = "SEEK_SET" -> 0
                                    [] whence = "SEEK_CUR" -> here
                                    [] whence = "SEEK_END" -> Len(content)
<1>1. /\ FileTypes /\ mode \notin {"closed", "stdout"} /\ call = "none"
      /\ mode \in {"r", "r+", "w", "a"} /\ File!Sound
  BY FileConstants DEF FileInv, FileTypes, File!fseek
<1>2. whence \in {"SEEK_SET", "SEEK_CUR", "SEEK_END"} /\ offset \in Int
  BY FileConstants
<1>3. Base(at, want) + offset \in 0 .. Len(want) /\ at' = Base(at, want) + offset
  BY DEF File!fseek
<1>4. PICK taken \in -1 .. buf_pos :
        /\ File!Flush(taken)
        /\ off' = IF Base(File!OffAfter(taken), file') + offset >= 0
                  THEN Base(File!OffAfter(taken), file') + offset
                  ELSE File!OffAfter(taken)
  BY DEF File!fseek
<1>5. /\ buf_pos' = 0 /\ buf_len' = 0 /\ got' = <<>> /\ need' = 0
      /\ UNCHANGED <<mode, buf, call, todo, want, from>>
      /\ astray' = \/ astray
                   \/ File!Writable /\ File!Holds(TRUE)
                   \/ whence = "SEEK_CUR" /\ buf_len > 0 /\ buf_pos # buf_len
  BY DEF File!fseek
<1>6. /\ want \in Seq(Stored) /\ Len(want) \in Nat /\ from \in Nat /\ at \in Nat
      /\ off \in Nat /\ buf_pos \in Nat /\ buf_len \in Nat
  BY <1>1, FileNumbers
<1>7. /\ file' \in Seq(Stored) /\ File!OffAfter(taken) \in Nat
      /\ dropped' \in BOOLEAN
      /\ ~ File!Writable =>
           file' = file /\ dropped' = dropped /\ File!OffAfter(taken) = off
      /\ File!Writable /\ File!Sound /\ ~ dropped' /\ buf_len = 0 =>
           /\ file' = want
           /\ mode \notin Ends => File!OffAfter(taken) = at
  BY <1>4, FlushIs
<1>8. Len(file') \in Nat
  BY <1>7, LenProperties
<1>9. at' \in Nat /\ at' <= Len(want) /\ off' \in Nat
  <2>1. Base(File!OffAfter(taken), file') \in Nat /\ Base(at, want) \in Nat
    BY <1>2, <1>6, <1>7, <1>8
  <2> HIDE DEF Base
  <2>2. QED
    BY <1>2, <1>3, <1>4, <1>6, <1>7, <2>1
<1>10. FileTypes'
  <2>1. <<>> \in Seq(Stored) /\ astray' \in BOOLEAN
    BY <1>5, EmptySeq
  <2>2. buf_len' \in 0 .. FILE_BUFFER_SIZE \union {SIZE_MAX}
    BY <1>5, FileConstants
  <2>3. QED
    BY <1>1, <1>5, <1>7, <1>9, <2>1, <2>2 DEF FileTypes
<1>11. ASSUME File!Sound'
       PROVE  /\ ~ dropped'
              /\ ~ (File!Writable /\ File!Holds(TRUE))
              /\ ~ (whence = "SEEK_CUR" /\ buf_len > 0 /\ buf_pos # buf_len)
  BY <1>5, <1>11, Zenon DEF File!Sound
<1>12. ASSUME File!Sound'
       PROVE  /\ file' = want
              /\ mode \notin Ends /\ whence = "SEEK_CUR" => File!OffAfter(taken) = at
  <2>1. CASE File!Writable
    <3>1. buf_len = 0
      <4> SUFFICES ASSUME buf_len > 0 PROVE FALSE
        BY <1>6
      <4>1. buf_pos > 0
        BY <1>1 DEF FileInv, Refilled
      <4>2. (buf_len > 0) = TRUE
        OBVIOUS
      <4>3. File!Holds(TRUE)
        BY <4>1, <4>2, Zenon DEF File!Holds
      <4>4. QED
        BY <1>11, <1>12, <2>1, <4>3
    <3>2. QED
      BY <1>1, <1>7, <1>11, <1>12, <2>1, <3>1
  <2>2. CASE ~ File!Writable
    <3>1. mode = "r" /\ mode \notin Ends
      BY <1>1, <2>2 DEF File!Writable, Ends
    <3>2. buf_len > 0 \/ buf_pos = 0
      BY <1>6, <3>1 DEF FileInv, CallFits
    <3>3. want = file
      BY <1>1, <3>2, Settled
    <3>4. whence = "SEEK_CUR" => at = off
      <4> SUFFICES ASSUME whence = "SEEK_CUR" PROVE at = off
        OBVIOUS
      <4>1. CASE buf_len > 0
        <5>1. buf_pos = buf_len
          BY <1>11, <1>12, <4>1
        <5>2. buf_len # SIZE_MAX
          BY <1>6, <5>1 DEF FileInv, CallFits
        <5>3. QED
          BY <1>1, <1>6, <4>1, <5>1, <5>2 DEF FileInv, Refilled
      <4>2. CASE ~ (buf_len > 0)
        BY <1>1, <1>6, <3>1, <3>2, <4>2 DEF FileInv, Waiting
      <4>3. QED
        BY <4>1, <4>2
    <3>5. QED
      BY <1>7, <2>2, <3>3, <3>4
  <2>3. QED
    BY <2>1, <2>2
<1>13. ASSUME File!Sound', mode' \notin Ends
       PROVE  off' <= Len(file') /\ at' = off'
  <2>1. file' = want /\ (whence = "SEEK_CUR" => File!OffAfter(taken) = at)
    BY <1>5, <1>12, <1>13
  <2>2. Base(File!OffAfter(taken), file') = Base(at, want)
    BY <1>2, <2>1
  <2> HIDE DEF Base
  <2>3. off' = at'
    BY <1>3, <1>4, <1>9, <2>2
  <2>4. QED
    BY <1>9, <2>1, <2>3
<1>14. File!Sound' => want' = file'
  BY <1>5, <1>12
<1>15. QED
  BY <1>1, <1>5, <1>10, <1>13, <1>14, Emptied

LEMMA FcloseKeeps ==
  ASSUME FileInv, File!fclose PROVE FileInv'
<1>1. /\ FileTypes /\ mode \in {"r", "r+", "w", "a"} /\ call = "none"
  BY FileConstants DEF FileInv, FileTypes, File!fclose
<1>2. PICK taken \in -1 .. buf_pos : File!Flush(taken)
  BY DEF File!fclose
<1>3. /\ mode' = "closed" /\ got' = <<>> /\ need' = 0 /\ off' = 0 /\ at' = 0 /\ from' = 0
      /\ buf' = [i \in 1 .. FILE_BUFFER_SIZE |-> Junk]
      /\ buf_pos' = 0 /\ buf_len' = 0
      /\ astray' = (astray \/ (File!Writable /\ File!Holds(TRUE)))
      /\ UNCHANGED <<call, todo, want>>
  BY DEF File!fclose
<1>4. /\ file' \in Seq(Stored) /\ dropped' \in BOOLEAN
      /\ ~ File!Writable => file' = file /\ dropped' = dropped
      /\ File!Writable /\ File!Sound /\ ~ dropped' /\ buf_len = 0 => file' = want
  BY <1>2, FlushIs
<1>5. buf_len \in Nat /\ buf_pos \in Nat /\ Len(file') \in Nat
  BY <1>1, <1>4, FileNumbers, LenProperties
<1>6. FileTypes'
  <2>1. <<>> \in Seq(Stored) /\ astray' \in BOOLEAN
    BY <1>3, EmptySeq
  <2>2. buf' \in [1 .. FILE_BUFFER_SIZE -> Stored]
    BY <1>3, FileConstants
  <2>3. buf_len' \in 0 .. FILE_BUFFER_SIZE \union {SIZE_MAX}
    BY <1>3, FileConstants
  <2>4. QED
    BY <1>1, <1>3, <1>4, <2>1, <2>2, <2>3 DEF FileTypes
<1>7. ASSUME File!Sound' PROVE want' = file'
  <2>1. ~ dropped' /\ ~ astray /\ ~ (File!Writable /\ File!Holds(TRUE))
    BY <1>3, <1>7, Zenon DEF File!Sound
  <2>2. File!Sound
    <3>1. ~ dropped
      <4>1. buf_pos = 0 => dropped' = dropped
        BY <1>2 DEF File!Flush
      <4>2. buf_pos # 0 =>
              dropped' = (dropped \/ (File!Writable /\ taken < buf_pos))
        BY <1>2 DEF File!Flush
      <4>3. QED
        BY <2>1, <4>1, <4>2, Zenon
    <3>2. QED
      BY <2>1, <3>1 DEF File!Sound
  <2>3. CASE File!Writable
    <3>1. buf_len = 0
      <4> SUFFICES ASSUME buf_len > 0 PROVE FALSE
        BY <1>5
      <4>1. buf_pos > 0
        BY <2>2 DEF FileInv, Refilled
      <4>2. (buf_len > 0) = TRUE
        OBVIOUS
      <4>3. File!Holds(TRUE)
        BY <4>1, <4>2, Zenon DEF File!Holds
      <4>4. QED
        BY <2>1, <2>3, <4>3
    <3>2. QED
      BY <1>3, <1>4, <2>1, <2>2, <2>3, <3>1
  <2>4. CASE ~ File!Writable
    <3>1. mode = "r"
      BY <1>1, <2>4 DEF File!Writable
    <3>2. buf_len > 0 \/ buf_pos = 0
      BY <1>5, <3>1 DEF FileInv, CallFits
    <3>3. QED
      BY <1>3, <1>4, <2>2, <2>4, <3>2, Settled
  <2>5. QED
    BY <2>3, <2>4
<1>8. off' <= Len(file') /\ at' = off'
  BY <1>3, <1>5
<1>9. QED
  BY <1>1, <1>3, <1>6, <1>7, <1>8, Emptied

LEMMA FileInvNext == FileInv /\ [File!Next]_(File!vars) => FileInv'
<1> SUFFICES ASSUME FileInv, [File!Next]_(File!vars) PROVE FileInv'
  OBVIOUS
<1>1. ASSUME NEW m \in Modes, File!fopen(m) PROVE FileInv'
  BY <1>1, FopenKeeps
<1>2. ASSUME NEW n \in Amounts, File!fread(n) PROVE FileInv'
  BY <1>2, FreadKeeps
<1>3. ASSUME NEW data \in File!Data, File!fwrite(data) PROVE FileInv'
  BY <1>3, FwriteKeeps
<1>4. ASSUME NEW whence \in Whences, NEW offset \in -1 .. MaxLen,
             File!fseek(whence, offset)
      PROVE FileInv'
  BY <1>4, FseekKeeps
<1>5. CASE File!fclose
  BY <1>5, FcloseKeeps
<1>6. CASE File!FreadRound
  BY <1>6, FreadRoundKeeps
<1>7. CASE File!FreadGarbled
  BY <1>7, FreadGarbledKeeps
<1>8. CASE File!FwriteRound
  BY <1>8, FwriteRoundKeeps
<1>9. CASE UNCHANGED File!vars
  <2>1. UNCHANGED <<file, off, mode, buf, buf_pos, buf_len, call, todo, need, got,
                    want, at, from, dropped, astray>>
    BY <1>9 DEF File!vars, File!stream, File!loop, File!kernel, File!expected
  <2>2. FileTypes' /\ CallFits'
    BY <2>1 DEF FileInv, FileTypes, CallFits, File!Readable, File!Writable,
       File!buf_size, File!Sound
  <2>3. Reading' /\ Waiting' /\ Refilled'
    BY <2>1 DEF FileInv, Reading, Waiting, Refilled, Pending, File!Target, File!Sound
  <2>4. QED
    BY <2>2, <2>3 DEF FileInv
<1>10. QED
  BY <1>1, <1>2, <1>3, <1>4, <1>5, <1>6, <1>7, <1>8, <1>9 DEF File!Next, File!Step

(* Whatever the file, the modes and the sizes of the buffer and of the calls, and    *)
(* however often the kernel refuses reads and writes or cuts a write short: until    *)
(* the library has dropped bytes after a short or refused write or has taken, by the  *)
(* one index of a stream, bytes read for bytes to be written, fread gives the bytes  *)
(* of the file the program is at (unless a read was refused since the last fseek),  *)
(* ftell says where that is, and what fwrite has taken is in the file or waits for    *)
(* its place in it.                                                         *)
THEOREM StreamsStayRight == UserSpec => []FileRight
<1>1. FileInv => FileRight
  BY FileInvImplies
<1>2. FileInv /\ [UserNext]_userVars => FileInv'
  BY FileInvNext, FileStep
<1>3. QED
  BY <1>1, <1>2, FileInvInit, PTL DEF UserSpec
-----------------------------------------------------------------------------
(* The heap.  What is said of every place in a list is shown by the least     *)
(* number of steps for which it would fail.                                 *)

LEMMA LeastIn ==
  ASSUME NEW D \in SUBSET Nat, D # {}
  PROVE  \E n \in D : \A m \in D : n <= m
<1>1. PICK n \in D : \A m \in D : ~ (<<m, n>> \in OpToRel(<, Nat))
  BY NatLessThanWellFounded, WFMin
<1>2. \A m \in D : m < n => <<m, n>> \in OpToRel(<, Nat)
  BY DEF OpToRel
<1>3. \A m \in D : ~ (m < n)
  BY <1>1, <1>2
<1>4. n \in Nat /\ \A m \in D : m \in Nat
  OBVIOUS
<1>5. \A m \in D : n <= m
  BY <1>3, <1>4
<1>6. QED
  BY <1>5

LEMMA Smallest ==
  ASSUME NEW D \in SUBSET Nat, \A n \in D : n # 0 /\ n - 1 \in D
  PROVE  D = {}
<1> SUFFICES ASSUME D # {} PROVE FALSE
  OBVIOUS
<1>1. PICK n \in D : \A m \in D : n <= m
  BY LeastIn
<1>2. n \in Nat /\ n - 1 \in D /\ ~ (n <= n - 1)
  OBVIOUS
<1>3. QED
  BY <1>1, <1>2

Blocks == [at : Nat, size : Nat, free : BOOLEAN]
EndOf(b) == b.at + Header + b.size

(* The blocks of list lie side by side from 0 on.                            *)
Tiles(list) ==
  /\ list \in Seq(Blocks) /\ Len(list) >= 1
  /\ list[1].at = 0
  /\ \A i \in 1 .. Len(list) - 1 : list[i + 1].at = EndOf(list[i])

(* One of the first m blocks is in use, at pointer p and of size n.            *)
HoldsUpto(list, m, p, n) ==
  \E i \in 1 .. m : ~ list[i].free /\ list[i].at + Header = p /\ list[i].size = n
Holds(list, p, n) == HoldsUpto(list, Len(list), p, n)

LEMMA HeapConstants ==
  /\ Align \in Nat /\ Align > 0 /\ Header \in Nat /\ Header > 0
  /\ HEAP_SIZE \in Nat /\ HEAP_SIZE > Header /\ Requests \subseteq Nat
BY HeapAssumption

LEMMA BlockOf ==
  ASSUME NEW list, Tiles(list), NEW i \in 1 .. Len(list)
  PROVE  /\ Len(list) \in Nat /\ list[i] \in Blocks
         /\ list[i].at \in Nat /\ list[i].size \in Nat /\ list[i].free \in BOOLEAN
         /\ EndOf(list[i]) \in Nat /\ list[i].at + Header <= EndOf(list[i])
         /\ list[i].at < EndOf(list[i])
<1>1. Len(list) \in Nat /\ list[i] \in Blocks
  BY ElementOfSeq, LenProperties DEF Tiles
<1>2. list[i].at \in Nat /\ list[i].size \in Nat /\ list[i].free \in BOOLEAN
  BY <1>1 DEF Blocks
<1>3. /\ EndOf(list[i]) \in Nat /\ list[i].at + Header <= EndOf(list[i])
      /\ list[i].at < EndOf(list[i])
  BY <1>2, HeapConstants DEF EndOf
<1>4. QED
  BY <1>1, <1>2, <1>3

(* A block ends where a later one begins, or before.                         *)
LEMMA TilesInOrder ==
  ASSUME NEW list, Tiles(list)
  PROVE  \A i, j \in 1 .. Len(list) : i < j => EndOf(list[i]) <= list[j].at
<1> DEFINE Bad == {n \in Nat : \E i \in 1 .. Len(list) :
                     i + n + 1 <= Len(list) /\ ~ (EndOf(list[i]) <= list[i + n + 1].at)}
<1>1. /\ Len(list) \in Nat
      /\ \A i \in 1 .. Len(list) - 1 : list[i + 1].at = EndOf(list[i])
      /\ \A i \in 1 .. Len(list) :
           list[i].at \in Nat /\ EndOf(list[i]) \in Nat /\ list[i].at < EndOf(list[i])
  BY BlockOf, LenProperties DEF Tiles
<1>2. ASSUME NEW n \in Bad PROVE n # 0 /\ n - 1 \in Bad
  <2>1. PICK i \in 1 .. Len(list) :
          i + n + 1 <= Len(list) /\ ~ (EndOf(list[i]) <= list[i + n + 1].at)
    OBVIOUS
  <2>2. i + n \in 1 .. Len(list) - 1 /\ i + n \in 1 .. Len(list)
    BY <1>1, <2>1
  <2>3. list[i + n + 1].at = EndOf(list[i + n])
    BY <1>1, <2>2
  <2>4. n # 0
    <3> SUFFICES ASSUME n = 0 PROVE FALSE
      OBVIOUS
    <3>1. i + n = i
      OBVIOUS
    <3>2. QED
      BY <1>1, <2>1, <2>3, <3>1
  <2>5. n - 1 \in Nat /\ i + (n - 1) + 1 = i + n
    BY <2>4
  <2>6. ~ (EndOf(list[i]) <= list[i + n].at)
    <3>1. /\ list[i + n].at \in Nat /\ EndOf(list[i + n]) \in Nat
          /\ list[i + n].at < EndOf(list[i + n]) /\ EndOf(list[i]) \in Nat
      BY <1>1, <2>2
    <3>2. ~ (EndOf(list[i]) <= EndOf(list[i + n]))
      BY <2>1, <2>3
    <3>3. QED
      BY <3>1, <3>2
  <2>7. n - 1 \in Bad
    BY <2>2, <2>5, <2>6
  <2>8. QED
    BY <2>4, <2>7
<1>3. Bad = {}
  <2>1. Bad \in SUBSET Nat
    OBVIOUS
  <2> HIDE DEF Bad
  <2>2. QED
    BY <1>2, <2>1, Smallest
<1>4. ASSUME NEW i \in 1 .. Len(list), NEW j \in 1 .. Len(list), i < j
      PROVE  EndOf(list[i]) <= list[j].at
  <2>1. j - i - 1 \in Nat /\ i + (j - i - 1) + 1 = j
    BY <1>1, <1>4
  <2>2. j - i - 1 \notin Bad
    BY <1>3
  <2>3. QED
    BY <1>1, <2>1, <2>2
<1>5. QED
  BY <1>4

LEMMA TilesApart ==
  ASSUME NEW list, Tiles(list), NEW i \in 1 .. Len(list), NEW j \in 1 .. Len(list)
  PROVE  /\ list[i].at + Header = list[j].at + Header => i = j
         /\ EndOf(list[i]) <= EndOf(list[Len(list)])
<1>1. /\ Len(list) \in Nat
      /\ list[i].at \in Nat /\ EndOf(list[i]) \in Nat /\ list[i].at < EndOf(list[i])
      /\ list[j].at \in Nat /\ EndOf(list[j]) \in Nat /\ list[j].at < EndOf(list[j])
  BY BlockOf
<1>2. /\ i < j => EndOf(list[i]) <= list[j].at
      /\ j < i => EndOf(list[j]) <= list[i].at
  BY TilesInOrder
<1>3. list[i].at + Header = list[j].at + Header => i = j
  BY <1>1, <1>2, HeapConstants
<1>4. CASE i = Len(list)
  BY <1>1, <1>3, <1>4
<1>5. CASE i # Len(list)
  <2>1. i < Len(list) /\ Len(list) \in 1 .. Len(list)
    BY <1>1, <1>5
  <2>2. /\ list[Len(list)].at \in Nat /\ EndOf(list[Len(list)]) \in Nat
        /\ list[Len(list)].at < EndOf(list[Len(list)])
    BY <2>1, BlockOf
  <2>3. EndOf(list[i]) <= list[Len(list)].at
    BY <2>1, TilesInOrder
  <2>4. QED
    BY <1>1, <1>3, <2>2, <2>3
<1>6. QED
  BY <1>4, <1>5

-----------------------------------------------------------------------------
(* What the operations do to a list.                                        *)

(* new is list with block b behind it.                                      *)
LEMMA AppendTiles ==
  ASSUME NEW list, Tiles(list), NEW b \in Blocks, b.at = EndOf(list[Len(list)])
  PROVE  LET new == Append(list, b) IN
         /\ Tiles(new) /\ EndOf(new[Len(new)]) = EndOf(b)
         /\ \A p, n : Holds(new, p, n) <=>
                       \/ Holds(list, p, n)
                       \/ ~ b.free /\ b.at + Header = p /\ b.size = n
<1> DEFINE new == Append(list, b)
           m == Len(list)
<1>1. list \in Seq(Blocks) /\ m \in Nat /\ m >= 1
  BY LenProperties DEF Tiles
<1>2. /\ new \in Seq(Blocks) /\ Len(new) = m + 1
      /\ \A i \in 1 .. m : new[i] = list[i]
      /\ new[m + 1] = b
  BY <1>1, AppendProperties
<1> HIDE DEF new
<1>3. \A i \in 1 .. m - 1 : list[i + 1].at = EndOf(list[i])
  BY DEF Tiles
<1>4. ASSUME NEW i \in 1 .. Len(new) - 1 PROVE new[i + 1].at = EndOf(new[i])
  <2>1. CASE i \in 1 .. m - 1
    <3>1. i + 1 \in 1 .. m /\ i \in 1 .. m
      BY <1>1, <2>1
    <3>2. new[i + 1] = list[i + 1] /\ new[i] = list[i]
      BY <1>2, <3>1
    <3>3. QED
      BY <1>3, <2>1, <3>2
  <2>2. CASE i = m
    <3>1. i \in 1 .. m
      BY <1>1, <2>2
    <3>2. QED
      BY <1>2, <2>2, <3>1
  <2>3. QED
    BY <1>1, <1>2, <2>1, <2>2
<1>5. Tiles(new)
  <2>1. 1 \in 1 .. m /\ list[1].at = 0
    BY <1>1 DEF Tiles
  <2>2. Len(new) >= 1 /\ new[1].at = 0
    BY <1>1, <1>2, <2>1
  <2>3. QED
    BY <1>2, <1>4, <2>2 DEF Tiles
<1>6. EndOf(new[Len(new)]) = EndOf(b)
  BY <1>2
<1>7. ASSUME NEW p, NEW n
      PROVE  Holds(new, p, n) <=>
               Holds(list, p, n) \/ (~ b.free /\ b.at + Header = p /\ b.size = n)
  <2>1. \A i : i \in 1 .. m + 1 <=> i \in 1 .. m \/ i = m + 1
    BY <1>1
  <2>2. QED
    BY <1>2, <2>1 DEF Holds, HoldsUpto
<1>8. QED
  BY <1>5, <1>6, <1>7 DEF new

(* The last block of new is the last of list with what lies behind it.        *)
LEMMA GrowTiles ==
  ASSUME NEW list, Tiles(list), list[Len(list)].free, NEW n \in Nat
  PROVE  LET last == list[Len(list)]
             b == [last EXCEPT !.size = @ + Header + n]
             new == Append(Front(list), b) IN
         /\ Tiles(new) /\ EndOf(new[Len(new)]) = EndOf(last) + Header + n
         /\ \A p, k : Holds(new, p, k) <=> Holds(list, p, k)
<1> DEFINE m == Len(list)
           last == list[m]
           b == [last EXCEPT !.size = @ + Header + n]
           new == Append(Front(list), b)
<1>1. list \in Seq(Blocks) /\ m \in Nat /\ m >= 1 /\ m \in 1 .. m
  BY LenProperties DEF Tiles
<1>2. /\ last \in Blocks /\ last.at \in Nat /\ last.size \in Nat
      /\ EndOf(last) \in Nat /\ last.free
  BY <1>1, BlockOf
<1>3. /\ b \in Blocks /\ b.at = last.at /\ b.free
      /\ EndOf(b) = EndOf(last) + Header + n
  <2>1. last.size + Header + n \in Nat
    BY <1>2, HeapConstants
  <2>2. /\ b \in Blocks /\ b.at = last.at /\ b.free = last.free
        /\ b.size = last.size + Header + n
    BY <1>2, <2>1 DEF Blocks
  <2>3. EndOf(b) = EndOf(last) + Header + n
    <3>1. /\ EndOf(b) = last.at + Header + (last.size + Header + n)
          /\ EndOf(last) = last.at + Header + last.size
      BY <2>2 DEF EndOf
    <3>2. last.at \in Nat /\ last.size \in Nat /\ Header \in Nat
      BY <1>2, HeapConstants
    <3> HIDE DEF b, last
    <3>3. QED
      BY <3>1, <3>2
  <2>4. QED
    BY <1>2, <2>2, <2>3
<1>4. /\ Front(list) \in Seq(Blocks) /\ Len(Front(list)) = m - 1
      /\ \A i \in 1 .. m - 1 : Front(list)[i] = list[i]
  <2>1. m - 1 \in Nat
    BY <1>1
  <2>2. \A i \in 1 .. m - 1 : list[i] \in Blocks
    BY <1>1, ElementOfSeq
  <2>3. /\ SubSeq(list, 1, m - 1) \in Seq(Blocks)
        /\ Len(SubSeq(list, 1, m - 1)) = IF 1 <= m - 1 THEN m - 1 - 1 + 1 ELSE 0
        /\ \A i \in 1 .. m - 1 - 1 + 1 : SubSeq(list, 1, m - 1)[i] = list[1 + i - 1]
    BY <2>1, <2>2, SubSeqProperties
  <2>4. m - 1 - 1 + 1 = m - 1 /\ \A i \in 1 .. m - 1 : 1 + i - 1 = i
    BY <1>1
  <2>5. QED
    BY <1>1, <2>3, <2>4 DEF Front
<1> HIDE DEF b
<1>5. /\ new \in Seq(Blocks) /\ Len(new) = m
      /\ \A i \in 1 .. m - 1 : new[i] = list[i]
      /\ new[m] = b
  <2>1. /\ new \in Seq(Blocks) /\ Len(new) = Len(Front(list)) + 1
        /\ \A i \in 1 .. Len(Front(list)) : new[i] = Front(list)[i]
        /\ new[Len(Front(list)) + 1] = b
    BY <1>3, <1>4, AppendProperties
  <2>2. (m - 1) + 1 = m
    BY <1>1
  <2>3. QED
    BY <1>4, <2>1, <2>2
<1> HIDE DEF new, m
<1>6. \A i \in 1 .. m - 1 : list[i + 1].at = EndOf(list[i])
  BY DEF Tiles, m
<1>7. \A i \in 1 .. m : new[i].at = list[i].at
  <2>1. \A i \in 1 .. m : i \in 1 .. m - 1 \/ i = m
    BY <1>1
  <2>2. QED
    BY <1>3, <1>5, <2>1
<1>8. ASSUME NEW i \in 1 .. m - 1 PROVE new[i + 1].at = EndOf(new[i])
  <2>1. i + 1 \in 1 .. m
    BY <1>1
  <2>2. QED
    BY <1>5, <1>6, <1>7, <2>1
<1>9. Tiles(new)
  <2>1. list[1].at = 0 /\ 1 \in 1 .. m
    BY <1>1 DEF Tiles
  <2>2. QED
    BY <1>1, <1>5, <1>7, <1>8, <2>1 DEF Tiles
<1>10. ASSUME NEW p, NEW k PROVE Holds(new, p, k) <=> Holds(list, p, k)
  <2>1. \A i \in 1 .. m : new[i] = list[i] \/ (new[i].free /\ list[i].free)
    <3>1. \A i \in 1 .. m : i \in 1 .. m - 1 \/ i = m
      BY <1>1
    <3>2. new[m].free /\ list[m].free
      BY <1>2, <1>3, <1>5
    <3>3. QED
      BY <1>5, <3>1, <3>2
  <2>2. QED
    BY <1>5, <2>1 DEF Holds, HoldsUpto, m
<1>11. EndOf(new[Len(new)]) = EndOf(last) + Header + n
  BY <1>3, <1>5
<1>12. QED
  BY <1>9, <1>10, <1>11 DEF new, b, m

(* The pass of free.                                                       *)
PassUpto(list, f, n) ==
  f = [i \in 0 .. n |-> IF i = 0 THEN [list |-> <<>>, mayMerge |-> FALSE]
                        ELSE Passed(f[i - 1], list[i])]

LEMMA PassExists ==
  ASSUME NEW list, NEW n \in Nat
  PROVE  \E f : PassUpto(list, f, n)
<1> DEFINE Bad == {k \in Nat : ~ \E f : PassUpto(list, f, k)}
<1>1. ASSUME NEW k \in Bad PROVE k # 0 /\ k - 1 \in Bad
  <2>1. k # 0
    <3> SUFFICES ASSUME k = 0 PROVE FALSE
      OBVIOUS
    <3> DEFINE f == [i \in 0 .. 0 |-> [list |-> <<>>, mayMerge |-> FALSE]]
    <3>1. PassUpto(list, f, 0)
      BY DEF PassUpto
    <3>2. QED
      BY <3>1
  <2>2. ASSUME NEW f, PassUpto(list, f, k - 1) PROVE FALSE
    <3> DEFINE g == [i \in 0 .. k |-> IF i = k THEN Passed(f[k - 1], list[k]) ELSE f[i]]
    <3>1. ASSUME NEW i \in 0 .. k
          PROVE  g[i] = IF i = 0 THEN [list |-> <<>>, mayMerge |-> FALSE]
                        ELSE Passed(g[i - 1], list[i])
      <4>1. CASE i = k
        <5>1. g[i] = Passed(f[k - 1], list[k]) /\ g[i - 1] = f[k - 1] /\ i # 0
          BY <2>1, <4>1
        <5> HIDE DEF g
        <5>2. QED
          BY <4>1, <5>1
      <4>2. CASE i # k
        <5>1. i \in 0 .. k - 1 /\ g[i] = f[i] /\ (i # 0 => g[i - 1] = f[i - 1])
          BY <4>2
        <5>2. f[i] = IF i = 0 THEN [list |-> <<>>, mayMerge |-> FALSE]
                     ELSE Passed(f[i - 1], list[i])
          BY <2>2, <5>1 DEF PassUpto
        <5> HIDE DEF g
        <5>3. QED
          BY <5>1, <5>2
      <4>3. QED
        BY <4>1, <4>2
    <3>2. g = [i \in 0 .. k |-> g[i]]
      OBVIOUS
    <3>3. PassUpto(list, g, k)
      <4> HIDE DEF g
      <4>1. QED
        BY <3>1, <3>2 DEF PassUpto
    <3>4. QED
      BY <3>3
  <2>3. k - 1 \in Nat
    BY <2>1
  <2>4. QED
    BY <2>1, <2>2, <2>3
<1>2. Bad = {}
  <2>1. Bad \in SUBSET Nat
    OBVIOUS
  <2> HIDE DEF Bad
  <2>2. QED
    BY <1>1, <2>1, Smallest
<1>3. QED
  BY <1>2

LEMMA MergedIs ==
  ASSUME NEW list, Len(list) \in Nat
  PROVE  \E f : PassUpto(list, f, Len(list)) /\ Merged(list) = f[Len(list)].list
<1>1. \E f : PassUpto(list, f, Len(list))
  BY PassExists
<1> DEFINE pass == CHOOSE f : PassUpto(list, f, Len(list))
<1>2. PassUpto(list, pass, Len(list))
  BY <1>1, Zenon
<1>3. Merged(list) = pass[Len(list)].list
  BY Zenon DEF Merged, PassUpto
<1> HIDE DEF pass
<1>4. QED
  BY <1>2, <1>3

LEMMA OneBlock ==
  ASSUME NEW b \in Blocks, b.at = 0
  PROVE  /\ Tiles(<<b>>) /\ Len(<<b>>) = 1 /\ <<b>>[1] = b
         /\ Append(<<>>, b) = <<b>>
<1>1. <<b>> \in Seq(Blocks) /\ Len(<<b>>) = 1 /\ <<b>>[1] = b
  OBVIOUS
<1>2. Tiles(<<b>>)
  BY <1>1 DEF Tiles
<1>3. Append(<<>>, b) = <<b>>
  OBVIOUS
<1>4. QED
  BY <1>1, <1>2, <1>3

(* The first i blocks, after the pass over them.                             *)
PassedWell(list, done, i) ==
  /\ Tiles(done.list)
  /\ EndOf(done.list[Len(done.list)]) = EndOf(list[i])
  /\ \A p, n : Holds(done.list, p, n) <=> HoldsUpto(list, i, p, n)

LEMMA PassedKeeps ==
  ASSUME NEW list, Tiles(list), NEW i \in 1 .. Len(list) - 1,
         NEW done, PassedWell(list, done, i)
  PROVE  PassedWell(list, Passed(done, list[i + 1]), i + 1)
<1> DEFINE old == done.list
           b == list[i + 1]
           after == Passed(done, b)
<1>1. /\ Len(list) \in Nat /\ i \in 1 .. Len(list) /\ i + 1 \in 1 .. Len(list)
      /\ b.at = EndOf(list[i])
  <2>1. Len(list) \in Nat /\ \A j \in 1 .. Len(list) - 1 : list[j + 1].at = EndOf(list[j])
    BY LenProperties DEF Tiles
  <2>2. i \in 1 .. Len(list) /\ i + 1 \in 1 .. Len(list)
    BY <2>1
  <2>3. QED
    BY <2>1, <2>2
<1>2. b \in Blocks /\ b.at \in Nat /\ b.size \in Nat
  BY <1>1, BlockOf
<1>3. /\ Tiles(old) /\ b.at = EndOf(old[Len(old)])
      /\ \A p, n : Holds(old, p, n) <=> HoldsUpto(list, i, p, n)
  BY <1>1 DEF PassedWell
<1>4. \A p, n : HoldsUpto(list, i + 1, p, n) <=>
                   \/ HoldsUpto(list, i, p, n)
                   \/ ~ b.free /\ b.at + Header = p /\ b.size = n
  <2>1. \A j : j \in 1 .. i + 1 <=> j \in 1 .. i \/ j = i + 1
    OBVIOUS
  <2>2. QED
    BY <2>1 DEF HoldsUpto
<1> HIDE DEF old, b
<1>5. CASE done.mayMerge /\ Last(old).free /\ b.free
  <2> DEFINE last == old[Len(old)]
             new == Append(Front(old), [last EXCEPT !.size = @ + Header + b.size])
  <2>1. after.list = new
    BY <1>5 DEF Passed, old, Last
  <2>2. /\ Tiles(new) /\ EndOf(new[Len(new)]) = EndOf(last) + Header + b.size
        /\ \A p, k : Holds(new, p, k) <=> Holds(old, p, k)
    BY <1>2, <1>3, <1>5, GrowTiles DEF Last
  <2>3. EndOf(last) + Header + b.size = EndOf(b)
    BY <1>3 DEF EndOf
  <2> HIDE DEF new, last, after
  <2>4. \A p, n : Holds(new, p, n) <=> HoldsUpto(list, i + 1, p, n)
    BY <1>3, <1>4, <1>5, <2>2
  <2>5. QED
    BY <2>1, <2>2, <2>3, <2>4 DEF PassedWell, after, b
<1>6. CASE ~ (done.mayMerge /\ Last(old).free /\ b.free)
  <2> DEFINE new == Append(old, b)
  <2>1. after.list = new
    BY <1>6 DEF Passed, old
  <2>2. /\ Tiles(new) /\ EndOf(new[Len(new)]) = EndOf(b)
        /\ \A p, n : Holds(new, p, n) <=>
                      \/ Holds(old, p, n)
                      \/ ~ b.free /\ b.at + Header = p /\ b.size = n
    BY <1>2, <1>3, AppendTiles
  <2> HIDE DEF new, after
  <2>3. \A p, n : Holds(new, p, n) <=> HoldsUpto(list, i + 1, p, n)
    BY <1>3, <1>4, <2>2
  <2>4. QED
    BY <2>1, <2>2, <2>3 DEF PassedWell, after, b
<1>7. QED
  BY <1>5, <1>6

LEMMA MergedTiles ==
  ASSUME NEW list, Tiles(list)
  PROVE  /\ Tiles(Merged(list))
         /\ EndOf(Merged(list)[Len(Merged(list))]) = EndOf(list[Len(list)])
         /\ \A p, n : Holds(Merged(list), p, n) <=> Holds(list, p, n)
<1>1. Len(list) \in Nat /\ Len(list) >= 1 /\ list[1].at = 0
  BY LenProperties DEF Tiles
<1>2. PICK f : PassUpto(list, f, Len(list)) /\ Merged(list) = f[Len(list)].list
  BY <1>1, MergedIs
<1>3. /\ f[0] = [list |-> <<>>, mayMerge |-> FALSE]
      /\ \A i \in 1 .. Len(list) : f[i] = Passed(f[i - 1], list[i])
  <2>1. \A i \in 0 .. Len(list) :
          f[i] = IF i = 0 THEN [list |-> <<>>, mayMerge |-> FALSE]
                 ELSE Passed(f[i - 1], list[i])
    BY <1>2, Zenon DEF PassUpto
  <2>2. 0 \in 0 .. Len(list)
    BY <1>1
  <2>3. \A i \in 1 .. Len(list) : i \in 0 .. Len(list) /\ i # 0
    BY <1>1
  <2>4. QED
    BY <2>1, <2>2, <2>3, Zenon
<1> DEFINE Good(i) == PassedWell(list, f[i], i)
           Bad == {n \in Nat : n + 1 <= Len(list) /\ ~ Good(n + 1)}
<1>4. Good(1)
  <2>1. 1 \in 1 .. Len(list) /\ 1 - 1 = 0
    BY <1>1
  <2>2. list[1] \in Blocks
    BY <2>1, BlockOf
  <2>3. f[1].list = <<list[1]>>
    <3>1. f[1] = Passed(f[0], list[1])
      BY <1>3, <2>1
    <3>2. f[1].list = Append(<<>>, list[1])
      BY <1>3, <3>1 DEF Passed
    <3>3. QED
      BY <1>1, <2>2, <3>2, OneBlock
  <2>4. Tiles(<<list[1]>>) /\ Len(<<list[1]>>) = 1 /\ <<list[1]>>[1] = list[1]
    BY <1>1, <2>2, OneBlock
  <2>5. \A p, n : Holds(<<list[1]>>, p, n) <=> HoldsUpto(list, 1, p, n)
    <3>1. \A i : i \in 1 .. 1 <=> i = 1
      OBVIOUS
    <3>2. QED
      BY <2>4, <3>1 DEF Holds, HoldsUpto
  <2>6. QED
    BY <2>3, <2>4, <2>5 DEF PassedWell
<1>5. ASSUME NEW n \in Bad PROVE n # 0 /\ n - 1 \in Bad
  <2>1. n \in Nat /\ n + 1 <= Len(list) /\ ~ Good(n + 1)
    OBVIOUS
  <2>2. n # 0
    <3>1. n = 0 => n + 1 = 1
      OBVIOUS
    <3>2. QED
      BY <1>4, <2>1, <3>1
  <2>3. /\ n \in 1 .. Len(list) - 1 /\ n - 1 \in Nat /\ (n - 1) + 1 = n
        /\ n + 1 \in 1 .. Len(list) /\ (n + 1) - 1 = n /\ n <= Len(list)
    BY <1>1, <2>1, <2>2
  <2>4. f[n + 1] = Passed(f[n], list[n + 1])
    BY <1>3, <2>3
  <2>5. ~ Good(n)
    BY <2>1, <2>3, <2>4, PassedKeeps
  <2>6. n - 1 \in Bad
    BY <2>3, <2>5
  <2>7. QED
    BY <2>2, <2>6
<1>6. Bad = {}
  <2>1. Bad \in SUBSET Nat
    OBVIOUS
  <2> HIDE DEF Bad
  <2>2. QED
    BY <1>5, <2>1, Smallest
<1>7. Len(list) - 1 \in Nat /\ (Len(list) - 1) + 1 = Len(list)
  BY <1>1
<1>8. Good(Len(list))
  <2> HIDE DEF Good
  <2>1. Len(list) - 1 \notin Bad
    BY <1>6
  <2>2. QED
    BY <1>1, <1>7, <2>1
<1>9. QED
  BY <1>2, <1>8 DEF PassedWell, Holds

(* A block that is marked free is held no longer.                            *)
LEMMA FreedTiles ==
  ASSUME NEW list, Tiles(list), NEW k \in 1 .. Len(list)
  PROVE  LET new == ReplaceAt(list, k, [list[k] EXCEPT !.free = TRUE]) IN
         /\ Tiles(new) /\ EndOf(new[Len(new)]) = EndOf(list[Len(list)])
         /\ \A p, n : Holds(new, p, n) <=> Holds(list, p, n) /\ p # list[k].at + Header
<1> DEFINE b == [list[k] EXCEPT !.free = TRUE]
           new == ReplaceAt(list, k, b)
<1>1. /\ list \in Seq(Blocks) /\ Len(list) \in Nat /\ Len(list) >= 1
      /\ list[1].at = 0 /\ \A i \in 1 .. Len(list) - 1 : list[i + 1].at = EndOf(list[i])
  BY LenProperties DEF Tiles
<1>2. list[k] \in Blocks
  BY BlockOf
<1>3. b \in Blocks /\ b.at = list[k].at /\ b.size = list[k].size /\ b.free
  BY <1>2 DEF Blocks
<1> HIDE DEF b
<1>4. /\ new \in Seq(Blocks) /\ Len(new) = Len(list)
      /\ \A i \in 1 .. Len(list) : new[i] = IF i = k THEN b ELSE list[i]
  BY <1>1, <1>3, ExceptSeq DEF ReplaceAt
<1> HIDE DEF new
<1>5. \A i \in 1 .. Len(list) : new[i].at = list[i].at /\ EndOf(new[i]) = EndOf(list[i])
  BY <1>3, <1>4 DEF EndOf
<1>6. Tiles(new) /\ EndOf(new[Len(new)]) = EndOf(list[Len(list)])
  <2>1. \A i \in 1 .. Len(list) - 1 : i \in 1 .. Len(list) /\ i + 1 \in 1 .. Len(list)
    BY <1>1
  <2>2. 1 \in 1 .. Len(list) /\ Len(list) \in 1 .. Len(list)
    BY <1>1
  <2>3. \A i \in 1 .. Len(list) - 1 : new[i + 1].at = EndOf(new[i])
    BY <1>1, <1>5, <2>1
  <2>4. QED
    BY <1>1, <1>4, <1>5, <2>2, <2>3 DEF Tiles
<1>7. ASSUME NEW p, NEW n
      PROVE  Holds(new, p, n) <=> Holds(list, p, n) /\ p # list[k].at + Header
  <2>1. ASSUME Holds(new, p, n) PROVE Holds(list, p, n) /\ p # list[k].at + Header
    <3>1. PICK i \in 1 .. Len(list) :
            ~ new[i].free /\ new[i].at + Header = p /\ new[i].size = n
      BY <1>4, <2>1 DEF Holds, HoldsUpto
    <3>2. i # k /\ new[i] = list[i]
      BY <1>3, <1>4, <3>1
    <3>3. list[i].at + Header # list[k].at + Header
      BY <3>2, TilesApart
    <3>4. QED
      BY <3>1, <3>2, <3>3 DEF Holds, HoldsUpto
  <2>2. ASSUME Holds(list, p, n), p # list[k].at + Header PROVE Holds(new, p, n)
    <3>1. PICK i \in 1 .. Len(list) :
            ~ list[i].free /\ list[i].at + Header = p /\ list[i].size = n
      BY <2>2 DEF Holds, HoldsUpto
    <3>2. i # k /\ new[i] = list[i]
      BY <1>4, <2>2, <3>1
    <3>3. QED
      BY <1>4, <3>1, <3>2 DEF Holds, HoldsUpto
  <2>3. QED
    BY <2>1, <2>2
<1>8. QED
  BY <1>6, <1>7 DEF new, b

LEMMA IndexIs ==
  ASSUME NEW list, Tiles(list), NEW p, NEW n, Holds(list, p, n)
  PROVE  /\ Index(list, p) \in 1 .. Len(list)
         /\ list[Index(list, p)].at + Header = p
         /\ list[Index(list, p)].size = n /\ ~ list[Index(list, p)].free
<1>1. DOMAIN list = 1 .. Len(list)
  BY LenProperties DEF Tiles
<1>2. PICK i \in 1 .. Len(list) :
        ~ list[i].free /\ list[i].at + Header = p /\ list[i].size = n
  BY DEF Holds, HoldsUpto
<1>3. Index(list, p) \in 1 .. Len(list) /\ list[Index(list, p)].at + Header = p
  BY <1>1, <1>2 DEF Index
<1>4. Index(list, p) = i
  BY <1>2, <1>3, TilesApart
<1>5. QED
  BY <1>2, <1>3, <1>4

LEMMA ReleasedTiles ==
  ASSUME NEW list, Tiles(list), NEW p, NEW n, Holds(list, p, n)
  PROVE  /\ Tiles(Released(list, p))
         /\ EndOf(Released(list, p)[Len(Released(list, p))]) = EndOf(list[Len(list)])
         /\ \A q, k : Holds(Released(list, p), q, k) <=> Holds(list, q, k) /\ q # p
<1> DEFINE k == Index(list, p)
           marked == ReplaceAt(list, k, [list[k] EXCEPT !.free = TRUE])
<1>1. k \in 1 .. Len(list) /\ list[k].at + Header = p
  BY IndexIs
<1>2. Released(list, p) = Merged(marked)
  BY DEF Released
<1> HIDE DEF k
<1>3. /\ Tiles(marked) /\ EndOf(marked[Len(marked)]) = EndOf(list[Len(list)])
      /\ \A q, m : Holds(marked, q, m) <=> Holds(list, q, m) /\ q # p
  BY <1>1, FreedTiles
<1> HIDE DEF marked
<1>4. /\ Tiles(Merged(marked))
      /\ EndOf(Merged(marked)[Len(Merged(marked))]) = EndOf(marked[Len(marked)])
      /\ \A q, m : Holds(Merged(marked), q, m) <=> Holds(marked, q, m)
  BY <1>3, MergedTiles
<1>5. QED
  BY <1>2, <1>3, <1>4

(* Rounding up.                                                            *)
LEMMA UpIs ==
  ASSUME NEW size \in Nat
  PROVE  Up(size) \in Nat /\ Up(size) >= size
<1> DEFINE x == size + Align - 1
           d == x \div Align
           r == x % Align
<1>1. Align \in Nat /\ Align > 0 /\ x \in Nat
  BY HeapConstants
<1>2. d \in Nat /\ r \in 0 .. Align - 1 /\ x = d * Align + r
  <2> HIDE DEF x
  <2> QED BY <1>1
<1>3. Up(size) = d * Align
  BY DEF Up
<1>4. d * Align = size + Align - 1 - r
  <2>1. d * Align \in Nat
    <3> HIDE DEF d, x
    <3> QED BY <1>1, <1>2
  <2> HIDE DEF d, r
  <2>2. QED
    BY <1>1, <1>2, <2>1
<1> HIDE DEF d, r
<1>5. QED
  BY <1>1, <1>2, <1>3, <1>4

(* A list with e between its i-th element and the next.                      *)
LEMMA InsertedIs ==
  ASSUME NEW S, NEW s \in Seq(S), NEW i \in 1 .. Len(s), NEW e \in S
  PROVE  /\ InsertAt(s, i + 1, e) \in Seq(S)
         /\ Len(InsertAt(s, i + 1, e)) = Len(s) + 1
         /\ \A j \in 1 .. Len(s) + 1 :
              InsertAt(s, i + 1, e)[j] =
                IF j <= i THEN s[j] ELSE IF j = i + 1 THEN e ELSE s[j - 1]
<1> DEFINE m == Len(s)
           head == SubSeq(s, 1, i)
           tail == SubSeq(s, i + 1, m)
<1>1. m \in Nat /\ i \in Nat /\ i <= m
  BY LenProperties
<1>2. head \in Seq(S) /\ Len(head) = i /\ \A j \in 1 .. i : head[j] = s[j]
  BY <1>1, FirstPiece
<1>3. tail \in Seq(S) /\ Len(tail) = m - i /\ \A j \in 1 .. m - i : tail[j] = s[i + j]
  BY <1>1, Piece
<1>4. InsertAt(s, i + 1, e) = (head \o <<e>>) \o tail
  <2>1. (i + 1) - 1 = i
    BY <1>1
  <2>2. QED
    BY <2>1 DEF InsertAt
<1> HIDE DEF head, tail
<1>5. <<e>> \in Seq(S) /\ Len(<<e>>) = 1 /\ <<e>>[1] = e
  OBVIOUS
<1>6. /\ head \o <<e>> \in Seq(S) /\ Len(head \o <<e>>) = i + 1
      /\ \A j \in 1 .. i + 1 : (head \o <<e>>)[j] = IF j <= i THEN s[j] ELSE e
  <2>1. /\ head \o <<e>> \in Seq(S) /\ Len(head \o <<e>>) = Len(head) + Len(<<e>>)
        /\ \A j \in 1 .. Len(head) + Len(<<e>>) :
             (head \o <<e>>)[j] = IF j <= Len(head) THEN head[j]
                                  ELSE <<e>>[j - Len(head)]
    BY <1>2, <1>5, ConcatProperties
  <2>2. \A j \in 1 .. i + 1 : j <= i \/ j - i = 1
    BY <1>1
  <2>3. QED
    BY <1>1, <1>2, <1>5, <2>1, <2>2
<1> DEFINE front == head \o <<e>>
<1> HIDE DEF front, m
<1>7. /\ front \o tail \in Seq(S) /\ Len(front \o tail) = m + 1
      /\ \A j \in 1 .. m + 1 :
           (front \o tail)[j] = IF j <= i + 1 THEN front[j] ELSE tail[j - (i + 1)]
  <2>1. front \in Seq(S) /\ Len(front) = i + 1 /\ tail \in Seq(S)
        /\ Len(tail) = m - i
    BY <1>3, <1>6 DEF front
  <2>2. /\ front \o tail \in Seq(S) /\ Len(front \o tail) = Len(front) + Len(tail)
        /\ \A j \in 1 .. Len(front) + Len(tail) :
             (front \o tail)[j] = IF j <= Len(front) THEN front[j]
                                  ELSE tail[j - Len(front)]
    BY <2>1, ConcatProperties
  <2>3. (i + 1) + (m - i) = m + 1
    BY <1>1
  <2>4. QED
    BY <2>1, <2>2, <2>3
<1>8. ASSUME NEW j \in 1 .. m + 1
      PROVE  (front \o tail)[j] =
               IF j <= i THEN s[j] ELSE IF j = i + 1 THEN e ELSE s[j - 1]
  <2>1. CASE j <= i + 1
    <3>1. (front \o tail)[j] = front[j] /\ j \in 1 .. i + 1
      BY <1>1, <1>7, <2>1
    <3>2. front[j] = IF j <= i THEN s[j] ELSE e
      BY <1>6, <3>1 DEF front
    <3>3. ~ (j <= i) => j = i + 1
      BY <1>1, <2>1
    <3>4. QED
      BY <3>1, <3>2, <3>3
  <2>2. CASE ~ (j <= i + 1)
    <3>1. j - (i + 1) \in 1 .. m - i /\ i + (j - (i + 1)) = j - 1
          /\ ~ (j <= i) /\ j # i + 1
      BY <1>1, <2>2
    <3>2. (front \o tail)[j] = tail[j - (i + 1)]
      BY <1>7, <2>2
    <3>3. tail[j - (i + 1)] = s[j - 1]
      BY <1>3, <3>1
    <3>4. QED
      BY <3>1, <3>2, <3>3
  <2>3. QED
    BY <2>1, <2>2
<1>9. InsertAt(s, i + 1, e) = front \o tail
  BY <1>4 DEF front
<1> DEFINE x == InsertAt(s, i + 1, e)
<1>10. x \in Seq(S) /\ Len(x) = m + 1
  BY <1>7, <1>9
<1>11. ASSUME NEW j \in 1 .. m + 1
       PROVE  x[j] = IF j <= i THEN s[j] ELSE IF j = i + 1 THEN e ELSE s[j - 1]
  BY <1>8, <1>9
<1> HIDE DEF x
<1>12. \A j \in 1 .. Len(s) + 1 :
         x[j] = IF j <= i THEN s[j] ELSE IF j = i + 1 THEN e ELSE s[j - 1]
  BY <1>11 DEF m
<1>13. QED
  BY <1>10, <1>12 DEF m, x

(* Block i is taken for size bytes: it is held then, with n bytes.             *)
Taken(list, i, new, n) ==
  /\ Tiles(new) /\ EndOf(new[Len(new)]) = EndOf(list[Len(list)])
  /\ \A p, k : Holds(new, p, k) <=>
                Holds(list, p, k) \/ (p = list[i].at + Header /\ k = n)

LEMMA WholeTaken ==
  ASSUME NEW list, Tiles(list), NEW i \in 1 .. Len(list), list[i].free
  PROVE  Taken(list, i,
               ReplaceAt(list, i, Block(list[i].at, list[i].size, FALSE)), list[i].size)
<1> DEFINE b == Block(list[i].at, list[i].size, FALSE)
           new == ReplaceAt(list, i, b)
<1>1. /\ list \in Seq(Blocks) /\ Len(list) \in Nat /\ Len(list) >= 1
      /\ list[1].at = 0 /\ \A j \in 1 .. Len(list) - 1 : list[j + 1].at = EndOf(list[j])
  BY LenProperties DEF Tiles
<1>2. list[i].at \in Nat /\ list[i].size \in Nat
  BY BlockOf
<1>3. b \in Blocks /\ b.at = list[i].at /\ b.size = list[i].size /\ ~ b.free
  BY <1>2 DEF Blocks, Block
<1> HIDE DEF b
<1>4. /\ new \in Seq(Blocks) /\ Len(new) = Len(list)
      /\ \A j \in 1 .. Len(list) : new[j] = IF j = i THEN b ELSE list[j]
  BY <1>1, <1>3, ExceptSeq DEF ReplaceAt
<1> HIDE DEF new
<1>5. \A j \in 1 .. Len(list) : new[j].at = list[j].at /\ EndOf(new[j]) = EndOf(list[j])
  BY <1>3, <1>4 DEF EndOf
<1>6. Tiles(new) /\ EndOf(new[Len(new)]) = EndOf(list[Len(list)])
  <2>1. \A j \in 1 .. Len(list) - 1 : j \in 1 .. Len(list) /\ j + 1 \in 1 .. Len(list)
    BY <1>1
  <2>2. 1 \in 1 .. Len(list) /\ Len(list) \in 1 .. Len(list)
    BY <1>1
  <2>3. \A j \in 1 .. Len(list) - 1 : new[j + 1].at = EndOf(new[j])
    BY <1>1, <1>5, <2>1
  <2>4. QED
    BY <1>1, <1>4, <1>5, <2>2, <2>3 DEF Tiles
<1>7. ASSUME NEW p, NEW k
      PROVE  Holds(new, p, k) <=>
               Holds(list, p, k) \/ (p = list[i].at + Header /\ k = list[i].size)
  <2>1. ASSUME Holds(new, p, k)
        PROVE  Holds(list, p, k) \/ (p = list[i].at + Header /\ k = list[i].size)
    <3>1. PICK j \in 1 .. Len(list) :
            ~ new[j].free /\ new[j].at + Header = p /\ new[j].size = k
      BY <1>4, <2>1 DEF Holds, HoldsUpto
    <3>2. new[j] = IF j = i THEN b ELSE list[j]
      BY <1>4
    <3>3. QED
      BY <1>3, <3>1, <3>2 DEF Holds, HoldsUpto
  <2>2. ASSUME Holds(list, p, k) PROVE Holds(new, p, k)
    <3>1. PICK j \in 1 .. Len(list) :
            ~ list[j].free /\ list[j].at + Header = p /\ list[j].size = k
      BY <2>2 DEF Holds, HoldsUpto
    <3>2. new[j] = list[j]
      BY <1>4, <3>1
    <3>3. QED
      BY <1>4, <3>1, <3>2 DEF Holds, HoldsUpto
  <2>3. ASSUME p = list[i].at + Header, k = list[i].size PROVE Holds(new, p, k)
    <3>1. ~ new[i].free /\ new[i].at + Header = p /\ new[i].size = k
      BY <1>3, <1>4, <2>3
    <3>2. QED
      BY <1>4, <3>1 DEF Holds, HoldsUpto
  <2>4. QED
    BY <2>1, <2>2, <2>3
<1>8. QED
  BY <1>6, <1>7 DEF new, b, Taken

LEMMA PartTaken ==
  ASSUME NEW list, Tiles(list), NEW i \in 1 .. Len(list), list[i].free,
         NEW n \in Nat, n + Header <= list[i].size
  PROVE  LET rest == Block(list[i].at + Header + n, list[i].size - n - Header, TRUE)
         IN Taken(list, i, ReplaceAt(InsertAt(list, i + 1, rest), i,
                                     Block(list[i].at, n, FALSE)), n)
<1> DEFINE rest == Block(list[i].at + Header + n, list[i].size - n - Header, TRUE)
           b == Block(list[i].at, n, FALSE)
           both == InsertAt(list, i + 1, rest)
           new == ReplaceAt(both, i, b)
           m == Len(list)
<1>1. /\ list \in Seq(Blocks) /\ m \in Nat /\ m >= 1 /\ i \in 1 .. m
      /\ list[1].at = 0 /\ \A j \in 1 .. m - 1 : list[j + 1].at = EndOf(list[j])
  BY LenProperties DEF Tiles
<1>2. list[i].at \in Nat /\ list[i].size \in Nat /\ Header \in Nat
  BY BlockOf, HeapConstants
<1>3. b \in Blocks /\ b.at = list[i].at /\ b.size = n /\ ~ b.free
  BY <1>2 DEF Blocks, Block
<1>4. /\ rest \in Blocks /\ rest.at = EndOf(b) /\ EndOf(rest) = EndOf(list[i])
      /\ rest.free
  <2>1. list[i].at + Header + n \in Nat /\ list[i].size - n - Header \in Nat
    BY <1>2
  <2>2. /\ rest \in Blocks /\ rest.at = list[i].at + Header + n
        /\ rest.size = list[i].size - n - Header /\ rest.free
    BY <2>1 DEF Blocks, Block
  <2>3. rest.at = EndOf(b)
    BY <1>3, <2>2 DEF EndOf
  <2>4. EndOf(rest) = EndOf(list[i])
    <3>1. /\ EndOf(rest) = (list[i].at + Header + n) + Header
                              + (list[i].size - n - Header)
          /\ EndOf(list[i]) = list[i].at + Header + list[i].size
      BY <2>2 DEF EndOf
    <3> DEFINE a == list[i].at
               s == list[i].size
    <3>2. a \in Nat /\ s \in Nat /\ Header \in Nat
      BY <1>2
    <3> HIDE DEF rest, a, s
    <3>3. (a + Header + n) + Header + (s - n - Header) = a + Header + s
      BY <3>2
    <3>4. QED
      BY <3>1, <3>3 DEF a, s
  <2>5. QED
    BY <2>2, <2>3, <2>4
<1> HIDE DEF b, rest
<1>5. /\ both \in Seq(Blocks) /\ Len(both) = m + 1
      /\ \A j \in 1 .. m + 1 :
           both[j] = IF j <= i THEN list[j] ELSE IF j = i + 1 THEN rest ELSE list[j - 1]
  BY <1>1, <1>4, InsertedIs
<1> HIDE DEF both
<1>6. /\ new \in Seq(Blocks) /\ Len(new) = m + 1
      /\ \A j \in 1 .. m + 1 : new[j] = IF j = i THEN b ELSE both[j]
  <2>1. i \in 1 .. Len(both)
    BY <1>1, <1>5
  <2>2. QED
    BY <1>3, <1>5, <2>1, ExceptSeq DEF ReplaceAt
<1> HIDE DEF new, m
<1>7. /\ \A j \in 1 .. m + 1 : j < i => new[j] = list[j]
      /\ new[i] = b /\ new[i + 1] = rest
      /\ \A j \in 1 .. m + 1 : j > i + 1 => new[j] = list[j - 1]
  <2>1. i \in Nat /\ i \in 1 .. m + 1 /\ i + 1 \in 1 .. m + 1 /\ i + 1 # i
        /\ ~ (i + 1 <= i)
    BY <1>1
  <2>2. \A j \in 1 .. m + 1 : /\ j < i => j <= i /\ j # i
                             /\ j > i + 1 => ~ (j <= i) /\ j # i /\ j # i + 1
    BY <2>1
  <2>3. new[i] = b /\ new[i + 1] = rest
    BY <1>5, <1>6, <2>1
  <2>4. ASSUME NEW j \in 1 .. m + 1, j < i PROVE new[j] = list[j]
    BY <1>5, <1>6, <2>2, <2>4
  <2>5. ASSUME NEW j \in 1 .. m + 1, j > i + 1 PROVE new[j] = list[j - 1]
    BY <1>5, <1>6, <2>2, <2>5
  <2>6. QED
    BY <2>3, <2>4, <2>5
<1>8. ASSUME NEW j \in 1 .. m PROVE new[j + 1].at = EndOf(new[j])
  <2>1. CASE j + 1 < i
    <3>1. j \in 1 .. m - 1 /\ j \in 1 .. m + 1 /\ j + 1 \in 1 .. m + 1 /\ j < i
      BY <1>1, <2>1
    <3>2. new[j] = list[j] /\ new[j + 1] = list[j + 1]
      BY <1>7, <2>1, <3>1
    <3>3. QED
      BY <1>1, <3>1, <3>2
  <2>2. CASE j + 1 = i
    <3>1. j \in 1 .. m - 1 /\ j \in 1 .. m + 1 /\ j < i
      BY <1>1, <2>2
    <3>2. new[j] = list[j] /\ new[j + 1] = b
      BY <1>7, <2>2, <3>1
    <3>3. list[j + 1].at = EndOf(list[j])
      BY <1>1, <3>1
    <3>4. QED
      BY <1>3, <2>2, <3>2, <3>3
  <2>3. CASE j = i
    BY <1>4, <1>7, <2>3
  <2>4. CASE j = i + 1
    <3>1. i \in 1 .. m - 1 /\ j + 1 \in 1 .. m + 1 /\ j + 1 > i + 1 /\ (j + 1) - 1 = i + 1
      BY <1>1, <2>4
    <3>2. new[j] = rest /\ new[j + 1] = list[i + 1]
      BY <1>7, <2>4, <3>1
    <3>3. list[i + 1].at = EndOf(list[i])
      BY <1>1, <3>1
    <3>4. QED
      BY <1>4, <3>2, <3>3
  <2>5. CASE j > i + 1
    <3>1. /\ j - 1 \in 1 .. m - 1 /\ j \in 1 .. m + 1 /\ j + 1 \in 1 .. m + 1
          /\ j + 1 > i + 1 /\ (j + 1) - 1 = j /\ (j - 1) + 1 = j
      <4>1. m \in Nat /\ i \in Nat /\ i >= 1
        BY <1>1
      <4>2. QED
        BY <2>5, <4>1
    <3>2. new[j] = list[j - 1] /\ new[j + 1] = list[j]
      BY <1>7, <2>5, <3>1
    <3>3. list[(j - 1) + 1].at = EndOf(list[j - 1])
      BY <1>1, <3>1
    <3>4. QED
      BY <3>1, <3>2, <3>3
  <2>6. QED
    <3>1. j + 1 < i \/ j + 1 = i \/ j = i \/ j = i + 1 \/ j > i + 1
      BY <1>1
    <3>2. QED
      BY <2>1, <2>2, <2>3, <2>4, <2>5, <3>1
<1>9. Tiles(new)
  <2>1. new[1].at = 0
    <3>1. CASE i = 1
      BY <1>1, <1>3, <1>7, <3>1
    <3>2. CASE i # 1
      <4>1. 1 \in 1 .. m + 1 /\ 1 < i
        BY <1>1, <3>2
      <4>2. QED
        BY <1>1, <1>7, <4>1
    <3>3. QED
      BY <3>1, <3>2
  <2>2. Len(new) >= 1 /\ Len(new) - 1 = m
    BY <1>1, <1>6
  <2>3. QED
    BY <1>6, <1>8, <2>1, <2>2 DEF Tiles
<1>10. EndOf(new[Len(new)]) = EndOf(list[m])
  <2>1. CASE i = m
    BY <1>4, <1>6, <1>7, <2>1
  <2>2. CASE i # m
    <3>1. m + 1 > i + 1 /\ m + 1 \in 1 .. m + 1 /\ (m + 1) - 1 = m
      BY <1>1, <2>2
    <3>2. QED
      BY <1>6, <1>7, <3>1
  <2>3. QED
    BY <2>1, <2>2
<1>11. ASSUME NEW p, NEW k
       PROVE  Holds(new, p, k) <=>
                Holds(list, p, k) \/ (p = list[i].at + Header /\ k = n)
  <2>1. ASSUME Holds(new, p, k)
        PROVE  Holds(list, p, k) \/ (p = list[i].at + Header /\ k = n)
    <3>1. PICK j \in 1 .. m + 1 :
            ~ new[j].free /\ new[j].at + Header = p /\ new[j].size = k
      BY <1>6, <2>1 DEF Holds, HoldsUpto
    <3>2. CASE j < i
      <4>1. j \in 1 .. m /\ new[j] = list[j]
        BY <1>1, <1>7, <3>2
      <4>2. QED
        BY <3>1, <4>1 DEF Holds, HoldsUpto, m
    <3>3. CASE j = i
      BY <1>3, <1>7, <3>1, <3>3
    <3>4. CASE j = i + 1
      BY <1>4, <1>7, <3>1, <3>4
    <3>5. CASE j > i + 1
      <4>1. j - 1 \in 1 .. m /\ new[j] = list[j - 1]
        BY <1>1, <1>7, <3>5
      <4>2. QED
        BY <3>1, <4>1 DEF Holds, HoldsUpto, m
    <3>6. j < i \/ j = i \/ j = i + 1 \/ j > i + 1
      BY <1>1
    <3>7. QED
      BY <3>2, <3>3, <3>4, <3>5, <3>6
  <2>2. ASSUME Holds(list, p, k) PROVE Holds(new, p, k)
    <3>1. PICK j \in 1 .. m :
            ~ list[j].free /\ list[j].at + Header = p /\ list[j].size = k
      BY <2>2 DEF Holds, HoldsUpto, m
    <3>2. j # i
      BY <3>1
    <3>3. CASE j < i
      <4>1. j \in 1 .. m + 1 /\ new[j] = list[j]
        BY <1>1, <1>7, <3>3
      <4>2. QED
        BY <1>6, <3>1, <4>1 DEF Holds, HoldsUpto
    <3>4. CASE j > i
      <4>1. j + 1 \in 1 .. m + 1 /\ j + 1 > i + 1 /\ (j + 1) - 1 = j
        BY <1>1, <3>4
      <4>2. new[j + 1] = list[j]
        BY <1>7, <4>1
      <4>3. QED
        BY <1>6, <3>1, <4>1, <4>2 DEF Holds, HoldsUpto
    <3>5. QED
      BY <1>1, <3>2, <3>3, <3>4
  <2>3. ASSUME p = list[i].at + Header, k = n PROVE Holds(new, p, k)
    <3>1. i \in 1 .. m + 1 /\ ~ new[i].free /\ new[i].at + Header = p /\ new[i].size = k
      BY <1>1, <1>3, <1>7, <2>3
    <3>2. QED
      BY <1>6, <3>1 DEF Holds, HoldsUpto
  <2>4. QED
    BY <2>1, <2>2, <2>3
<1>12. QED
  BY <1>9, <1>10, <1>11 DEF new, both, rest, b, m, Taken

LEMMA FoundIs ==
  ASSUME NEW list, Tiles(list), NEW size, Found(list, size) # 0
  PROVE  /\ Found(list, size) \in 1 .. Len(list)
         /\ list[Found(list, size)].free /\ list[Found(list, size)].size >= Up(size)
<1> DEFINE fits == {i \in DOMAIN list : list[i].free /\ list[i].size >= Up(size)}
<1>1. DOMAIN list = 1 .. Len(list) /\ Len(list) \in Nat
  BY LenProperties DEF Tiles
<1>2. fits # {} /\ Found(list, size) = CHOOSE i \in fits : \A j \in fits : i <= j
  BY DEF Found
<1>3. fits \in SUBSET Nat
  BY <1>1
<1>4. \E i \in fits : \A j \in fits : i <= j
  <2> HIDE DEF fits
  <2> QED BY <1>2, <1>3, LeastIn
<1>5. Found(list, size) \in fits
  <2> HIDE DEF fits
  <2> QED BY <1>2, <1>4
<1>6. QED
  BY <1>1, <1>5

LEMMA TakeTiles ==
  ASSUME NEW list, Tiles(list), NEW i \in 1 .. Len(list), list[i].free,
         NEW size \in Nat, list[i].size >= Up(size)
  PROVE  \E n \in Nat : n >= size /\ Taken(list, i, Take(list, i, size), n)
<1>1. Up(size) \in Nat /\ Up(size) >= size
  BY UpIs
<1>2. list[i].at \in Nat /\ list[i].size \in Nat
  BY BlockOf
<1>3. CASE list[i].size > Up(size) + Header + Align
  <2>1. Up(size) + Header <= list[i].size
    BY <1>1, <1>2, <1>3, HeapConstants
  <2> DEFINE rest == Block(list[i].at + Header + Up(size),
                           list[i].size - Up(size) - Header, TRUE)
             new == ReplaceAt(InsertAt(list, i + 1, rest), i,
                              Block(list[i].at, Up(size), FALSE))
  <2>2. Taken(list, i, new, Up(size))
    BY <1>1, <2>1, PartTaken
  <2>3. Take(list, i, size) = new
    BY <1>3 DEF Take
  <2> HIDE DEF new
  <2>4. QED
    BY <1>1, <2>2, <2>3
<1>4. CASE ~ (list[i].size > Up(size) + Header + Align)
  <2> DEFINE new == ReplaceAt(list, i, Block(list[i].at, list[i].size, FALSE))
  <2>1. Taken(list, i, new, list[i].size)
    BY WholeTaken
  <2>2. Take(list, i, size) = new
    BY <1>4 DEF Take
  <2>3. list[i].size >= size
    BY <1>1, <1>2
  <2> HIDE DEF new
  <2>4. QED
    BY <1>2, <2>1, <2>2, <2>3
<1>5. QED
  BY <1>3, <1>4

-----------------------------------------------------------------------------
(* The pointers are those of the blocks in use, each as large as was asked.    *)
Backed(list, pointers) ==
  /\ DOMAIN pointers =
       {list[i].at + Header : i \in {j \in 1 .. Len(list) : ~ list[j].free}}
  /\ \A i \in 1 .. Len(list) :
       ~ list[i].free => /\ pointers[list[i].at + Header] \in Requests
                         /\ pointers[list[i].at + Header] <= list[i].size

(* The list fills the array.                                               *)
Fills(list) == Tiles(list) /\ EndOf(list[Len(list)]) = HEAP_SIZE

(* The inductive invariant.                                                *)
HeapInv == (blocks = <<>> \/ Fills(blocks)) /\ Backed(blocks, live)

LEMMA HeapStep == [UserNext]_userVars => [Next]_vars
BY DEF UserNext, userVars, Carried, vars

LEMMA BackedMeans ==
  ASSUME NEW list, NEW pointers
  PROVE  Backed(list, pointers) <=>
           /\ \A p : p \in DOMAIN pointers <=> \E n : Holds(list, p, n)
           /\ \A p, n : Holds(list, p, n) => pointers[p] \in Requests /\ pointers[p] <= n
<1> DEFINE D == {list[i].at + Header : i \in {j \in 1 .. Len(list) : ~ list[j].free}}
<1>1. \A p : p \in D <=> \E n : Holds(list, p, n)
  BY DEF Holds, HoldsUpto
<1> HIDE DEF D
<1>2. DOMAIN pointers = D <=> \A p : p \in DOMAIN pointers <=> \E n : Holds(list, p, n)
  BY <1>1
<1>3. (\A i \in 1 .. Len(list) :
         ~ list[i].free => /\ pointers[list[i].at + Header] \in Requests
                           /\ pointers[list[i].at + Header] <= list[i].size)
      <=> \A p, n : Holds(list, p, n) => pointers[p] \in Requests /\ pointers[p] <= n
  BY DEF Holds, HoldsUpto
<1>4. QED
  BY <1>2, <1>3 DEF Backed, D

LEMMA HeapInvImplies == HeapInv => HeapSound
<1> SUFFICES ASSUME HeapInv PROVE HeapSound
  OBVIOUS
<1>1. Backed(blocks, live)
  BY DEF HeapInv
<1>2. CASE blocks = <<>>
  <2>1. Len(blocks) = 0 /\ DOMAIN blocks = {} /\ 1 .. Len(blocks) = {}
    BY <1>2
  <2>2. DOMAIN live = {}
    BY <1>1, <2>1 DEF Backed
  <2>3. QED
    BY <1>2, <2>1, <2>2 DEF HeapSound, TypeOK, BlocksTile, LiveBacked
<1>3. CASE Fills(blocks)
  <2>1. /\ Tiles(blocks) /\ EndOf(blocks[Len(blocks)]) = HEAP_SIZE
        /\ Len(blocks) \in Nat /\ DOMAIN blocks = 1 .. Len(blocks)
    BY <1>3, LenProperties DEF Fills, Tiles
  <2>2. ASSUME NEW i \in 1 .. Len(blocks)
        PROVE  /\ blocks[i].at \in 0 .. HEAP_SIZE - 1 /\ blocks[i].size \in 0 .. HEAP_SIZE
               /\ blocks[i].free \in BOOLEAN
               /\ blocks[i].at + Header \in 0 .. HEAP_SIZE
    <3>1. /\ blocks[i].at \in Nat /\ blocks[i].size \in Nat
          /\ blocks[i].free \in BOOLEAN
      BY <2>1, BlockOf
    <3>2. blocks[i].at + Header + blocks[i].size <= HEAP_SIZE
      <4>1. EndOf(blocks[i]) <= EndOf(blocks[Len(blocks)])
        BY <2>1, TilesApart
      <4>2. QED
        BY <2>1, <4>1 DEF EndOf
    <3>3. /\ blocks[i].at \in 0 .. HEAP_SIZE - 1 /\ blocks[i].size \in 0 .. HEAP_SIZE
          /\ blocks[i].at + Header \in 0 .. HEAP_SIZE
      BY <3>1, <3>2, HeapConstants
    <3>4. QED
      BY <3>1, <3>3
  <2>3. ASSUME NEW p \in DOMAIN live PROVE p \in 0 .. HEAP_SIZE /\ live[p] \in Requests
    <3>1. PICK i \in 1 .. Len(blocks) : ~ blocks[i].free /\ blocks[i].at + Header = p
      BY <1>1 DEF Backed
    <3>2. QED
      BY <1>1, <2>2, <3>1 DEF Backed
  <2>4. TypeOK
    BY <2>1, <2>2, <2>3 DEF TypeOK
  <2>5. BlocksTile
    <3>1. blocks[1].at = 0
      BY <2>1 DEF Tiles
    <3>2. \A i \in 1 .. Len(blocks) - 1 :
            blocks[i + 1].at = Pointer(i) + blocks[i].size
      BY <2>1 DEF Tiles, Pointer, EndOf
    <3>3. Pointer(Len(blocks)) + Last(blocks).size = HEAP_SIZE
      BY <2>1 DEF Pointer, Last, EndOf
    <3>4. QED
      BY <3>1, <3>2, <3>3 DEF BlocksTile
  <2>6. LiveBacked
    BY <1>1, <2>1 DEF LiveBacked, Backed, Pointer
  <2>7. QED
    BY <2>4, <2>5, <2>6 DEF HeapSound
<1>4. QED
  BY <1>2, <1>3 DEF HeapInv

LEMMA HeapInvInit == UserInit => HeapInv
<1> SUFFICES ASSUME UserInit PROVE HeapInv
  OBVIOUS
<1>1. blocks = <<>> /\ live = <<>>
  BY DEF UserInit, Init
<1>2. Len(blocks) = 0 /\ DOMAIN live = {} /\ 1 .. Len(blocks) = {}
  BY <1>1
<1>3. QED
  BY <1>1, <1>2 DEF HeapInv, Backed

LEMMA HeapReady ==
  ASSUME HeapInv
  PROVE  Fills(init_heap(blocks)) /\ Backed(init_heap(blocks), live)
<1>1. CASE blocks = <<>>
  <2> DEFINE b == Block(0, HEAP_SIZE - Header, TRUE)
  <2>1. HEAP_SIZE - Header \in Nat
    BY HeapConstants
  <2>2. b \in Blocks /\ b.at = 0 /\ b.size = HEAP_SIZE - Header /\ b.free
    BY <2>1 DEF Block, Blocks
  <2>3. EndOf(b) = HEAP_SIZE
    <3>1. EndOf(b) = 0 + Header + (HEAP_SIZE - Header)
      BY <2>2 DEF EndOf
    <3> HIDE DEF b
    <3>2. QED
      BY <3>1, HeapConstants
  <2> HIDE DEF b
  <2>4. init_heap(blocks) = <<b>>
    BY <1>1 DEF init_heap, b
  <2>5. Tiles(<<b>>) /\ Len(<<b>>) = 1 /\ <<b>>[1] = b
    BY <2>2, OneBlock
  <2>6. Len(blocks) = 0 /\ 1 .. Len(blocks) = {}
    BY <1>1
  <2>7. DOMAIN live = {}
    BY <2>6 DEF HeapInv, Backed
  <2>8. {j \in 1 .. Len(<<b>>) : ~ <<b>>[j].free} = {}
    BY <2>2, <2>5
  <2>9. Backed(<<b>>, live)
    BY <2>7, <2>8 DEF Backed
  <2>10. QED
    BY <2>3, <2>4, <2>5, <2>9 DEF Fills
<1>2. CASE blocks # <<>>
  BY <1>2 DEF HeapInv, init_heap
<1>3. QED
  BY <1>1, <1>2

(* A block that is taken is one of the program's.                            *)
LEMMA BackedByTake ==
  ASSUME NEW list, Fills(list), NEW pointers, Backed(list, pointers),
         NEW i \in 1 .. Len(list), list[i].free,
         NEW size \in Requests, list[i].size >= Up(size),
         NEW after,
         DOMAIN after = DOMAIN pointers \union {list[i].at + Header},
         \A q \in DOMAIN after :
           after[q] = IF q = list[i].at + Header THEN size ELSE pointers[q]
  PROVE  Fills(Take(list, i, size)) /\ Backed(Take(list, i, size), after)
<1> DEFINE p == list[i].at + Header
           new == Take(list, i, size)
<1>1. size \in Nat
  BY HeapConstants
<1>2. PICK n \in Nat : n >= size /\ Taken(list, i, new, n)
  BY <1>1, TakeTiles DEF Fills
<1>3. /\ Tiles(new) /\ EndOf(new[Len(new)]) = HEAP_SIZE
      /\ \A q, k : Holds(new, q, k) <=> Holds(list, q, k) \/ (q = p /\ k = n)
  BY <1>2 DEF Taken, Fills
<1>4. \A k : ~ Holds(list, p, k)
  <2> SUFFICES ASSUME NEW k, Holds(list, p, k) PROVE FALSE
    OBVIOUS
  <2>1. PICK j \in 1 .. Len(list) : ~ list[j].free /\ list[j].at + Header = p
    BY DEF Holds, HoldsUpto
  <2>2. j = i
    BY <2>1, TilesApart DEF Fills
  <2>3. QED
    BY <2>1, <2>2
<1> HIDE DEF new
<1>5. /\ \A q : q \in DOMAIN pointers <=> \E k : Holds(list, q, k)
      /\ \A q, k : Holds(list, q, k) => pointers[q] \in Requests /\ pointers[q] <= k
  BY BackedMeans
<1> HIDE DEF p
<1>6. /\ DOMAIN after = DOMAIN pointers \union {p}
      /\ \A q \in DOMAIN after : after[q] = IF q = p THEN size ELSE pointers[q]
  BY DEF p
<1>7. \A q : q \in DOMAIN after <=> \E k : Holds(new, q, k)
  BY <1>3, <1>5, <1>6
<1>8. ASSUME NEW q, NEW k, Holds(new, q, k)
      PROVE  after[q] \in Requests /\ after[q] <= k
  <2>1. q \in DOMAIN after
    BY <1>7, <1>8
  <2>2. CASE q = p
    <3>1. after[q] = size /\ k = n
      BY <1>3, <1>4, <1>6, <1>8, <2>1, <2>2
    <3>2. QED
      BY <1>1, <1>2, <3>1
  <2>3. CASE q # p
    <3>1. after[q] = pointers[q] /\ Holds(list, q, k)
      BY <1>3, <1>6, <1>8, <2>1, <2>3
    <3>2. QED
      BY <1>5, <3>1
  <2>4. QED
    BY <2>2, <2>3
<1>9. Backed(new, after)
  BY <1>7, <1>8, BackedMeans
<1>10. QED
  BY <1>3, <1>9 DEF Fills, new

(* A block that is freed is not.                                            *)
LEMMA BackedByRelease ==
  ASSUME NEW list, Fills(list), NEW pointers, Backed(list, pointers),
         NEW p \in DOMAIN pointers
  PROVE  /\ Fills(Released(list, p))
         /\ Backed(Released(list, p), Without(pointers, p))
<1> DEFINE new == Released(list, p)
           after == Without(pointers, p)
<1>1. /\ \A q : q \in DOMAIN pointers <=> \E k : Holds(list, q, k)
      /\ \A q, k : Holds(list, q, k) => pointers[q] \in Requests /\ pointers[q] <= k
  BY BackedMeans
<1>2. PICK n : Holds(list, p, n)
  BY <1>1
<1>3. /\ Tiles(new) /\ EndOf(new[Len(new)]) = HEAP_SIZE
      /\ \A q, k : Holds(new, q, k) <=> Holds(list, q, k) /\ q # p
  BY <1>2, ReleasedTiles DEF Fills
<1> HIDE DEF new
<1>4. /\ DOMAIN after = DOMAIN pointers \ {p}
      /\ \A q \in DOMAIN after : after[q] = pointers[q]
  BY DEF Without
<1> HIDE DEF after
<1>5. \A q : q \in DOMAIN after <=> \E k : Holds(new, q, k)
  BY <1>1, <1>3, <1>4
<1>6. \A q, k : Holds(new, q, k) => after[q] \in Requests /\ after[q] <= k
  BY <1>1, <1>3, <1>4, <1>5
<1>7. Backed(new, after)
  BY <1>5, <1>6, BackedMeans
<1>8. QED
  BY <1>3, <1>7 DEF Fills, new, after

LEMMA HeapInvNext == HeapInv /\ [Next]_vars => HeapInv'
<1> SUFFICES ASSUME HeapInv, [Next]_vars PROVE HeapInv'
  OBVIOUS
<1>1. ASSUME NEW p \in DOMAIN live PROVE Fills(blocks) /\ Backed(blocks, live)
  <2>1. Backed(blocks, live) /\ (blocks = <<>> \/ Fills(blocks))
    BY DEF HeapInv
  <2>2. blocks # <<>>
    <3> SUFFICES ASSUME blocks = <<>> PROVE FALSE
      OBVIOUS
    <3>1. Len(blocks) = 0 /\ 1 .. Len(blocks) = {}
      OBVIOUS
    <3>2. QED
      BY <2>1, <3>1 DEF Backed
  <2>3. QED
    BY <2>1, <2>2
<1>2. ASSUME NEW list, Fills(list), NEW pointers, Backed(list, pointers),
             blocks' = list, live' = pointers
      PROVE  HeapInv'
  BY <1>2 DEF HeapInv
<1>3. ASSUME NEW size \in Requests, malloc(size) PROVE HeapInv'
  <2> DEFINE list == init_heap(blocks)
             i == Found(list, size)
             p == list[i].at + Header
  <2>1. Fills(list) /\ Backed(list, live)
    BY HeapReady
  <2>2. CASE i = 0
    <3>1. blocks' = list /\ live' = live
      BY <1>3, <2>2 DEF malloc
    <3> HIDE DEF list
    <3>2. QED
      BY <1>2, <2>1, <3>1
  <2>3. CASE i # 0
    <3>1. blocks' = Take(list, i, size) /\ live' = With(p, size)
      BY <1>3, <2>3 DEF malloc
    <3> HIDE DEF list
    <3>2. i \in 1 .. Len(list) /\ list[i].free /\ list[i].size >= Up(size)
      BY <2>1, <2>3, FoundIs DEF Fills
    <3> HIDE DEF i
    <3>3. /\ DOMAIN With(p, size) = DOMAIN live \union {p}
          /\ \A q \in DOMAIN With(p, size) :
               With(p, size)[q] = IF q = p THEN size ELSE live[q]
      BY DEF With
    <3>4. Fills(Take(list, i, size)) /\ Backed(Take(list, i, size), With(p, size))
      BY <2>1, <3>2, <3>3, BackedByTake
    <3>5. QED
      BY <1>2, <3>1, <3>4
  <2>4. QED
    BY <2>2, <2>3
<1>4. ASSUME NEW p \in DOMAIN live, free(p) PROVE HeapInv'
  <2>1. /\ Fills(Released(blocks, p))
        /\ Backed(Released(blocks, p), Without(live, p))
    BY <1>1, BackedByRelease
  <2>2. QED
    BY <1>2, <1>4, <2>1 DEF free
<1>5. ASSUME NEW p \in DOMAIN live, NEW size \in Requests, realloc(p, size) PROVE HeapInv'
  <2> DEFINE i == Found(blocks, size)
             q == Pointer(i)
  <2>1. Fills(blocks) /\ Backed(blocks, live)
    BY <1>1
  <2>2. PICK n : Holds(blocks, p, n)
    BY <2>1, BackedMeans
  <2>3. CASE size <= blocks[Index(blocks, p)].size
    <3>1. live' = With(p, size) /\ blocks' = blocks
      BY <1>5, <2>3 DEF realloc
    <3>2. \A k : Holds(blocks, p, k) => size <= k
      BY <2>1, <2>3, IndexIs DEF Fills
    <3>3. /\ \A r : r \in DOMAIN live <=> \E k : Holds(blocks, r, k)
          /\ \A r, k : Holds(blocks, r, k) => live[r] \in Requests /\ live[r] <= k
      BY <2>1, BackedMeans
    <3> DEFINE after == With(p, size)
    <3>4. /\ DOMAIN after = DOMAIN live
          /\ \A r \in DOMAIN after : after[r] = IF r = p THEN size ELSE live[r]
      BY DEF With
    <3> HIDE DEF after
    <3>5. \A r, k : Holds(blocks, r, k) => after[r] \in Requests /\ after[r] <= k
      BY <3>2, <3>3, <3>4
    <3>6. Backed(blocks, after)
      BY <3>3, <3>4, <3>5, BackedMeans
    <3>7. QED
      BY <1>2, <2>1, <3>1, <3>6 DEF after
  <2>4. CASE ~ (size <= blocks[Index(blocks, p)].size) /\ i = 0
    <3>1. blocks' = blocks /\ live' = live
      BY <1>5, <2>4 DEF realloc
    <3>2. QED
      BY <1>2, <2>1, <3>1
  <2>5. CASE ~ (size <= blocks[Index(blocks, p)].size) /\ i # 0
    <3> DEFINE new == Take(blocks, i, size)
               with == With(q, size)
    <3>1. blocks' = Released(new, p) /\ live' = Without(with, p)
      BY <1>5, <2>5 DEF realloc
    <3>2. i \in 1 .. Len(blocks) /\ blocks[i].free /\ blocks[i].size >= Up(size)
      BY <2>1, <2>5, FoundIs DEF Fills
    <3> HIDE DEF i
    <3>3. q = blocks[i].at + Header
      BY DEF Pointer
    <3> HIDE DEF q
    <3>4. /\ DOMAIN with = DOMAIN live \union {q}
          /\ \A r \in DOMAIN with : with[r] = IF r = q THEN size ELSE live[r]
      BY DEF With
    <3> HIDE DEF with
    <3>5. Fills(new) /\ Backed(new, with)
      BY <2>1, <3>2, <3>3, <3>4, BackedByTake
    <3> HIDE DEF new
    <3>6. p \in DOMAIN with
      BY <3>4
    <3>7. Fills(Released(new, p)) /\ Backed(Released(new, p), Without(with, p))
      BY <3>5, <3>6, BackedByRelease
    <3>8. QED
      BY <1>2, <3>1, <3>7
  <2>6. QED
    BY <2>3, <2>4, <2>5
<1>6. CASE UNCHANGED vars
  BY <1>6 DEF vars, HeapInv
<1>7. QED
  BY <1>3, <1>4, <1>5, <1>6 DEF Next

(* Whatever the size of the array, of its headers and of what is asked for:    *)
(* malloc, free and realloc keep the list a partition of the array, and the    *)
(* blocks in use are those the program holds, each as large as was asked.      *)
THEOREM HeapStaysSound == UserSpec => []HeapSound
<1>1. HeapInv => HeapSound
  BY HeapInvImplies
<1>2. HeapInv /\ [UserNext]_userVars => HeapInv'
  BY HeapInvNext, HeapStep
<1>3. QED
  BY <1>1, <1>2, HeapInvInit, PTL DEF UserSpec

-----------------------------------------------------------------------------
(* The calculator.                                                         *)

(* The inductive invariant.  A number being entered begins with a digit, and   *)
(* what begins with "=" is a result that no digit has followed.                *)
Symbols ==
  Digits \union {"+", "-", "*", "/", "none", "=", "%g", "error", "lost"}
PocketTypes ==
  /\ display \in Seq(Symbols) /\ current_value \in Seq(Symbols)
  /\ entered \in Seq(Symbols) /\ operator \in Symbols
PocketInv ==
  /\ Pocket!TypeOK /\ PocketTypes
  /\ Pocket!EvaluatesEntered
  /\ entered = <<>> => operator = Pocket!NoOperator /\ new_number
  /\ entered # <<>> /\ entered[1] = "=" => new_number
  /\ entered # Pocket!Lost /\ ~ new_number => display[1] \in Digits

LEMMA PocketStep == [UserNext]_userVars => [Pocket!Next]_(Pocket!vars)
BY DEF UserNext, userVars, Carried, pocketVars, Pocket!vars

LEMMA PocketConstants ==
  /\ Digits \subseteq Symbols /\ Operators \subseteq Symbols
  /\ "0" \in Digits /\ Pocket!NoOperator \in Symbols
  /\ "=" \notin Digits /\ "lost" \notin Digits /\ "%g" \notin Digits
  /\ "error" \notin Digits
  /\ Operators \cap Digits = {} /\ Pocket!NoOperator \notin Operators
  /\ "=" \notin Operators /\ "lost" \notin Operators
BY Pocket!CalculatorAssumption
   DEF Pocket!CalculatorAssumption, Pocket!NoOperator, Symbols

LEMMA OneSymbol ==
  ASSUME NEW S, NEW c \in S
  PROVE  /\ <<c>> \in Seq(S) /\ Len(<<c>>) = 1 /\ <<c>> # <<>>
         /\ <<c>>[1] = c /\ <<>> \in Seq(S) /\ Append(<<>>, c) = <<c>>
         /\ <<>> \o <<c>> = <<c>>
<1>1. <<>> \in Seq(S) /\ Len(<<>>) = 0
  BY EmptySeq
<1>2. <<c>> \in Seq(S) /\ Len(<<c>>) = 1 /\ <<c>>[1] = c
  OBVIOUS
<1>3. <<c>> # <<>>
  BY <1>1, <1>2
<1>4. <<>> \o <<c>> = <<c>>
  BY <1>2, ConcatEmptySeq
<1>5. Append(<<>>, c) = <<>> \o <<c>>
  BY <1>1, AppendIsConcat
<1>6. QED
  BY <1>1, <1>2, <1>3, <1>4, <1>5

LEMMA OneText ==
  /\ \A c \in Symbols :
       /\ <<c>> \in Seq(Symbols) /\ Len(<<c>>) = 1 /\ <<c>> # <<>>
       /\ <<c>>[1] = c /\ Append(<<>>, c) = <<c>> /\ <<>> \o <<c>> = <<c>>
  /\ <<>> \in Seq(Symbols)
  /\ "0" \in Symbols /\ "+" \in Symbols /\ "none" \in Symbols /\ "=" \in Symbols
  /\ "%g" \in Symbols /\ "error" \in Symbols /\ "lost" \in Symbols
<1>1. /\ "0" \in Symbols /\ "+" \in Symbols /\ "none" \in Symbols /\ "=" \in Symbols
      /\ "%g" \in Symbols /\ "error" \in Symbols /\ "lost" \in Symbols
  BY PocketConstants DEF Symbols
<1>2. QED
  BY <1>1, OneSymbol, EmptySeq

LEMMA TextAppend ==
  ASSUME NEW s \in Seq(Symbols), NEW c \in Symbols
  PROVE  /\ Append(s, c) \in Seq(Symbols) /\ Len(Append(s, c)) = Len(s) + 1
         /\ Append(s, c) # <<>> /\ Append(s, c)[Len(s) + 1] = c
         /\ s # <<>> => Append(s, c)[1] = s[1]
         /\ s = <<>> => Append(s, c)[1] = c
         /\ Append(s, c) = s \o <<c>>
BY AppendProperties, AppendIsConcat, LenProperties, EmptySeq

LEMMA TextJoin ==
  ASSUME NEW s \in Seq(Symbols), NEW t \in Seq(Symbols), NEW c \in Symbols
  PROVE  s \o Append(t, c) = Append(s \o t, c)
<1>1. s \o t \in Seq(Symbols) /\ <<c>> \in Seq(Symbols)
  BY ConcatProperties
<1>2. Append(t, c) = t \o <<c>> /\ Append(s \o t, c) = (s \o t) \o <<c>>
  BY <1>1, AppendIsConcat
<1>3. (s \o t) \o <<c>> = s \o (t \o <<c>>)
  BY <1>1, ConcatAssociative
<1>4. QED
  BY <1>2, <1>3

(* The operation before, whose number is being entered.                      *)
LEMMA Unfinished ==
  ASSUME PocketInv, ~ overrun, entered # Pocket!Lost, entered # <<>>, entered[1] # "="
  PROVE  entered = (IF operator = Pocket!NoOperator THEN <<>>
                    ELSE Append(current_value, operator))
                   \o (IF new_number THEN <<>> ELSE display)
BY DEF PocketInv, Pocket!EvaluatesEntered

LEMMA PocketInvInit == UserInit => PocketInv
<1> SUFFICES ASSUME UserInit PROVE PocketInv
  OBVIOUS
<1>1. Pocket!Init
  BY DEF UserInit
<1>2. /\ <<"0">> \in Seq(Symbols) /\ <<"0">> # <<>> /\ <<>> \in Seq(Symbols)
      /\ "none" \in Symbols
  BY OneText
<1>3. QED
  BY <1>1, <1>2 DEF Pocket!Init, PocketInv, PocketTypes, Pocket!TypeOK, Pocket!Zero,
     Pocket!NoOperator, Pocket!EvaluatesEntered

LEMMA LostIs == Pocket!Lost \in Seq(Symbols) /\ Pocket!Lost # <<>> /\ Pocket!Lost[1] = "lost"
BY OneText DEF Pocket!Lost

LEMMA DigitKeeps ==
  ASSUME PocketInv, ~ overrun, NEW d \in Digits, Pocket!Digit(d) PROVE PocketInv'
<1> USE DEF Pocket!Digit
<1> DEFINE pre == IF operator = Pocket!NoOperator THEN <<>>
                  ELSE Append(current_value, operator)
<1>1. /\ d \in Symbols /\ d # "=" /\ PocketTypes /\ display # <<>>
      /\ new_number \in BOOLEAN /\ operator \in Operators \union {Pocket!NoOperator}
  BY PocketConstants DEF PocketInv, Pocket!TypeOK
<1>2. pre \in Seq(Symbols)
  BY <1>1, TextAppend, OneText DEF PocketTypes
<1>3. /\ display' = (IF new_number THEN <<d>> ELSE Append(display, d))
      /\ new_number' = FALSE /\ current_value' = current_value /\ operator' = operator
  OBVIOUS
<1>4. display' \in Seq(Symbols) /\ display' # <<>>
  BY <1>1, <1>3, OneText, TextAppend DEF PocketTypes
<1>5. CASE entered' = Pocket!Lost
  BY <1>1, <1>3, <1>4, <1>5, LostIs DEF PocketInv, PocketTypes, Pocket!TypeOK,
     Pocket!EvaluatesEntered
<1>6. CASE entered' # Pocket!Lost
  <2>1. entered # Pocket!Lost /\ (new_number \/ Pocket!EndsWith(entered, Digits))
    BY <1>6
  <2>2. SUFFICES /\ entered' \in Seq(Symbols) /\ entered' # <<>> /\ entered'[1] # "="
                 /\ entered' = pre \o display' /\ display'[1] \in Digits
    <3> HIDE DEF Pocket!Digit
    <3> QED
      BY <1>1, <1>3, <1>4 DEF PocketInv, PocketTypes, Pocket!TypeOK, Pocket!EvaluatesEntered
  <2>3. CASE entered # <<>> /\ entered[1] = "="
    <3>1. new_number /\ operator = Pocket!NoOperator
      BY <2>1, <2>3 DEF PocketInv, Pocket!EvaluatesEntered
    <3>2. entered' = <<d>> /\ display' = <<d>>
      BY <1>6, <2>3, <3>1
    <3>3. QED
      BY <1>1, <3>1, <3>2, OneText
  <2>4. CASE ~ (entered # <<>> /\ entered[1] = "=")
    <3>1. entered' = Append(entered, d)
      BY <1>6, <2>4
    <3>2. CASE entered = <<>>
      <4>1. operator = Pocket!NoOperator /\ new_number
        BY <3>2 DEF PocketInv
      <4>2. entered' = <<d>> /\ display' = <<d>>
        BY <1>1, <1>3, <3>1, <3>2, <4>1, OneText
      <4>3. QED
        BY <1>1, <4>1, <4>2, OneText
    <3>3. CASE entered # <<>>
      <4>1. entered = pre \o (IF new_number THEN <<>> ELSE display)
        BY <2>1, <2>4, <3>3, Unfinished
      <4>2. /\ entered' \in Seq(Symbols) /\ entered' # <<>> /\ entered'[1] # "="
            /\ entered' = entered \o <<d>>
        <5>1. entered \in Seq(Symbols)
          BY <1>1 DEF PocketTypes
        <5> DEFINE t == Append(entered, d)
        <5>2. t \in Seq(Symbols) /\ t # <<>> /\ t[1] = entered[1] /\ t = entered \o <<d>>
          BY <1>1, <3>3, <5>1, TextAppend
        <5>3. entered[1] # "="
          BY <2>4, <3>3
        <5> HIDE DEF t
        <5>4. entered' = t
          BY <3>1 DEF t
        <5>5. QED
          BY <5>2, <5>3, <5>4
      <4>3. CASE new_number
        <5>1. entered = pre
          BY <1>2, <4>1, <4>3, ConcatEmptySeq
        <5>2. display' = <<d>>
          BY <1>3, <4>3
        <5>3. <<d>>[1] = d
          OBVIOUS
        <5> HIDE DEF pre
        <5>4. QED
          BY <4>2, <5>1, <5>2, <5>3
      <4>4. CASE ~ new_number
        <5>1. display' = Append(display, d) /\ display \in Seq(Symbols)
          BY <1>1, <1>3, <4>4 DEF PocketTypes
        <5>2. entered = pre \o display
          BY <4>1, <4>4
        <5>3. entered' = pre \o display'
          <6>1. pre \o Append(display, d) = Append(pre \o display, d)
            BY <1>1, <1>2, <5>1, TextJoin
          <6> HIDE DEF pre
          <6>2. QED
            BY <3>1, <5>1, <5>2, <6>1
        <5>4. display'[1] \in Digits
          <6>1. display[1] \in Digits
            BY <2>1, <4>4 DEF PocketInv
          <6>2. QED
            BY <1>1, <5>1, <6>1, TextAppend
        <5>5. QED
          BY <4>2, <5>3, <5>4
      <4>5. QED
        BY <4>3, <4>4
    <3>4. QED
      BY <3>2, <3>3
  <2>5. QED
    BY <2>3, <2>4
<1>7. QED
  BY <1>5, <1>6

(* What a number that is being entered is the end of.                        *)
LEMMA EnteredIs ==
  ASSUME PocketInv, ~ overrun, Pocket!EndsWith(entered, Digits), entered # Pocket!Lost,
         entered[1] # "=", ~ new_number
  PROVE  /\ entered # <<>> /\ Pocket!Shown = display
         /\ operator = Pocket!NoOperator => entered = Pocket!Shown
         /\ operator # Pocket!NoOperator => entered = Pocket!Combined
<1>1. entered # <<>>
  BY DEF Pocket!EndsWith
<1>2. Pocket!Shown = display
  BY DEF PocketInv, Pocket!Shown
<1>3. entered = (IF operator = Pocket!NoOperator THEN <<>>
                 ELSE Append(current_value, operator)) \o display
  BY <1>1, Unfinished
<1>4. /\ display \in Seq(Symbols) /\ current_value \in Seq(Symbols) /\ operator \in Symbols
  BY DEF PocketInv, PocketTypes
<1>5. operator = Pocket!NoOperator => entered = Pocket!Shown
  BY <1>2, <1>3, <1>4, ConcatEmptySeq
<1>6. operator # Pocket!NoOperator => entered = Pocket!Combined
  BY <1>2, <1>3, <1>4, TextAppend DEF Pocket!Combined
<1>7. QED
  BY <1>1, <1>2, <1>5, <1>6

LEMMA ShownIs ==
  PocketInv => Pocket!Shown \in Seq(Symbols) /\ (Pocket!Combined \in Seq(Symbols))
<1> SUFFICES ASSUME PocketInv
             PROVE  Pocket!Shown \in Seq(Symbols) /\ Pocket!Combined \in Seq(Symbols)
  OBVIOUS
<1>1. /\ display \in Seq(Symbols) /\ current_value \in Seq(Symbols) /\ operator \in Symbols
  BY DEF PocketInv, PocketTypes
<1>2. Pocket!Shown \in Seq(Symbols)
  BY <1>1, OneText DEF Pocket!Shown, Pocket!Zero
<1>3. <<operator>> \in Seq(Symbols)
  BY <1>1, OneText
<1>4. QED
  BY <1>1, <1>2, <1>3, ConcatProperties DEF Pocket!Combined

LEMMA OperatorKeeps ==
  ASSUME PocketInv, ~ overrun, NEW o \in Operators, Pocket!Operator(o) PROVE PocketInv'
<1> USE DEF Pocket!Operator
<1>1. /\ o \in Symbols /\ o # Pocket!NoOperator /\ o # "=" /\ PocketTypes /\ display # <<>>
  BY PocketConstants DEF PocketInv, Pocket!TypeOK
<1>2. /\ current_value' = (IF operator # Pocket!NoOperator /\ ~ new_number
                           THEN Pocket!Combined ELSE Pocket!Shown)
      /\ display' = (IF operator # Pocket!NoOperator /\ ~ new_number
                     THEN Pocket!Format ELSE display)
      /\ operator' = o /\ new_number' = TRUE
  OBVIOUS
<1>3. /\ current_value' \in Seq(Symbols) /\ display' \in Seq(Symbols) /\ display' # <<>>
  BY <1>1, <1>2, ShownIs, OneText DEF PocketTypes, Pocket!Format
<1>4. CASE entered' = Pocket!Lost
  BY <1>1, <1>2, <1>3, <1>4, LostIs DEF PocketInv, PocketTypes, Pocket!TypeOK,
     Pocket!EvaluatesEntered
<1>5. CASE entered' # Pocket!Lost
  <2>1. /\ Pocket!EndsWith(entered, Digits) /\ entered[1] # "=" /\ ~ new_number
        /\ entered' = Append(entered, o)
    BY <1>5
  <2>2. entered # Pocket!Lost
    <3>1. SUFFICES ASSUME entered = Pocket!Lost PROVE FALSE
      OBVIOUS
    <3>2. entered[Len(entered)] = "lost"
      BY <3>1, OneText DEF Pocket!Lost
    <3>3. QED
      BY <2>1, <3>2, PocketConstants DEF Pocket!EndsWith
  <2>3. entered # <<>> /\ entered = current_value'
    <3> HIDE DEF Pocket!Operator
    <3> QED
      BY <1>2, <2>1, <2>2, EnteredIs
  <2>4. entered \in Seq(Symbols)
    BY <1>1 DEF PocketTypes
  <2>5. /\ entered' \in Seq(Symbols) /\ entered' # <<>> /\ entered'[1] # "="
        /\ entered' = Append(current_value', o) \o <<>>
    <3>1. /\ entered' \in Seq(Symbols) /\ entered' # <<>> /\ entered'[1] # "="
      BY <1>1, <2>1, <2>3, <2>4, TextAppend
    <3>2. entered' = Append(current_value', o)
      BY <2>1, <2>3
    <3>3. QED
      BY <3>1, <3>2, ConcatEmptySeq
  <2> HIDE DEF Pocket!Operator
  <2>6. QED
    BY <1>1, <1>2, <1>3, <2>5 DEF PocketInv, PocketTypes, Pocket!TypeOK,
       Pocket!EvaluatesEntered
<1>6. QED
  BY <1>4, <1>5

LEMMA EqualsKeeps ==
  ASSUME PocketInv, ~ overrun, Pocket!Equals PROVE PocketInv'
<1> USE DEF Pocket!Equals
<1>1. PocketTypes /\ display # <<>> /\ operator \in Operators \union {Pocket!NoOperator}
  BY DEF PocketInv, Pocket!TypeOK
<1>2. /\ Pocket!Error \in Seq(Symbols) /\ Pocket!Error # <<>>
      /\ Pocket!Format \in Seq(Symbols) /\ Pocket!Format # <<>>
      /\ Pocket!NoOperator \in Symbols
  BY OneText DEF Pocket!Error, Pocket!Format, Pocket!NoOperator
<1>3. /\ current_value' \in Seq(Symbols) /\ display' \in Seq(Symbols) /\ display' # <<>>
      /\ operator' \in Symbols /\ operator' \in Operators \union {Pocket!NoOperator}
      /\ new_number' \in BOOLEAN
  BY <1>1, <1>2, ShownIs DEF PocketTypes, PocketInv, Pocket!TypeOK
<1>4. CASE entered' = Pocket!Lost
  BY <1>3, <1>4, LostIs DEF PocketInv, PocketTypes, Pocket!TypeOK,
     Pocket!EvaluatesEntered
<1>5. CASE entered' # Pocket!Lost
  <2>1. /\ Pocket!EndsWith(entered, Digits) /\ entered[1] # "=" /\ ~ new_number
        /\ entered' = <<"=">> \o entered
        /\ operator' = Pocket!NoOperator /\ new_number' = TRUE
        /\ current_value' = IF operator = Pocket!NoOperator THEN Pocket!Shown
                            ELSE Pocket!Combined
    BY <1>5
  <2>2. entered # Pocket!Lost
    <3>1. SUFFICES ASSUME entered = Pocket!Lost PROVE FALSE
      OBVIOUS
    <3>2. entered[Len(entered)] = "lost"
      BY <3>1, OneText DEF Pocket!Lost
    <3>3. QED
      BY <2>1, <3>2, PocketConstants DEF Pocket!EndsWith
  <2>3. entered # <<>> /\ entered = current_value'
    <3> HIDE DEF Pocket!Equals
    <3> QED
      BY <2>1, <2>2, EnteredIs
  <2>4. entered \in Seq(Symbols)
    BY <1>1 DEF PocketTypes
  <2>5. /\ entered' \in Seq(Symbols) /\ entered' # <<>> /\ entered'[1] = "="
        /\ Tail(entered') = entered /\ display' = Pocket!Format
    <3> DEFINE r == <<"=">> \o entered
    <3>1. r \in Seq(Symbols) /\ r # <<>> /\ r[1] = "=" /\ Tail(r) = entered
      <4>1. <<"=">> \in Seq(Symbols) /\ Len(<<"=">>) = 1 /\ <<"=">>[1] = "="
        BY OneText
      <4>2. /\ r \in Seq(Symbols) /\ Len(r) = 1 + Len(entered) /\ Len(entered) \in Nat
            /\ \A i \in 1 .. 1 + Len(entered) :
                 r[i] = IF i <= 1 THEN <<"=">>[i] ELSE entered[i - 1]
        BY <2>4, <4>1, ConcatProperties, LenProperties
      <4> HIDE DEF r
      <4>3. r # <<>> /\ r[1] = "="
        BY <4>1, <4>2, EmptySeq
      <4>4. /\ Tail(r) \in Seq(Symbols) /\ Len(Tail(r)) = Len(entered)
            /\ \A i \in 1 .. Len(entered) : Tail(r)[i] = r[i + 1]
        BY <4>2, <4>3, HeadTailProperties
      <4>5. \A i \in 1 .. Len(entered) : Tail(r)[i] = entered[i]
        BY <4>2, <4>4
      <4>6. Tail(r) = entered
        BY <2>4, <4>4, <4>5, SeqEqual
      <4>7. QED
        BY <4>2, <4>3, <4>6
    <3>2. display' = Pocket!Format
      BY <1>5
    <3>3. QED
      BY <2>1, <3>1, <3>2
  <2> HIDE DEF Pocket!Equals
  <2>6. QED
    BY <1>3, <2>1, <2>3, <2>5 DEF PocketInv, PocketTypes, Pocket!TypeOK,
       Pocket!EvaluatesEntered
<1>6. QED
  BY <1>4, <1>5

LEMMA PocketInvNext == PocketInv /\ [Pocket!Next]_(Pocket!vars) => PocketInv'
<1> SUFFICES ASSUME PocketInv, [Pocket!Next]_(Pocket!vars) PROVE PocketInv'
  OBVIOUS
<1>1. /\ Pocket!Zero \in Seq(Symbols) /\ Pocket!Zero # <<>>
      /\ Pocket!Format \in Seq(Symbols) /\ Pocket!Format # <<>>
      /\ <<"+">> \in Seq(Symbols) /\ Pocket!NoOperator \in Symbols /\ <<>> \in Seq(Symbols)
  BY OneText DEF Pocket!Zero, Pocket!Format, Pocket!NoOperator
<1>2. ASSUME NEW d \in Digits, ~ overrun, Pocket!Digit(d) PROVE PocketInv'
  BY <1>2, DigitKeeps
<1>3. ASSUME NEW o \in Operators, ~ overrun, Pocket!Operator(o) PROVE PocketInv'
  BY <1>3, OperatorKeeps
<1>4. CASE ~ overrun /\ Pocket!Equals
  BY <1>4, EqualsKeeps
<1>5. CASE Pocket!Clear
  BY <1>1, <1>5 DEF Pocket!Clear, PocketInv, PocketTypes, Pocket!TypeOK,
     Pocket!EvaluatesEntered
<1>6. CASE Pocket!MemoryAdd
  BY <1>1, <1>6, LostIs DEF Pocket!MemoryAdd, PocketInv, PocketTypes, Pocket!TypeOK,
     Pocket!EvaluatesEntered
<1>7. CASE Pocket!MemoryRecall
  BY <1>1, <1>7, LostIs DEF Pocket!MemoryRecall, PocketInv, PocketTypes, Pocket!TypeOK,
     Pocket!EvaluatesEntered
<1>8. CASE Pocket!MemoryClear
  BY <1>8 DEF Pocket!MemoryClear, PocketInv, PocketTypes, Pocket!TypeOK,
     Pocket!EvaluatesEntered
<1>9. CASE UNCHANGED Pocket!vars
  BY <1>9 DEF Pocket!vars, PocketInv, PocketTypes, Pocket!TypeOK,
     Pocket!EvaluatesEntered
<1>10. QED
  BY <1>2, <1>3, <1>4, <1>5, <1>6, <1>7, <1>8, <1>9 DEF Pocket!Next

-----------------------------------------------------------------------------
(* The file manager: division.                                             *)

LEMMA Product ==
  ASSUME NEW a \in Int, NEW b \in Int, NEW n \in Nat \ {0}, a <= b
  PROVE  n * a <= n * b
OBVIOUS

LEMMA DivIs ==
  ASSUME NEW n \in Nat \ {0}, NEW q \in Int, NEW r \in 0 .. n - 1, NEW v \in Int, v = n * q + r
  PROVE  v \div n = q /\ v % n = r
OBVIOUS

LEMMA DivOf ==
  ASSUME NEW n \in Nat \ {0}, NEW v \in Nat
  PROVE  /\ v \div n \in Nat /\ v % n \in 0 .. n - 1
         /\ v = n * (v \div n) + (v % n)
OBVIOUS

LEMMA DivNext ==
  ASSUME NEW n \in Nat \ {0}, NEW v \in Nat
  PROVE  IF (v % n) + 1 = n
           THEN (v + 1) \div n = (v \div n) + 1 /\ (v + 1) % n = 0
           ELSE (v + 1) \div n = v \div n /\ (v + 1) % n = (v % n) + 1
<1> DEFINE q == v \div n
           r == v % n
<1>1. q \in Nat /\ r \in 0 .. n - 1 /\ v = n * q + r
  BY DivOf
<1> HIDE DEF q, r
<1>2. n * (q + 1) = n * q + n /\ n * q \in Nat
  BY <1>1
<1>3. CASE r + 1 = n
  <2>1. v + 1 = n * (q + 1) + 0 /\ 0 \in 0 .. n - 1
    BY <1>1, <1>2, <1>3
  <2>2. (v + 1) \div n = q + 1 /\ (v + 1) % n = 0
    BY <1>1, <2>1, DivIs
  <2>3. QED
    BY <1>3, <2>2 DEF q, r
<1>4. CASE r + 1 # n
  <2>1. v + 1 = n * q + (r + 1) /\ r + 1 \in 0 .. n - 1
    BY <1>1, <1>2, <1>4
  <2>2. (v + 1) \div n = q /\ (v + 1) % n = r + 1
    BY <1>1, <2>1, DivIs
  <2>3. QED
    BY <1>4, <2>2 DEF q, r
<1>5. QED
  BY <1>3, <1>4

LEMMA DivBelow ==
  ASSUME NEW n \in Nat \ {0}, NEW v \in Nat
  PROVE  /\ v < n * n => v \div n < n
         /\ (n * n) \div n = n /\ (n * n) % n = 0
<1> DEFINE q == v \div n
           r == v % n
<1>1. q \in Nat /\ r \in 0 .. n - 1 /\ v = n * q + r
  BY DivOf
<1> HIDE DEF q, r
<1>2. ASSUME v < n * n, ~ (q < n) PROVE FALSE
  <2>1. n * n <= n * q
    BY <1>1, <1>2, Product
  <2>2. n * q \in Nat /\ n * n \in Nat
    BY <1>1
  <2>3. QED
    BY <1>1, <1>2, <2>1, <2>2
<1>3. n * n = n * n + 0 /\ n * n \in Int /\ 0 \in 0 .. n - 1
  OBVIOUS
<1>4. (n * n) \div n = n /\ (n * n) % n = 0
  BY <1>3, DivIs
<1>5. QED
  BY <1>2, <1>4 DEF q

-----------------------------------------------------------------------------
(* The file manager: the sorting.                                          *)

Exchanged(m, i, j) ==
  IF i < j /\ m[j].dir /\ ~ m[i].dir THEN Browser!Swap(m, i, j) ELSE m
SortUpto(l, n, f, top) ==
  f = [k \in 0 .. top |->
         IF k = 0 THEN l
         ELSE Exchanged(f[k - 1], ((k - 1) \div n) + 1, ((k - 1) % n) + 1)]

LEMMA SortExists ==
  ASSUME NEW l, NEW n, NEW top \in Nat
  PROVE  \E f : SortUpto(l, n, f, top)
<1> DEFINE Step(m, k) == Exchanged(m, ((k - 1) \div n) + 1, ((k - 1) % n) + 1)
           Bad == {k \in Nat : ~ \E f : SortUpto(l, n, f, k)}
<1>1. ASSUME NEW k \in Bad PROVE k # 0 /\ k - 1 \in Bad
  <2>1. k # 0
    <3> SUFFICES ASSUME k = 0 PROVE FALSE
      OBVIOUS
    <3> DEFINE f == [i \in 0 .. 0 |-> l]
    <3>1. SortUpto(l, n, f, 0)
      BY DEF SortUpto
    <3>2. QED
      BY <3>1
  <2>2. ASSUME NEW f, SortUpto(l, n, f, k - 1) PROVE FALSE
    <3> DEFINE g == [i \in 0 .. k |-> IF i = k THEN Step(f[k - 1], k) ELSE f[i]]
    <3> HIDE DEF Step
    <3>1. ASSUME NEW i \in 0 .. k
          PROVE  g[i] = IF i = 0 THEN l ELSE Step(g[i - 1], i)
      <4>1. CASE i = k
        <5>1. g[i] = Step(f[k - 1], k) /\ g[i - 1] = f[k - 1] /\ i # 0
          BY <2>1, <4>1
        <5> HIDE DEF g
        <5>2. QED
          BY <4>1, <5>1
      <4>2. CASE i # k
        <5>1. i \in 0 .. k - 1 /\ g[i] = f[i] /\ (i # 0 => g[i - 1] = f[i - 1])
          BY <4>2
        <5>2. f[i] = IF i = 0 THEN l ELSE Step(f[i - 1], i)
          <6>1. f = [j \in 0 .. k - 1 |-> IF j = 0 THEN l ELSE Step(f[j - 1], j)]
            BY <2>2, Zenon DEF SortUpto, Step
          <6>2. QED
            BY <5>1, <6>1, Zenon
        <5> HIDE DEF g
        <5>3. QED
          BY <5>1, <5>2
      <4>3. QED
        BY <4>1, <4>2
    <3>2. g = [i \in 0 .. k |-> g[i]]
      OBVIOUS
    <3>3. SortUpto(l, n, g, k)
      <4> HIDE DEF g
      <4>1. g = [i \in 0 .. k |-> IF i = 0 THEN l ELSE Step(g[i - 1], i)]
        BY <3>1, <3>2
      <4>2. QED
        BY <4>1, Zenon DEF SortUpto, Step
    <3>4. QED
      BY <3>3
  <2>3. k - 1 \in Nat
    BY <2>1
  <2>4. QED
    BY <2>1, <2>2, <2>3
<1>2. Bad = {}
  <2>1. Bad \in SUBSET Nat
    OBVIOUS
  <2> HIDE DEF Bad
  <2>2. QED
    BY <1>1, <2>1, Smallest
<1>3. QED
  BY <1>2

LEMMA SortedIs ==
  ASSUME NEW l, Len(l) \in Nat
  PROVE  \E f : /\ SortUpto(l, Len(l), f, Len(l) * Len(l))
                /\ Browser!Sorted(l) = f[Len(l) * Len(l)]
<1>1. Len(l) * Len(l) \in Nat
  OBVIOUS
<1>2. \E f : SortUpto(l, Len(l), f, Len(l) * Len(l))
  BY <1>1, SortExists
<1> DEFINE After == CHOOSE f : SortUpto(l, Len(l), f, Len(l) * Len(l))
<1>3. SortUpto(l, Len(l), After, Len(l) * Len(l))
  BY <1>2, Zenon
<1>4. Browser!Sorted(l) = After[Len(l) * Len(l)]
  BY Zenon DEF Browser!Sorted, SortUpto, Exchanged
<1> HIDE DEF After
<1>5. QED
  BY <1>3, <1>4

Places(m, n, e) == {x \in 1 .. n : m[x] = e}
SameEntries(l, m, n) ==
  \A e : Cardinality(Places(l, n, e)) = Cardinality(Places(m, n, e))

(* v is m with the entries i and j exchanged.                                *)
Exchange(S, n, m, i, j, v) ==
  /\ v \in [1 .. n -> S] /\ SameEntries(m, v, n)
  /\ \A x \in 1 .. n : v[x] = IF x = i THEN m[j] ELSE IF x = j THEN m[i] ELSE m[x]

(* An exchange leaves each entry as often as it was.                         *)
LEMMA SwapCounts ==
  ASSUME NEW S, NEW n \in Nat, NEW m \in [1 .. n -> S], NEW i \in 1 .. n, NEW j \in 1 .. n
  PROVE  Exchange(S, n, m, i, j, Browser!Swap(m, i, j))
<1> DEFINE w == Browser!Swap(m, i, j)
<1>1. /\ w \in [1 .. n -> S]
      /\ \A x \in 1 .. n : w[x] = IF x = i THEN m[j] ELSE IF x = j THEN m[i] ELSE m[x]
  BY DEF Browser!Swap
<1> HIDE DEF w
<1>2. ASSUME NEW e PROVE Cardinality(Places(m, n, e)) = Cardinality(Places(w, n, e))
  <2> DEFINE P == Places(m, n, e)
             Q == Places(w, n, e)
             t == [x \in P |-> IF x = i THEN j ELSE IF x = j THEN i ELSE x]
  <2>1. \A x \in P : x \in 1 .. n /\ m[x] = e /\ t[x] \in 1 .. n /\ w[t[x]] = e
    BY <1>1 DEF Places
  <2>2. t \in [P -> Q]
    BY <2>1 DEF Places
  <2>3. \A x, y \in P : t[x] = t[y] => x = y
    OBVIOUS
  <2>4. \A y \in Q : \E x \in P : t[x] = y
    <3> SUFFICES ASSUME NEW y \in Q PROVE \E x \in P : t[x] = y
      OBVIOUS
    <3> DEFINE x == IF y = i THEN j ELSE IF y = j THEN i ELSE y
    <3>1. x \in P
      BY <1>1 DEF Places
    <3>2. t[x] = y
      BY <3>1
    <3>3. QED
      BY <3>1, <3>2
  <2> HIDE DEF t
  <2>5. ExistsBijection(P, Q)
    <3> HIDE DEF P, Q
    <3> QED
      BY <2>2, <2>3, <2>4 DEF ExistsBijection, Bijection, Injection, Surjection,
           IsInjective
  <2>6. IsFiniteSet(P)
    <3>1. IsFiniteSet(1 .. n) /\ P \subseteq 1 .. n
      BY FS_Interval DEF Places
    <3>2. QED
      BY <3>1, FS_Subset
  <2>7. QED
    BY <2>5, <2>6, FS_Bijection
<1>3. QED
  BY <1>1, <1>2 DEF SameEntries, Exchange, w

(* The first a entries of n have no directory behind them that they are not one  *)
(* themselves, nor has the next one one among the next up to b.                *)
Leading(m, n, a) == \A x \in 1 .. a : \A y \in x + 1 .. n : m[y].dir => m[x].dir
Foremost(m, a, b) == \A y \in a + 2 .. b : m[y].dir => m[a + 1].dir

LEMMA ExchangeArranges ==
  ASSUME NEW S, \A e \in S : e.dir \in BOOLEAN,
         NEW n \in Nat, NEW m \in [1 .. n -> S],
         NEW a \in 0 .. n - 1, NEW b \in 0 .. n - 1, Leading(m, n, a), Foremost(m, a, b)
  PROVE  LET w == Exchanged(m, a + 1, b + 1) IN
         /\ w \in [1 .. n -> S] /\ SameEntries(m, w, n)
         /\ Leading(w, n, a) /\ Foremost(w, a, b + 1)
<1> DEFINE w == Exchanged(m, a + 1, b + 1)
<1>1. a + 1 \in 1 .. n /\ b + 1 \in 1 .. n
  OBVIOUS
<1>2. CASE ~ (a + 1 < b + 1 /\ m[b + 1].dir /\ ~ m[a + 1].dir)
  <2>1. w = m
    BY <1>2 DEF Exchanged
  <2>2. Foremost(m, a, b + 1)
    BY <1>1, <1>2 DEF Foremost
  <2>3. SameEntries(m, m, n)
    BY DEF SameEntries
  <2> HIDE DEF w
  <2>4. QED
    BY <2>1, <2>2, <2>3 DEF w
<1>3. CASE a + 1 < b + 1 /\ m[b + 1].dir /\ ~ m[a + 1].dir
  <2>1. w = Browser!Swap(m, a + 1, b + 1)
    BY <1>3 DEF Exchanged
  <2>2. /\ w \in [1 .. n -> S] /\ SameEntries(m, w, n)
        /\ \A x \in 1 .. n : w[x] = IF x = a + 1 THEN m[b + 1]
                                    ELSE IF x = b + 1 THEN m[a + 1] ELSE m[x]
    <3> DEFINE v == Browser!Swap(m, a + 1, b + 1)
    <3>1. /\ v \in [1 .. n -> S] /\ SameEntries(m, v, n)
          /\ \A x \in 1 .. n : v[x] = IF x = a + 1 THEN m[b + 1]
                                      ELSE IF x = b + 1 THEN m[a + 1] ELSE m[x]
      <4>1. Exchange(S, n, m, a + 1, b + 1, v)
        BY <1>1, SwapCounts
      <4> HIDE DEF v
      <4>2. QED
        BY <4>1 DEF Exchange
    <3>2. w = v
      BY <2>1
    <3> HIDE DEF v, w
    <3>3. QED
      BY <3>1, <3>2
  <2> HIDE DEF w
  <2>3. Leading(w, n, a)
    <3> SUFFICES ASSUME NEW x \in 1 .. a, NEW y \in x + 1 .. n, w[y].dir PROVE w[x].dir
      BY DEF Leading
    <3>1. x \in 1 .. n /\ y \in 1 .. n /\ w[x] = m[x]
      BY <1>3, <2>2
    <3>2. PICK z \in x + 1 .. n : w[y] = m[z]
      <4>1. CASE y = a + 1
        BY <1>1, <1>3, <2>2, <3>1, <4>1
      <4>2. CASE y = b + 1
        <5>1. a + 1 \in x + 1 .. n /\ w[y] = m[a + 1]
          BY <1>1, <1>3, <2>2, <3>1, <4>2
        <5>2. QED
          BY <5>1
      <4>3. CASE y # a + 1 /\ y # b + 1
        BY <2>2, <3>1, <4>3
      <4>4. QED
        BY <4>1, <4>2, <4>3
    <3>3. QED
      BY <3>1, <3>2 DEF Leading
  <2>4. Foremost(w, a, b + 1)
    <3>1. w[a + 1] = m[b + 1]
      BY <1>1, <2>2
    <3>2. QED
      BY <1>3, <3>1 DEF Foremost
  <2>5. QED
    BY <2>2, <2>3, <2>4 DEF w
<1>4. QED
  BY <1>2, <1>3

(* After k comparisons.                                                    *)
Arranged(S, l, m, n, k) ==
  /\ m \in [1 .. n -> S] /\ SameEntries(l, m, n)
  /\ Leading(m, n, k \div n) /\ Foremost(m, k \div n, k % n)

LEMMA ComparisonArranges ==
  ASSUME NEW S, \A e \in S : e.dir \in BOOLEAN,
         NEW n \in Nat \ {0}, NEW l, NEW m, NEW k \in Nat, k < n * n,
         Arranged(S, l, m, n, k)
  PROVE  Arranged(S, l, Exchanged(m, (k \div n) + 1, (k % n) + 1), n, k + 1)
<1> DEFINE a == k \div n
           b == k % n
           w == Exchanged(m, a + 1, b + 1)
<1>1. a \in 0 .. n - 1 /\ b \in 0 .. n - 1
  <2>1. a \in Nat /\ b \in 0 .. n - 1
    BY DivOf
  <2>2. a < n
    BY DivBelow
  <2> HIDE DEF a, b
  <2>3. QED
    BY <2>1, <2>2
<1>2. IF b + 1 = n THEN (k + 1) \div n = a + 1 /\ (k + 1) % n = 0
      ELSE (k + 1) \div n = a /\ (k + 1) % n = b + 1
  BY DivNext
<1>3. /\ m \in [1 .. n -> S] /\ SameEntries(l, m, n)
      /\ Leading(m, n, a) /\ Foremost(m, a, b)
  BY DEF Arranged
<1> HIDE DEF a, b
<1>4. /\ w \in [1 .. n -> S] /\ SameEntries(m, w, n)
      /\ Leading(w, n, a) /\ Foremost(w, a, b + 1)
  BY <1>1, <1>3, ExchangeArranges
<1> HIDE DEF w
<1>5. SameEntries(l, w, n)
  BY <1>3, <1>4 DEF SameEntries
<1>6. CASE b + 1 = n
  <2>1. Leading(w, n, a + 1)
    <3> SUFFICES ASSUME NEW x \in 1 .. a + 1, NEW y \in x + 1 .. n, w[y].dir PROVE w[x].dir
      BY DEF Leading
    <3>1. CASE x = a + 1
      BY <1>1, <1>4, <1>6, <3>1 DEF Foremost
    <3>2. CASE x # a + 1
      BY <1>1, <1>4, <3>2 DEF Leading
    <3>3. QED
      BY <3>1, <3>2
  <2>2. Foremost(w, a + 1, 0)
    BY <1>1 DEF Foremost
  <2>3. QED
    BY <1>2, <1>4, <1>5, <1>6, <2>1, <2>2 DEF Arranged, w, a, b
<1>7. CASE b + 1 # n
  BY <1>2, <1>4, <1>5, <1>7 DEF Arranged, w, a, b
<1>8. QED
  BY <1>6, <1>7

(* The directories come first, and each entry is there as often as before.      *)
LEMMA SortedArranges ==
  ASSUME NEW S, \A e \in S : e.dir \in BOOLEAN, NEW l \in Seq(S)
  PROVE  LET n == Len(l)
             s == Browser!Sorted(l)
         IN  /\ n \in Nat /\ s \in [1 .. n -> S] /\ SameEntries(l, s, n)
             /\ Leading(s, n, n)
<1> DEFINE n == Len(l)
           s == Browser!Sorted(l)
           top == n * n
<1>1. n \in Nat /\ l \in [1 .. n -> S]
  BY LenProperties
<1>2. PICK f : SortUpto(l, n, f, top) /\ s = f[top]
  BY <1>1, SortedIs
<1> HIDE DEF n, s, top
<1>3. top \in Nat /\ (n = 0 => top = 0)
  BY <1>1 DEF top
<1>4. f[0] = l
  BY <1>2, <1>3 DEF SortUpto
<1>5. CASE n = 0
  <2>1. s = l
    BY <1>2, <1>3, <1>4, <1>5
  <2>2. Leading(l, n, n) /\ SameEntries(l, l, n)
    BY <1>5 DEF Leading, SameEntries
  <2>3. QED
    BY <1>1, <2>1, <2>2 DEF n, s
<1>6. CASE n # 0
  <2>1. \A k \in 0 .. top :
          k # 0 => f[k] = Exchanged(f[k - 1], ((k - 1) \div n) + 1, ((k - 1) % n) + 1)
    BY <1>2, Zenon DEF SortUpto
  <2> DEFINE Bad == {k \in 0 .. top : ~ Arranged(S, l, f[k], n, k)}
  <2>2. ASSUME NEW k \in Bad PROVE k # 0 /\ k - 1 \in Bad
    <3>1. k # 0
      <4>1. 0 \div n = 0 /\ 0 % n = 0
        BY <1>1, <1>6, DivIs
      <4>2. Arranged(S, l, f[0], n, 0)
        BY <1>1, <1>4, <4>1 DEF Arranged, Leading, Foremost, SameEntries
      <4>3. QED
        BY <4>2
    <3>2. k - 1 \in 0 .. top /\ k - 1 \in Nat /\ k - 1 < top /\ k = (k - 1) + 1
      BY <1>3, <3>1
    <3>3. f[k] = Exchanged(f[k - 1], ((k - 1) \div n) + 1, ((k - 1) % n) + 1)
      BY <2>1, <3>1
    <3>4. ASSUME Arranged(S, l, f[k - 1], n, k - 1) PROVE FALSE
      <4> DEFINE j == k - 1
      <4>1. Arranged(S, l, f[j], n, j) /\ j \in Nat /\ j < n * n /\ n \in Nat \ {0}
        BY <1>1, <1>6, <3>2, <3>4 DEF top
      <4> HIDE DEF j
      <4>2. Arranged(S, l, Exchanged(f[j], (j \div n) + 1, (j % n) + 1), n, j + 1)
        BY <4>1, ComparisonArranges
      <4>3. QED
        BY <3>2, <3>3, <4>2 DEF j
    <3>5. QED
      BY <3>1, <3>2, <3>4
  <2>3. Bad = {}
    <3>1. Bad \in SUBSET Nat
      BY <1>3
    <3> HIDE DEF Bad
    <3>2. QED
      BY <2>2, <3>1, Smallest
  <2>4. Arranged(S, l, s, n, top)
    BY <1>2, <1>3, <2>3
  <2>5. top \div n = n
    BY <1>1, <1>6, DivBelow DEF top
  <2>6. s \in [1 .. n -> S] /\ SameEntries(l, s, n) /\ Leading(s, n, n)
    BY <2>4, <2>5 DEF Arranged
  <2>7. QED
    BY <1>1, <2>6 DEF n, s
<1>7. QED
  BY <1>5, <1>6

-----------------------------------------------------------------------------
(* The file manager: its rows.                                             *)

LEMMA BrowserConstants ==
  /\ MAX_FILES \in Nat
  /\ FILE_HEIGHT \in Nat \ {0} /\ TopEdge \in Nat \ {0} /\ ListHeight \in Nat \ {0}
  /\ \A l \in Listings :
       l \in Seq({l[i] : i \in DOMAIN l}) /\ \A i \in DOMAIN l : l[i].dir \in BOOLEAN
BY Browser!FileManagerAssumption DEF Browser!FileManagerAssumption

LEMMA BrowserStep == [UserNext]_userVars => [Browser!Next]_(Browser!vars)
BY DEF UserNext, userVars, Carried, browserVars, Browser!vars

LEMMA BrowserCardinality == \A S : Browser!Cardinality(S) = Cardinality(S)
BY Zenon DEF Browser!Cardinality, Cardinality

(* What ListRight says of the list s that l was brought into.                  *)
InOrder(l, s) ==
  /\ Len(s) \in Nat
  /\ \A i, j \in DOMAIN s : s[j].dir /\ ~ s[i].dir => j < i
  /\ \A e \in {l[i] : i \in DOMAIN l} \union {s[i] : i \in DOMAIN s} :
       Browser!Cardinality({i \in DOMAIN Browser!First(l) : l[i] = e}) =
       Browser!Cardinality({i \in DOMAIN s : s[i] = e})

(* What there is room for are the first entries.                              *)
LEMMA FilledIs ==
  ASSUME NEW S, NEW l \in Seq(S)
  PROVE  /\ Browser!First(l) \in Seq(S)
         /\ \A i \in DOMAIN Browser!First(l) : Browser!First(l)[i] = l[i]
<1> DEFINE c == IF Len(l) < MAX_FILES THEN Len(l) ELSE MAX_FILES
<1>1. c \in Nat /\ c <= Len(l)
  BY BrowserConstants, LenProperties
<1> HIDE DEF c
<1>2. /\ SubSeq(l, 1, c) \in Seq(S) /\ DOMAIN SubSeq(l, 1, c) = 1 .. c
      /\ \A i \in 1 .. c : SubSeq(l, 1, c)[i] = l[i]
  <2>1. SubSeq(l, 1, c) \in Seq(S) /\ Len(SubSeq(l, 1, c)) = c
    BY <1>1, FirstPiece
  <2>2. DOMAIN SubSeq(l, 1, c) = 1 .. c
    BY <2>1, LenProperties
  <2>3. QED
    BY <1>1, <2>1, <2>2, FirstPiece
<1>3. Browser!First(l) = SubSeq(l, 1, c)
  BY Zenon DEF Browser!First, c
<1>4. QED
  BY <1>2, <1>3

LEMMA ListInOrder ==
  ASSUME NEW l \in Listings \union {<<>>}
  PROVE  InOrder(l, Browser!Sorted(Browser!First(l)))
<1> DEFINE S == {l[i] : i \in DOMAIN l}
           f == Browser!First(l)
           n == Len(f)
           s == Browser!Sorted(f)
<1>1. l \in Seq(S) /\ \A e \in S : e.dir \in BOOLEAN
  <2>1. CASE l \in Listings
    BY <2>1, BrowserConstants
  <2>2. CASE l = <<>>
    <3>1. DOMAIN l = {}
      BY <2>2
    <3>2. S = {} /\ l \in Seq(S)
      BY <2>2, <3>1, EmptySeq
    <3> HIDE DEF S
    <3>3. QED
      BY <3>2
  <2>3. QED
    BY <2>1, <2>2
<1> HIDE DEF S
<1>2. f \in Seq(S) /\ \A i \in DOMAIN f : f[i] = l[i]
  BY <1>1, FilledIs
<1> HIDE DEF f
<1>3. DOMAIN f = 1 .. n
  BY <1>2, LenProperties
<1>4. n \in Nat /\ s \in [1 .. n -> S] /\ SameEntries(f, s, n) /\ Leading(s, n, n)
  BY <1>1, <1>2, SortedArranges
<1> HIDE DEF s, n
<1>5. Len(s) = n /\ DOMAIN s = 1 .. n
  <2>1. s \in Seq(S) /\ DOMAIN s = 1 .. n
    BY <1>4, SeqDef
  <2>2. Len(s) \in Nat /\ DOMAIN s = 1 .. Len(s)
    BY <2>1, LenProperties
  <2>3. QED
    BY <1>4, <2>1, <2>2
<1>6. ASSUME NEW i \in 1 .. n, NEW j \in 1 .. n, s[j].dir, ~ s[i].dir PROVE j < i
  <2>1. SUFFICES ASSUME ~ (j < i) PROVE FALSE
    BY <1>4
  <2>2. j # i
    BY <1>6
  <2>3. i \in 1 .. n /\ j \in i + 1 .. n
    BY <1>4, <2>1, <2>2
  <2>4. QED
    BY <1>4, <1>6, <2>3 DEF Leading
<1>7. ASSUME NEW e PROVE Browser!Cardinality({i \in DOMAIN f : l[i] = e}) =
                         Browser!Cardinality({i \in DOMAIN s : s[i] = e})
  <2>1. {i \in DOMAIN f : l[i] = e} = {i \in 1 .. n : f[i] = e}
    BY <1>2, <1>3
  <2>2. QED
    BY <1>4, <1>5, <2>1, BrowserCardinality DEF SameEntries, Places
<1>8. QED
  BY <1>4, <1>5, <1>6, <1>7 DEF InOrder, s, f

(* C's division is that of the row a point is in.                             *)
LEMMA QuotIs ==
  ASSUME NEW h \in Nat \ {0}, NEW i \in Nat, NEW v \in Int, i * h <= v, v < (i + 1) * h
  PROVE  Browser!Quot(v, h) = i
<1>1. v - h * i \in 0 .. h - 1 /\ v = h * i + (v - h * i)
  OBVIOUS
<1>2. v \div h = i
  BY <1>1, DivIs
<1>3. v >= 0
  <2>1. 0 <= i * h /\ i * h \in Nat
    OBVIOUS
  <2>2. QED
    BY <2>1
<1>4. QED
  BY <1>2, <1>3 DEF Browser!Quot

LEMMA QuotType ==
  ASSUME NEW v \in Int, NEW h \in Nat \ {0} PROVE Browser!Quot(v, h) \in Int
<1>1. v >= 0 => v \div h \in Int
  BY DivOf
<1>2. v < 0 => (-v) \div h \in Int
  BY DivOf
<1>3. QED
  BY <1>1, <1>2 DEF Browser!Quot

(* The row that is drawn where a click goes is the row the code computes.        *)
LEMMA RowIs ==
  ASSUME NEW y \in Int, scroll \in Int, Browser!file_count \in Nat,
         NEW i \in Browser!RowAt(y)
  PROVE  /\ Browser!Quot(y - TopEdge + scroll * FILE_HEIGHT, FILE_HEIGHT) = i
         /\ i \in Browser!Rows
<1> DEFINE h == FILE_HEIGHT
           v == y - TopEdge + scroll * h
           t == i * h
<1>1. h \in Nat \ {0} /\ TopEdge \in Int
  BY BrowserConstants
<1>2. i \in Browser!Rows /\ Browser!RowTop(i) <= y /\ y < Browser!RowTop(i) + h
  BY DEF Browser!RowAt, Browser!Drawn
<1>3. i \in Nat
  BY <1>2 DEF Browser!Rows
<1>4. t \in Int /\ scroll * h \in Int /\ (i + 1) * h = t + h
  BY <1>1, <1>3
<1>5. t <= v /\ v < t + h /\ v \in Int
  <2> DEFINE u == scroll * h
  <2>1. TopEdge - u + t <= y /\ y < TopEdge - u + t + h
    BY <1>2 DEF Browser!RowTop
  <2>2. u \in Int /\ t \in Int /\ h \in Int /\ y \in Int /\ TopEdge \in Int
    BY <1>1, <1>4
  <2> HIDE DEF u, t, h
  <2>3. t <= y - TopEdge + u /\ y - TopEdge + u < t + h /\ y - TopEdge + u \in Int
    BY <2>1, <2>2
  <2>4. QED
    BY <2>3 DEF u, h
<1> HIDE DEF v, h
<1>6. Browser!Quot(v, h) = i
  BY <1>1, <1>3, <1>4, <1>5, QuotIs
<1>7. QED
  BY <1>2, <1>6 DEF v, h

(* The inductive invariant.                                                *)
BrowserInv ==
  /\ listing \in Listings \union {<<>>} /\ current_files = Browser!Sorted(Browser!First(listing))
  /\ Browser!TypeOK
  /\ selected \in Browser!Rows \union {Browser!NoRow}
  /\ aimed # Browser!NoRow => selected = aimed
  /\ opened # Browser!NoEntry => opened.dir /\ drawn \in {opened, Browser!NoEntry}

LEMMA BrowserInvImplies == BrowserInv => Browser!TypeOK /\ Browser!ListRight
<1> SUFFICES ASSUME BrowserInv PROVE Browser!TypeOK /\ Browser!ListRight
  OBVIOUS
<1>1. InOrder(listing, current_files)
  BY ListInOrder DEF BrowserInv
<1>2. QED
  BY <1>1, Zenon DEF BrowserInv, Browser!ListRight, InOrder

LEMMA BrowserInvInit == UserInit => BrowserInv
BY DEF UserInit, Browser!Init, BrowserInv, Browser!TypeOK, Browser!NoRow

LEMMA NothingSorted == Browser!Sorted(Browser!First(<<>>)) = <<>>
<1>1. Len(<<>>) = 0
  OBVIOUS
<1>2. PICK f : SortUpto(<<>>, 0, f, 0 * 0) /\ Browser!Sorted(<<>>) = f[0 * 0]
  BY <1>1, SortedIs
<1>3. 0 * 0 = 0
  OBVIOUS
<1>4. f[0] = <<>>
  BY <1>2, <1>3 DEF SortUpto
<1>5. Browser!First(<<>>) = <<>>
  <2>1. <<>> \in Seq({}) /\ Browser!First(<<>>) \in Seq({})
    BY EmptySeq, FilledIs
  <2>2. QED
    BY <2>1, EmptySeq
<1>6. QED
  BY <1>2, <1>3, <1>4, <1>5

LEMMA OpenKeeps ==
  ASSUME BrowserInv, NEW i, Browser!OpenDirectory(i), aimed' = Browser!NoRow,
         last_index' \in Nat \union {Browser!NoRow},
         current_files[i + 1].dir, drawn' \in {current_files[i + 1], Browser!NoEntry}
  PROVE  BrowserInv'
<1>1. /\ listing' \in Listings \union {<<>>}
      /\ current_files' = Browser!Sorted(Browser!First(listing'))
  BY NothingSorted DEF Browser!OpenDirectory, Browser!list_directory
<1>2. readable' \in BOOLEAN /\ selected' = Browser!NoRow /\ scroll' = 0
  BY DEF Browser!OpenDirectory
<1>3. opened' = current_files[i + 1]
  BY DEF Browser!OpenDirectory
<1>4. QED
  BY <1>1, <1>2, <1>3 DEF BrowserInv, Browser!TypeOK

LEMMA LeftClickKeeps ==
  ASSUME BrowserInv, NEW y \in 0 .. TopEdge + ListHeight + FILE_HEIGHT,
         Browser!LeftClick(y)
  PROVE  BrowserInv'
<1> DEFINE file_index == Browser!Quot(y - TopEdge + scroll * FILE_HEIGHT, FILE_HEIGHT)
<1>1. y \in Int /\ scroll \in Int /\ Browser!file_count \in Nat
  <2>1. InOrder(listing, current_files)
    BY ListInOrder DEF BrowserInv
  <2>2. QED
    BY <2>1, BrowserConstants DEF BrowserInv, Browser!TypeOK, InOrder, Browser!file_count
<1>2. ASSUME NEW row \in Browser!Aimed(y)
      PROVE  \/ row = Browser!NoRow
             \/ row = file_index /\ file_index \in Browser!Rows
  <2>1. ASSUME NEW i \in Browser!RowAt(y)
        PROVE  i = file_index /\ file_index \in Browser!Rows
    BY <1>1, RowIs
  <2> HIDE DEF file_index
  <2>2. row = Browser!NoRow \/ row \in Browser!RowAt(y)
    BY Zenon DEF Browser!Aimed
  <2>3. QED
    BY <2>1, <2>2
<1>3. aimed' \in Browser!Aimed(y) =>
        \/ aimed' = Browser!NoRow
        \/ aimed' = file_index /\ file_index \in Browser!Rows
  <2> HIDE DEF file_index
  <2>1. QED
    BY <1>2
<1> HIDE DEF file_index
<1>4. ASSUME file_index \in Browser!Rows, last_index' = file_index,
             selected' = file_index, Browser!ListStays, aimed' \in Browser!Aimed(y)
      PROVE  BrowserInv'
  BY <1>1, <1>3, <1>4 DEF BrowserInv, Browser!TypeOK, Browser!ListStays, Browser!Rows,
     Browser!file_count
<1>5. ASSUME file_index \in Browser!Rows, last_index' = file_index,
             Browser!OpenDirectory(file_index), aimed' = Browser!NoRow,
             current_files[file_index + 1].dir,
             NEW row \in Browser!Aimed(y), drawn' = Browser!EntryAt(row)
      PROVE  BrowserInv'
  <2>1. last_index' \in Nat
    BY <1>1, <1>5 DEF Browser!Rows
  <2>2. row = Browser!NoRow \/ row = file_index
    BY <1>5, <1>2
  <2>3. drawn' \in {current_files[file_index + 1], Browser!NoEntry}
    BY <1>5, <2>2 DEF Browser!EntryAt
  <2>4. QED
    BY <1>5, <2>1, <2>3, OpenKeeps
<1>6. ASSUME file_index \notin Browser!Rows, UNCHANGED <<selected, last_index>>,
             Browser!ListStays, aimed' \in Browser!Aimed(y)
      PROVE  BrowserInv'
  BY <1>1, <1>3, <1>6 DEF BrowserInv, Browser!TypeOK, Browser!ListStays, Browser!Rows,
     Browser!file_count, Browser!NoRow
<1>7. QED
  BY <1>4, <1>5, <1>6 DEF Browser!LeftClick, file_index

LEMMA BrowserInvNext == BrowserInv /\ [Browser!Next]_(Browser!vars) => BrowserInv'
<1> SUFFICES ASSUME BrowserInv, [Browser!Next]_(Browser!vars) PROVE BrowserInv'
  OBVIOUS
<1>1. Browser!file_count \in Nat
  <2>1. InOrder(listing, current_files)
    BY ListInOrder DEF BrowserInv
  <2>2. QED
    BY <2>1 DEF InOrder, Browser!file_count
<1>2. ASSUME NEW y \in 0 .. TopEdge + ListHeight + FILE_HEIGHT, Browser!LeftClick(y)
      PROVE  BrowserInv'
  BY <1>2, LeftClickKeeps
<1>3. ASSUME NEW n \in (-MaxWheel .. MaxWheel) \ {0}, Browser!Wheel(n) PROVE BrowserInv'
  <2>1. scroll' \in Int
    <3> DEFINE moved == IF scroll - n < 0 THEN 0 ELSE scroll - n
               room == Browser!file_count * FILE_HEIGHT - ListHeight
    <3>1. moved \in Int
      BY DEF BrowserInv, Browser!TypeOK
    <3>2. room \in Int
      BY <1>1, BrowserConstants
    <3> HIDE DEF moved, room
    <3>3. Browser!Quot(room, FILE_HEIGHT) \in Int
      BY <3>2, BrowserConstants, QuotType
    <3>4. scroll' = IF moved * FILE_HEIGHT > room THEN Browser!Quot(room, FILE_HEIGHT)
                    ELSE moved
      BY <1>3, Zenon DEF Browser!Wheel, moved, room
    <3>5. QED
      BY <3>1, <3>3, <3>4
  <2>2. /\ aimed' = Browser!NoRow
        /\ UNCHANGED <<readable, listing, current_files, selected, last_index, drawn, opened>>
    BY <1>3 DEF Browser!Wheel
  <2>3. QED
    BY <2>1, <2>2 DEF BrowserInv, Browser!TypeOK, Browser!Rows, Browser!file_count
<1>4. CASE Browser!KeyUp
  BY <1>1, <1>4 DEF Browser!KeyUp, BrowserInv, Browser!TypeOK, Browser!Rows,
     Browser!file_count, Browser!ListStays, Browser!NoRow
<1>5. CASE Browser!KeyDown
  BY <1>1, <1>5 DEF Browser!KeyDown, BrowserInv, Browser!TypeOK, Browser!Rows,
     Browser!file_count, Browser!ListStays, Browser!NoRow
<1>6. CASE Browser!KeyEnter
  <2>1. /\ Browser!OpenDirectory(selected) /\ aimed' = Browser!NoRow
        /\ current_files[selected + 1].dir
        /\ drawn' \in {current_files[selected + 1], Browser!NoEntry}
        /\ last_index' \in Nat \union {Browser!NoRow}
    BY <1>6 DEF Browser!KeyEnter, BrowserInv, Browser!TypeOK, Browser!EntryAt
  <2>2. QED
    BY <2>1, OpenKeeps
<1>7. CASE UNCHANGED Browser!vars
  BY <1>7 DEF Browser!vars, BrowserInv, Browser!TypeOK, Browser!Rows, Browser!file_count
<1>8. QED
  BY <1>2, <1>3, <1>4, <1>5, <1>6, <1>7 DEF Browser!Next

(* The directories come first in the list and each entry there was room for is there  *)
(* as often as it was read; a click selects the row that is drawn there and no other,   *)
(* wherever the list is scrolled to; a list is opened only for the directory drawn       *)
(* there or selected; and the calculator's value is that of what was entered, as long     *)
(* as numbers and operators take turns and none is too long for the display          *)
(* (list_directory, main and button_click of apps.c).                          *)
THEOREM AppsStayRight == UserSpec => []AppsRight
<1>1. BrowserInv /\ PocketInv => AppsRight
  BY BrowserInvImplies DEF PocketInv, AppsRight
<1>2. UserInit => BrowserInv /\ PocketInv
  BY BrowserInvInit, PocketInvInit
<1>3. BrowserInv /\ PocketInv /\ [UserNext]_userVars => BrowserInv' /\ PocketInv'
  BY BrowserStep, PocketStep, BrowserInvNext, PocketInvNext
<1>4. QED
  BY <1>1, <1>2, <1>3, PTL DEF UserSpec

-----------------------------------------------------------------------------
(* The shell's history.                                                    *)

(* Numbers that are less than a round apart have slots of their own.           *)
LEMMA SlotsApart ==
  ASSUME NEW m \in Nat \ {0}, NEW a \in Nat, NEW b \in Nat, a < b, b < a + m
  PROVE  a % m # b % m
<1> DEFINE p == a \div m
           q == b \div m
           r == a % m
           t == b % m
<1>1. p \in Nat /\ r \in 0 .. m - 1 /\ a = m * p + r
  BY DivOf
<1>2. q \in Nat /\ t \in 0 .. m - 1 /\ b = m * q + t
  BY DivOf
<1> HIDE DEF p, q, r, t
<1>3. SUFFICES ASSUME r = t PROVE FALSE
  BY DEF r, t
<1>4. m * p \in Nat /\ m * q \in Nat /\ m * (p + 1) = m * p + m
  BY <1>1, <1>2
<1>5. CASE q <= p
  <2>1. m * q <= m * p
    BY <1>1, <1>2, <1>5, Product
  <2>2. QED
    BY <1>1, <1>2, <1>3, <1>4, <2>1
<1>6. CASE p + 1 <= q
  <2>1. m * (p + 1) <= m * q
    BY <1>1, <1>2, <1>6, Product
  <2>2. QED
    BY <1>1, <1>2, <1>3, <1>4, <2>1
<1>7. QED
  BY <1>1, <1>2, <1>5, <1>6

(* The last number of p's slot up to t.                                      *)
LEMMA LastOfSlot ==
  ASSUME NEW m \in Nat \ {0}, NEW p \in Nat, NEW t \in Nat, p <= t
  PROVE  \E n \in 0 .. t : n + m > t /\ n % m = p % m
<1> DEFINE a == p \div m
           b == p % m
           d == t - p
           q == d \div m
           r == d % m
           n == t - r
<1>1. a \in Nat /\ b \in 0 .. m - 1 /\ p = m * a + b
  BY DivOf
<1>2. d \in Nat
  OBVIOUS
<1>3. q \in Nat /\ r \in 0 .. m - 1 /\ d = m * q + r
  BY <1>2, DivOf
<1>4. d = t - p
  OBVIOUS
<1> HIDE DEF a, b, d, q, r
<1>5. m * (a + q) = m * a + m * q /\ m * a \in Nat /\ m * q \in Nat /\ a + q \in Int
  BY <1>1, <1>3
<1>6. n = m * (a + q) + b /\ n \in 0 .. t /\ n + m > t
  BY <1>1, <1>3, <1>4, <1>5
<1> HIDE DEF n
<1>7. n % m = b
  <2> DEFINE c == a + q
  <2>1. n = m * c + b /\ c \in Int /\ n \in Int /\ b \in 0 .. m - 1
    BY <1>1, <1>5, <1>6
  <2> HIDE DEF c
  <2>2. QED
    BY ONLY <2>1, DivIs, m \in Nat \ {0}
<1>8. QED
  BY <1>6, <1>7 DEF b

LEMMA SlotBelow ==
  ASSUME NEW m \in Nat \ {0}, NEW a \in 0 .. m - 1 PROVE a % m = a
OBVIOUS

(* The inductive invariant.                                                *)
RecallInv ==
  /\ Recall!TypeOK /\ added \in Seq(Commands)
  /\ Recall!HoldsRecent /\ Recall!WalksThrough

LEMMA RecallStep == [UserNext]_userVars => [Recall!Next]_(Recall!vars)
BY DEF UserNext, userVars, Carried, recallVars, Recall!vars

LEMMA RecallConstants ==
  /\ MAX_HISTORY \in Nat \ {0} /\ Empty \notin Commands
BY Recall!HistoryAssumption DEF Recall!HistoryAssumption

LEMMA SlotType ==
  ASSUME NEW n \in Nat PROVE Recall!Slot(n) \in 0 .. MAX_HISTORY - 1
BY RecallConstants, DivOf DEF Recall!Slot

LEMMA RecallInvInit == UserInit => RecallInv
<1> SUFFICES ASSUME UserInit PROVE RecallInv
  OBVIOUS
<1>1. Recall!Init
  BY DEF UserInit
<1>2. added = <<>> /\ Len(added) = 0 /\ added \in Seq(Commands)
  BY <1>1, EmptySeq DEF Recall!Init
<1>3. Recall!TypeOK
  <2>1. history \in [0 .. MAX_HISTORY - 1 -> Commands \union {Empty}]
    BY <1>1 DEF Recall!Init
  <2>2. history_count = 0 /\ history_pos = 0 /\ edited = Empty /\ recalled = FALSE
    BY <1>1 DEF Recall!Init
  <2>3. history_count \in Nat /\ history_pos \in 0 .. history_count
    BY <2>2
  <2>4. edited \in Commands \union {Empty} /\ recalled \in BOOLEAN
    BY <2>2, Zenon
  <2>5. QED
    BY <2>1, <2>3, <2>4, Zenon DEF Recall!TypeOK
<1>4. Recall!HoldsRecent
  BY <1>1, <1>2 DEF Recall!Init, Recall!HoldsRecent, Recall!Listed
<1>5. Recall!WalksThrough
  BY <1>1, <1>2 DEF Recall!Init, Recall!WalksThrough
<1>6. QED
  BY <1>2, <1>3, <1>4, <1>5 DEF RecallInv

(* What an index of a ring that has not gone round leads to.                   *)
LEMMA NotRound ==
  ASSUME RecallInv, history_count <= MAX_HISTORY, NEW n \in 0 .. history_count - 1
  PROVE  Recall!Slot(n) = n /\ history[n] = added[n + 1]
<1>1. n \in 0 .. MAX_HISTORY - 1 /\ MAX_HISTORY \in Nat \ {0} /\ n \in Recall!Listed
  BY RecallConstants DEF RecallInv, Recall!TypeOK, Recall!Listed
<1>2. Recall!Slot(n) = n
  BY <1>1, SlotBelow DEF Recall!Slot
<1>3. QED
  BY <1>1, <1>2 DEF RecallInv, Recall!HoldsRecent

(* What the arrow keys find at the position p.                                 *)
LEMMA FoundAt ==
  ASSUME RecallInv, NEW p \in 0 .. history_count - 1
  PROVE  \E n \in Recall!Listed :
           /\ Recall!Slot(n) = Recall!Slot(p) /\ history[Recall!Slot(p)] = added[n + 1]
           /\ p \in Recall!Listed => n = p
<1> DEFINE t == history_count - 1
           m == MAX_HISTORY
<1>1. m \in Nat \ {0} /\ p \in Nat /\ t \in Nat /\ p <= t /\ history_count = t + 1
  BY RecallConstants DEF RecallInv, Recall!TypeOK
<1>2. \A n \in Recall!Listed : history[Recall!Slot(n)] = added[n + 1]
  BY DEF RecallInv, Recall!HoldsRecent
<1>3. CASE p \in Recall!Listed
  BY <1>2, <1>3
<1>4. CASE p \notin Recall!Listed
  <2> HIDE DEF t, m
  <2>1. PICK n \in 0 .. t : n + m > t /\ n % m = p % m
    BY <1>1, LastOfSlot
  <2>2. n \in Recall!Listed
    BY <1>1, <2>1 DEF Recall!Listed, m
  <2>3. Recall!Slot(n) = Recall!Slot(p)
    BY <2>1 DEF Recall!Slot, m
  <2>4. QED
    BY <1>2, <1>4, <2>2, <2>3
<1>5. QED
  BY <1>3, <1>4

LEMMA AddKeeps ==
  ASSUME RecallInv, Recall!Enter, Recall!add(edited),
         history_count <= MAX_HISTORY => ~ (history_count > 0 /\ history[history_count - 1] = edited)
  PROVE  RecallInv'
<1> DEFINE c == edited
           n == history_count
<1>1. c \in Commands /\ n \in Nat /\ MAX_HISTORY \in Nat \ {0} /\ n = Len(added)
      /\ added \in Seq(Commands)
  BY RecallConstants DEF RecallInv, Recall!TypeOK, Recall!HoldsRecent, Recall!Enter
<1>2. /\ history' = [history EXCEPT ![Recall!Slot(n)] = c]
      /\ history_count' = n + 1 /\ history_pos' = n + 1 /\ added' = Append(added, c)
  BY DEF Recall!add
<1>3. edited' = Empty /\ recalled' = FALSE
  BY DEF Recall!Enter
<1>4. /\ added' \in Seq(Commands) /\ Len(added') = n + 1
      /\ added'[n + 1] = c /\ \A i \in 1 .. n : added'[i] = added[i]
  <2> DEFINE s == Append(added, c)
  <2>1. /\ s \in Seq(Commands) /\ Len(s) = n + 1
        /\ s[n + 1] = c /\ \A i \in 1 .. n : s[i] = added[i]
    BY <1>1, AppendProperties
  <2>2. added' = s
    BY <1>2
  <2> HIDE DEF s
  <2>3. QED
    BY <2>1, <2>2
<1>5. Recall!TypeOK'
  <2>1. history \in [0 .. MAX_HISTORY - 1 -> Commands \union {Empty}]
    BY DEF RecallInv, Recall!TypeOK
  <2>2. history' \in [0 .. MAX_HISTORY - 1 -> Commands \union {Empty}]
    BY <1>1, <1>2, <2>1
  <2>3. history_count' \in Nat /\ history_pos' \in 0 .. history_count'
    BY <1>1, <1>2
  <2>4. QED
    BY <1>3, <2>2, <2>3 DEF Recall!TypeOK
<1>6. Recall!HoldsRecent'
  <2> SUFFICES ASSUME NEW k \in 0 .. n, k + MAX_HISTORY >= n + 1
               PROVE  history'[Recall!Slot(k)] = added'[k + 1]
    <3>1. history_count' = Len(added')
      BY <1>2, <1>4
    <3>2. ASSUME NEW k \in Recall!Listed' PROVE k \in 0 .. n /\ k + MAX_HISTORY >= n + 1
      BY <1>1, <1>2, <3>2 DEF Recall!Listed
    <3>3. ASSUME NEW k PROVE Recall!Slot(k)' = Recall!Slot(k)
      BY DEF Recall!Slot
    <3>4. QED
      BY <3>1, <3>2, <3>3 DEF Recall!HoldsRecent
  <2>1. /\ Recall!Slot(k) \in 0 .. MAX_HISTORY - 1 /\ Recall!Slot(n) \in 0 .. MAX_HISTORY - 1
        /\ history \in [0 .. MAX_HISTORY - 1 -> Commands \union {Empty}]
    BY <1>1, SlotType DEF RecallInv, Recall!TypeOK
  <2>2. CASE k = n
    BY <1>2, <1>4, <2>1, <2>2
  <2>3. CASE k # n
    <3>1. k \in Nat /\ k < n /\ n < k + MAX_HISTORY
      BY <1>1, <2>3
    <3>2. Recall!Slot(k) # Recall!Slot(n)
      BY <1>1, <3>1, SlotsApart DEF Recall!Slot
    <3>3. k \in Recall!Listed /\ k + 1 \in 1 .. n
      BY <1>1, <3>1 DEF Recall!Listed
    <3>4. history[Recall!Slot(k)] = added[k + 1]
      BY <3>3 DEF RecallInv, Recall!HoldsRecent
    <3>5. history'[Recall!Slot(k)] = history[Recall!Slot(k)]
      BY <1>2, <2>1, <3>2
    <3>6. QED
      BY <1>4, <3>3, <3>4, <3>5
  <2>4. QED
    BY <2>2, <2>3
<1>7. Recall!WalksThrough'
  <2> SUFFICES ASSUME NEW i \in 1 .. n, i <= MAX_HISTORY
               PROVE  added'[i] # added'[i + 1]
    BY <1>1, <1>2, <1>3, <1>4 DEF Recall!WalksThrough
  <2>1. CASE i = n
    <3>1. n - 1 \in 0 .. history_count - 1 /\ history[n - 1] # c /\ n <= MAX_HISTORY
      BY <1>1, <2>1
    <3>2. history[n - 1] = added[(n - 1) + 1]
      BY <3>1, NotRound
    <3>3. QED
      BY <1>1, <1>4, <2>1, <3>1, <3>2
  <2>2. CASE i # n
    <3>1. i \in 1 .. Len(added) - 1 /\ i + 1 \in 1 .. n
      BY <1>1, <2>2
    <3>2. added[i] # added[i + 1]
      BY <3>1 DEF RecallInv, Recall!WalksThrough
    <3>3. QED
      BY <1>4, <3>1, <3>2
  <2>3. QED
    BY <2>1, <2>2
<1>8. QED
  BY <1>4, <1>5, <1>6, <1>7 DEF RecallInv

(* An arrow key has put c into the line, at the position p.                     *)
Walked(p, c) ==
  IF p = history_count THEN c = Empty
  ELSE \E n \in Recall!Listed :
         /\ Recall!Slot(n) = Recall!Slot(p) /\ c = added[n + 1]
         /\ p \in Recall!Listed => n = p

LEMMA RecallInvNext == RecallInv /\ [Recall!Next]_(Recall!vars) => RecallInv'
<1> SUFFICES ASSUME RecallInv, [Recall!Next]_(Recall!vars) PROVE RecallInv'
  OBVIOUS
<1>1. /\ history_count \in Nat /\ history_pos \in 0 .. history_count
      /\ history_count = Len(added)
      /\ history \in [0 .. MAX_HISTORY - 1 -> Commands \union {Empty}]
      /\ edited \in Commands \union {Empty} /\ recalled \in BOOLEAN
  BY DEF RecallInv, Recall!TypeOK, Recall!HoldsRecent
(* What leaves the stored commands alone.                                    *)
<1>2. ASSUME UNCHANGED <<history, history_count, added>>,
             history_pos' \in 0 .. history_count,
             edited' \in Commands \union {Empty}, recalled' \in BOOLEAN,
             recalled' => Walked(history_pos', edited')
      PROVE  RecallInv'
  <2>1. Recall!TypeOK' /\ added' \in Seq(Commands)
    BY <1>1, <1>2 DEF RecallInv, Recall!TypeOK
  <2>2. Recall!HoldsRecent'
    BY <1>2 DEF RecallInv, Recall!HoldsRecent, Recall!Listed
  <2>3. Recall!WalksThrough'
    <3>1. Recall!Listed' = Recall!Listed /\ \A k : Recall!Slot(k)' = Recall!Slot(k)
      BY <1>2 DEF Recall!Listed, Recall!Slot
    <3>2. recalled' => IF history_pos' = history_count' THEN edited' = Empty
                       ELSE \E n \in Recall!Listed' :
                              /\ Recall!Slot(n)' = Recall!Slot(history_pos)'
                              /\ edited' = added'[n + 1]
                              /\ history_pos' \in Recall!Listed' => n = history_pos'
      BY <1>2, <3>1 DEF Walked, Recall!Slot
    <3>3. \A i \in 1 .. Len(added') - 1 : i <= MAX_HISTORY => added'[i] # added'[i + 1]
      BY <1>2 DEF RecallInv, Recall!WalksThrough
    <3>4. QED
      BY <3>2, <3>3 DEF Recall!WalksThrough
  <2>4. QED
    BY <2>1, <2>2, <2>3 DEF RecallInv
<1>3. CASE Recall!Edit
  BY <1>1, <1>2, <1>3 DEF Recall!Edit
<1>4. CASE Recall!Enter
  <2>1. CASE Recall!add(edited) /\ FALSE \in Recall!Repeats(edited)
    <3>1. history_count <= MAX_HISTORY =>
            ~ (history_count > 0 /\ history[history_count - 1] = edited)
      BY <2>1 DEF Recall!Repeats
    <3>2. QED
      BY <1>4, <2>1, <3>1, AddKeeps
  <2>2. CASE UNCHANGED <<history, history_count, history_pos, added>>
    BY <1>1, <1>2, <1>4, <2>2 DEF Recall!Enter
  <2>3. QED
    BY <1>4, <2>1, <2>2 DEF Recall!Enter, Recall!Repeats
<1>5. CASE Recall!HistoryUp
  <2>1. /\ history_pos' \in 0 .. history_count - 1 /\ history_pos' \in Nat
        /\ edited' = history[Recall!Slot(history_pos')] /\ recalled' = TRUE
        /\ UNCHANGED <<history, history_count, added>>
    BY <1>1, <1>5 DEF Recall!HistoryUp
  <2>2. edited' \in Commands \union {Empty}
    BY <1>1, <2>1, SlotType
  <2>3. Walked(history_pos', edited')
    <3>1. \A p \in 0 .. history_count - 1 : Walked(p, history[Recall!Slot(p)])
      BY <1>1, FoundAt DEF Walked
    <3>2. QED
      BY <2>1, <3>1
  <2>4. history_pos' \in 0 .. history_count /\ recalled' \in BOOLEAN
    BY <1>1, <2>1
  <2>5. QED
    BY <1>2, <2>1, <2>2, <2>3, <2>4, Zenon
<1>6. CASE Recall!HistoryDown
  <2>1. /\ history_pos' \in 0 .. history_count /\ history_pos' \in Nat
        /\ edited' = IF history_pos' < history_count
                     THEN history[Recall!Slot(history_pos')] ELSE Empty
        /\ recalled' = TRUE /\ UNCHANGED <<history, history_count, added>>
    BY <1>1, <1>6 DEF Recall!HistoryDown
  <2>2. edited' \in Commands \union {Empty}
    BY <1>1, <2>1, SlotType
  <2>3. Walked(history_pos', edited')
    <3>1. \A p \in 0 .. history_count - 1 : Walked(p, history[Recall!Slot(p)])
      BY <1>1, FoundAt DEF Walked
    <3>2. CASE history_pos' < history_count
      <4>1. history_pos' \in 0 .. history_count - 1
        BY <1>1, <2>1, <3>2
      <4>2. QED
        BY <2>1, <3>1, <3>2, <4>1
    <3>3. CASE ~ (history_pos' < history_count)
      <4>1. history_pos' = history_count /\ edited' = Empty
        BY <1>1, <2>1, <3>3
      <4>2. QED
        BY <4>1 DEF Walked
    <3>4. QED
      BY <3>2, <3>3
  <2>4. recalled' \in BOOLEAN
    BY <2>1
  <2>5. QED
    BY <1>2, <2>1, <2>2, <2>3, <2>4, Zenon
<1>7. CASE UNCHANGED Recall!vars
  BY <1>1, <1>2, <1>7 DEF Recall!vars, RecallInv, Recall!WalksThrough, Walked
<1>8. QED
  BY <1>3, <1>4, <1>5, <1>6, <1>7 DEF Recall!Next

-----------------------------------------------------------------------------
(* The shell's commands: the words of a line.                               *)

Starts(t, n) ==
  {i \in 1 .. n : t[i] = Shell!LETTER /\ (i = 1 \/ t[i - 1] = Shell!BLANK)}

(* Of the word that begins at w in the line t of n characters, c is what is left  *)
(* before q, and e is where it ends.                                        *)
Ended(t, n, c, q, w, e) ==
  /\ \A i \in w .. e - 1 : t[i] = Shell!LETTER /\ c[i] # Shell!NUL
  /\ e = n + 1 \/ (e < q /\ t[e] = Shell!BLANK /\ c[e] = Shell!NUL)

(* parse_command has made c of the line t as far as q and found the words a.     *)
Cut(t, n, c, a, q) ==
  /\ q \in 1 .. n + 1
  /\ \A i \in q .. n : c[i] = t[i]
  /\ \A i \in 1 .. n : c[i] = Shell!NUL => t[i] = Shell!BLANK
  /\ q \in {1, n + 1} \/ t[q - 1] = Shell!BLANK
  /\ \A k \in 1 .. Len(a) : a[k] \in Starts(t, n) /\ a[k] < q
  /\ \A k \in 1 .. Len(a) : \A j \in 1 .. k - 1 : a[j] < a[k]
  /\ \A i \in Starts(t, n) : i < q => \E k \in 1 .. Len(a) : a[k] = i
  /\ \A k \in 1 .. Len(a) : \E e \in a[k] + 1 .. q : Ended(t, n, c, q, a[k], e)

(* k is the first place from i on where c has one of chars.                    *)
FirstOf(c, n, chars, i, k) ==
  /\ k \in i .. n + 1 /\ (k = n + 1 \/ c[k] \in chars)
  /\ \A m \in i .. k - 1 : c[m] \notin chars

LEMMA NextIs ==
  ASSUME NEW c, NEW n \in Nat, NEW chars, NEW i \in 1 .. n + 1
  PROVE  \E k \in i .. n + 1 : FirstOf(c, n, chars, i, k)
<1> DEFINE D == {k \in i .. n + 1 : k = n + 1 \/ c[k] \in chars}
<1>1. D \in SUBSET Nat /\ D # {}
  OBVIOUS
<1>2. PICK k \in D : \A m \in D : k <= m
  <2> HIDE DEF D
  <2> QED
    BY <1>1, LeastIn
<1>3. \A m \in i .. k - 1 : c[m] \notin chars
  BY <1>2
<1>4. QED
  BY <1>2, <1>3 DEF FirstOf

LEMMA NothingLeft ==
  ASSUME NEW n \in Nat, NEW t, \A i \in 1 .. n : t[i] \in {Shell!BLANK, Shell!LETTER},
         NEW c, NEW a, NEW q, Cut(t, n, c, a, q), Len(a) \in Nat,
         FirstOf(c, n, {Shell!LETTER}, q, n + 1)
  PROVE  Cut(t, n, c, a, n + 1)
<1>1. q \in 1 .. n + 1 /\ n + 1 \in 1 .. n + 1
  BY DEF Cut
<1>2. \A i \in q .. n : t[i] # Shell!LETTER
  BY <1>1 DEF Cut, FirstOf
<1>3. ASSUME NEW i \in Starts(t, n) PROVE i < q
  BY <1>1, <1>2 DEF Starts
<1>4. ASSUME NEW k \in 1 .. Len(a)
      PROVE  \E e \in a[k] + 1 .. n + 1 : Ended(t, n, c, n + 1, a[k], e)
  <2>1. PICK e \in a[k] + 1 .. q : Ended(t, n, c, q, a[k], e)
    BY DEF Cut
  <2>2. e \in a[k] + 1 .. n + 1 /\ Ended(t, n, c, n + 1, a[k], e)
    BY <1>1, <2>1 DEF Ended
  <2>3. QED
    BY <2>2
<1>5. \A k \in 1 .. Len(a) : a[k] \in Starts(t, n) /\ a[k] < n + 1
  BY <1>1 DEF Cut, Starts
<1>6. \A i \in Starts(t, n) : i < n + 1 => \E k \in 1 .. Len(a) : a[k] = i
  BY <1>3 DEF Cut
<1>7. QED
  BY <1>1, <1>4, <1>5, <1>6 DEF Cut

LEMMA WordCut ==
  ASSUME NEW n \in Nat, NEW t, \A i \in 1 .. n : t[i] \in {Shell!BLANK, Shell!LETTER},
         NEW c, NEW a \in Seq(Nat), NEW q, Cut(t, n, c, a, q),
         NEW first \in 1 .. n, FirstOf(c, n, {Shell!LETTER}, q, first),
         NEW last \in 1 .. n + 1, FirstOf(c, n, {Shell!BLANK}, first, last),
         NEW w, \A i \in 1 .. n : w[i] = IF i = last THEN Shell!NUL ELSE c[i],
         NEW r, r = IF last = n + 1 THEN n + 1 ELSE last + 1
  PROVE  Cut(t, n, w, Append(a, first), r)
<1> DEFINE b == Append(a, first)
           m == Len(a)
<1>1. /\ m \in Nat /\ Len(b) = m + 1 /\ b[m + 1] = first
      /\ \A k \in 1 .. m : b[k] = a[k]
  BY LenProperties, AppendProperties
<1> HIDE DEF b, m
<1>2. q \in 1 .. n + 1 /\ q <= first /\ \A i \in q .. n : c[i] = t[i]
  BY DEF Cut, FirstOf
<1>3. /\ t[first] = Shell!LETTER /\ \A i \in q .. first - 1 : t[i] = Shell!BLANK
  <2>1. \A i \in q .. first - 1 : i \in 1 .. n /\ t[i] # Shell!LETTER
    <3> SUFFICES ASSUME NEW i \in q .. first - 1 PROVE i \in 1 .. n /\ t[i] # Shell!LETTER
      OBVIOUS
    <3>1. c[i] # Shell!LETTER
      BY DEF FirstOf
    <3>2. i \in 1 .. n /\ i \in q .. n
      BY <1>2
    <3>3. QED
      BY <1>2, <3>1, <3>2
  <2>2. t[first] = Shell!LETTER
    <3>1. c[first] = Shell!LETTER
      BY DEF FirstOf
    <3>2. QED
      BY <1>2, <3>1
  <2>3. QED
    BY <2>1, <2>2
<1>4. /\ last \in first + 1 .. n + 1
      /\ \A i \in first .. last - 1 : t[i] = Shell!LETTER /\ w[i] # Shell!NUL
      /\ last # n + 1 => t[last] = Shell!BLANK /\ w[last] = Shell!NUL
  <2>1. last # first
    <3>1. first \in q .. n /\ c[first] = Shell!LETTER
      BY <1>2, <1>3
    <3>2. last = n + 1 \/ c[last] = Shell!BLANK
      <4>1. last = n + 1 \/ c[last] \in {Shell!BLANK}
        BY Zenon DEF FirstOf
      <4>2. QED
        BY <4>1, Zenon
    <3>3. Shell!BLANK # Shell!LETTER
      BY DEF Shell!LETTER, Shell!BLANK
    <3>4. first # n + 1
      BY <3>1
    <3>5. QED
      BY <3>1, <3>2, <3>3, <3>4, Zenon
  <2>2. last \in first .. n + 1
    BY DEF FirstOf
  <2>3. ASSUME NEW i \in first .. last - 1 PROVE t[i] = Shell!LETTER /\ w[i] # Shell!NUL
    <3>1. i \in 1 .. n /\ i \in q .. n /\ i # last
      BY <1>2, <2>2
    <3>2. c[i] = t[i] /\ t[i] # Shell!BLANK /\ w[i] = c[i]
      BY <1>2, <3>1 DEF FirstOf
    <3>3. QED
      BY <3>1, <3>2 DEF Shell!LETTER, Shell!BLANK, Shell!NUL
  <2>4. ASSUME last # n + 1 PROVE t[last] = Shell!BLANK /\ w[last] = Shell!NUL
    <3>1. last \in 1 .. n /\ last \in q .. n
      BY <1>2, <2>2, <2>4
    <3>2. QED
      BY <1>2, <2>4, <3>1 DEF FirstOf
  <2>5. QED
    BY <2>1, <2>2, <2>3, <2>4
<1>5. r \in 1 .. n + 1 /\ r > first /\ r >= q /\ r >= last
  BY <1>2, <1>4
<1>6. \A i \in r .. n : w[i] = t[i]
  BY <1>2, <1>4, <1>5
<1>7. \A i \in 1 .. n : w[i] = Shell!NUL => t[i] = Shell!BLANK
  BY <1>4 DEF Cut
<1>8. r \in {1, n + 1} \/ t[r - 1] = Shell!BLANK
  BY <1>4
<1>9. first \in Starts(t, n)
  <2>1. first = 1 \/ t[first - 1] = Shell!BLANK
    <3>1. CASE first = q
      BY <1>2, <3>1 DEF Cut
    <3>2. CASE first # q
      BY <1>2, <1>3, <3>2
    <3>3. QED
      BY <3>1, <3>2
  <2>2. QED
    BY <1>3, <2>1 DEF Starts
<1>10. \A k \in 1 .. m : a[k] \in Starts(t, n) /\ a[k] < q
  BY DEF Cut, m
<1>11. \A k \in 1 .. m + 1 : b[k] \in Starts(t, n) /\ b[k] < r
  <2>1. ASSUME NEW k \in 1 .. m PROVE b[k] \in Starts(t, n) /\ b[k] < r
    <3>1. a[k] \in Starts(t, n) /\ a[k] < q /\ a[k] \in Nat
      BY <1>10 DEF Starts
    <3>2. QED
      BY <1>1, <1>2, <1>5, <3>1
  <2>2. QED
    BY <1>1, <1>5, <1>9, <2>1
<1>12. \A k \in 1 .. m + 1 : \A j \in 1 .. k - 1 : b[j] < b[k]
  <2> SUFFICES ASSUME NEW k \in 1 .. m + 1, NEW j \in 1 .. k - 1 PROVE b[j] < b[k]
    OBVIOUS
  <2>1. j \in 1 .. m /\ b[j] = a[j] /\ a[j] \in Nat /\ a[j] < q
    BY <1>1, <1>10 DEF Starts
  <2>2. CASE k = m + 1
    BY <1>1, <1>2, <2>1, <2>2
  <2>3. CASE k # m + 1
    <3>1. k \in 1 .. m
      BY <1>1, <2>3
    <3>2. a[j] < a[k]
      BY <3>1 DEF Cut, m
    <3>3. QED
      BY <1>1, <2>1, <3>1, <3>2
  <2>4. QED
    BY <2>2, <2>3
<1>13. ASSUME NEW i \in Starts(t, n), i < r PROVE \E k \in 1 .. m + 1 : b[k] = i
  <2>1. i \in 1 .. n /\ t[i] = Shell!LETTER /\ (i = 1 \/ t[i - 1] = Shell!BLANK)
    BY DEF Starts
  <2>2. CASE i < q
    <3>1. PICK k \in 1 .. m : a[k] = i
      BY <2>2 DEF Cut, m
    <3>2. k \in 1 .. m + 1 /\ b[k] = i
      BY <1>1, <3>1
    <3>3. QED
      BY <3>2
  <2>3. CASE i \in q .. first - 1
    BY <1>3, <2>1, <2>3 DEF Shell!LETTER, Shell!BLANK
  <2>4. CASE i = first
    <3>1. m + 1 \in 1 .. m + 1 /\ b[m + 1] = i
      BY <1>1, <2>4
    <3>2. QED
      BY <3>1
  <2>5. CASE i \in first + 1 .. last - 1
    <3>1. i - 1 \in first .. last - 1 /\ i # 1
      BY <2>5
    <3>2. t[i - 1] = Shell!LETTER
      BY <1>4, <3>1
    <3>3. QED
      BY <2>1, <3>1, <3>2 DEF Shell!LETTER, Shell!BLANK
  <2>6. CASE i = last /\ last # n + 1
    BY <1>4, <2>1, <2>6 DEF Shell!LETTER, Shell!BLANK
  <2>7. QED
    BY <1>2, <1>4, <1>13, <2>1, <2>2, <2>3, <2>4, <2>5, <2>6
<1>14. ASSUME NEW k \in 1 .. m + 1
       PROVE  \E e \in b[k] + 1 .. r : Ended(t, n, w, r, b[k], e)
  <2>1. CASE k = m + 1
    <3>1. b[k] = first /\ last \in first + 1 .. r
      BY <1>1, <1>4, <1>5, <2>1
    <3>2. Ended(t, n, w, r, first, last)
      BY <1>4 DEF Ended
    <3>3. QED
      BY <3>1, <3>2
  <2>2. CASE k # m + 1
    <3>1. k \in 1 .. m /\ b[k] = a[k] /\ a[k] \in 1 .. n
      BY <1>1, <1>10, <2>2 DEF Starts
    <3>2. PICK e \in a[k] + 1 .. q : Ended(t, n, c, q, a[k], e)
      BY <3>1 DEF Cut, m
    <3>3. q < last /\ q <= n
      BY <1>2, <1>4
    <3>4. e # n + 1 /\ e < q /\ t[e] = Shell!BLANK /\ c[e] = Shell!NUL
      BY <1>2, <3>2, <3>3 DEF Ended
    <3>5. \A i \in a[k] .. e : i \in 1 .. n /\ i # last /\ w[i] = c[i]
      <4>1. \A i \in a[k] .. e : i \in 1 .. n /\ i # last
        BY <1>2, <3>1, <3>3, <3>4
      <4>2. QED
        BY <4>1
    <3>6. Ended(t, n, w, r, a[k], e) /\ e \in a[k] + 1 .. r
      <4>1. \A i \in a[k] .. e - 1 : t[i] = Shell!LETTER /\ w[i] # Shell!NUL
        <5>1. \A i \in a[k] .. e - 1 : t[i] = Shell!LETTER /\ c[i] # Shell!NUL
          BY <3>2 DEF Ended
        <5>2. e \in Int /\ \A i \in a[k] .. e - 1 : i \in a[k] .. e
          BY <3>1, <3>2
        <5>3. QED
          BY <3>5, <5>1, <5>2
      <4>2. e \in a[k] + 1 .. r /\ e < r /\ e \in a[k] .. e
        BY <1>2, <1>5, <3>1, <3>2, <3>4
      <4>3. w[e] = Shell!NUL
        BY <3>4, <3>5, <4>2
      <4>4. QED
        BY <3>4, <4>1, <4>2, <4>3 DEF Ended
    <3>7. QED
      BY <3>1, <3>6
  <2>3. QED
    BY <2>1, <2>2
<1>15. QED
  BY <1>1, <1>5, <1>6, <1>7, <1>8, <1>11, <1>12, <1>13, <1>14 DEF Cut, b

LEMMA OneToOne ==
  ASSUME NEW P, NEW Q, NEW f \in [P -> Q], \A x, y \in P : f[x] = f[y] => x = y,
         \A y \in Q : \E x \in P : f[x] = y
  PROVE  ExistsBijection(P, Q)
BY DEF ExistsBijection, Bijection, Injection, Surjection, IsInjective

LEMMA FiniteUpto ==
  ASSUME NEW m \in Nat PROVE IsFiniteSet(1 .. m) /\ Cardinality(1 .. m) = m
<1>1. IsFiniteSet(1 .. m) /\ Cardinality(1 .. m) = IF 1 > m THEN 0 ELSE m - 1 + 1
  BY FS_Interval
<1>2. QED
  BY <1>1

Increasing(a, m) ==
  /\ \A k \in 1 .. m : a[k] \in Nat
  /\ \A k \in 1 .. m : \A j \in 1 .. k - 1 : a[j] < a[k]
Members(a, m) == {a[k] : k \in 1 .. m}

LEMMA CountOf ==
  ASSUME NEW m \in Nat, NEW a, Increasing(a, m)
  PROVE  IsFiniteSet(Members(a, m)) /\ Cardinality(Members(a, m)) = m
<1> DEFINE W == Members(a, m)
           D == 1 .. m
           f == [k \in D |-> a[k]]
<1>1. f \in [D -> W] /\ \A y \in W : \E k \in D : f[k] = y
  BY DEF Members
<1>2. \A j, k \in D : f[j] = f[k] => j = k
  <2> SUFFICES ASSUME NEW j \in 1 .. m, NEW k \in 1 .. m, a[j] = a[k], j # k PROVE FALSE
    OBVIOUS
  <2>1. j \in 1 .. k - 1 \/ k \in 1 .. j - 1
    OBVIOUS
  <2>2. a[j] < a[k] \/ a[k] < a[j]
    BY <2>1 DEF Increasing
  <2>3. a[j] \in Nat /\ a[k] \in Nat
    BY DEF Increasing
  <2>4. QED
    BY <2>2, <2>3
<1>3. IsFiniteSet(D) /\ Cardinality(D) = m
  BY FiniteUpto
<1> HIDE DEF f, W, D
<1>4. ExistsBijection(D, W)
  BY <1>1, <1>2, OneToOne
<1>5. IsFiniteSet(W) /\ Cardinality(W) = Cardinality(D)
  BY <1>3, <1>4, FS_Bijection
<1>6. QED
  BY <1>3, <1>5 DEF W

(* The words found are the first of the line, by their number.                 *)
LEMMA CutCounts ==
  ASSUME NEW n \in Nat, NEW t, NEW c, NEW a, NEW q, Len(a) \in Nat, Cut(t, n, c, a, q)
  PROVE  /\ \A k \in 1 .. Len(a) :
              Cardinality({i \in Starts(t, n) : i < a[k]}) = k - 1
         /\ q = n + 1 => Cardinality(Starts(t, n)) = Len(a)
         /\ Cardinality(Starts(t, n)) \in Nat /\ Len(a) <= Cardinality(Starts(t, n))
<1> DEFINE S == Starts(t, n)
           m == Len(a)
<1>1. /\ \A k \in 1 .. m : a[k] \in S /\ a[k] < q
      /\ \A k \in 1 .. m : \A j \in 1 .. k - 1 : a[j] < a[k]
      /\ \A i \in S : i < q => \E k \in 1 .. m : a[k] = i
      /\ q \in 1 .. n + 1
  BY DEF Cut
<1>2. S \subseteq 1 .. n /\ m \in Nat
  BY DEF Starts
<1> HIDE DEF S, m
<1>3. \A k \in 1 .. m : a[k] \in Nat
  <2> SUFFICES ASSUME NEW k \in 1 .. m PROVE a[k] \in Nat
    OBVIOUS
  <2>1. a[k] \in 1 .. n
    BY <1>1, <1>2
  <2>2. QED
    BY <2>1
<1>4. IsFiniteSet(S) /\ Cardinality(S) \in Nat
  <2>1. IsFiniteSet(1 .. n)
    BY FiniteUpto
  <2>2. IsFiniteSet(S)
    BY <1>2, <2>1, FS_Subset
  <2>3. QED
    BY <2>2, FS_CardinalityType
<1>5. ASSUME NEW k \in 1 .. m PROVE Cardinality({i \in S : i < a[k]}) = k - 1
  <2> DEFINE W == {i \in S : i < a[k]}
  <2>1. W = Members(a, k - 1)
    <3>1. ASSUME NEW i \in W PROVE \E j \in 1 .. k - 1 : i = a[j]
      <4>1. i \in S /\ i < a[k] /\ a[k] < q /\ i \in Nat /\ a[k] \in Nat /\ q \in Nat
        BY <1>1, <1>2, <1>3
      <4>2. PICK j \in 1 .. m : a[j] = i
        BY <1>1, <4>1
      <4>3. ~ (k \in 1 .. j - 1) /\ k # j
        BY <1>1, <4>1, <4>2
      <4>4. j \in 1 .. k - 1
        BY <1>2, <4>3
      <4>5. QED
        BY <4>2, <4>4
    <3>2. ASSUME NEW j \in 1 .. k - 1 PROVE a[j] \in W
      <4>1. j \in 1 .. m
        BY <1>2
      <4>2. QED
        BY <1>1, <4>1
    <3>3. QED
      BY <3>1, <3>2 DEF Members
  <2>2. k - 1 \in Nat /\ Increasing(a, k - 1)
    BY <1>1, <1>2, <1>3 DEF Increasing
  <2> HIDE DEF W
  <2>3. Cardinality(W) = k - 1
    BY <2>1, <2>2, CountOf
  <2>4. QED
    BY <2>3 DEF W
<1>6. q = n + 1 => Cardinality(S) = m
  <2> SUFFICES ASSUME q = n + 1 PROVE Cardinality(S) = m
    OBVIOUS
  <2>1. \A i \in S : i < q
    BY <1>2
  <2>2. S = Members(a, m)
    BY <1>1, <2>1 DEF Members
  <2>3. Increasing(a, m)
    BY <1>1, <1>3 DEF Increasing
  <2>4. QED
    BY <1>2, <2>2, <2>3, CountOf
<1>7. m <= Cardinality(S)
  <2>1. Members(a, m) \subseteq S
    BY <1>1 DEF Members
  <2>2. Increasing(a, m)
    BY <1>1, <1>3 DEF Increasing
  <2>3. Cardinality(Members(a, m)) = m
    BY <1>2, <2>2, CountOf
  <2>4. QED
    BY <1>4, <2>1, <2>3, FS_Subset
<1>8. QED
  BY <1>4, <1>5, <1>6, <1>7 DEF S, m

-----------------------------------------------------------------------------
(* The shell's commands: the inductive invariant.                            *)

LineLen == Len(line.text)
WordsCut ==
  \E q \in 1 .. LineLen + 1 :
    /\ Cut(line.text, LineLen, cmd, args, q)
    /\ q = LineLen + 1 \/ Len(args) = MAX_ARGS - 1
Tried(n) == passed = {PATH[j] : j \in 1 .. n - 1}

ShellTypes ==
  /\ line.text \in Seq({Shell!BLANK, Shell!LETTER})
  /\ cmd \in Seq({Shell!BLANK, Shell!LETTER, Shell!NUL}) /\ Len(cmd) = LineLen
  /\ args \in Seq(Nat)
ShellAt ==
  /\ shell = "exit?" => cmd = line.text /\ args = <<>> /\ position = 1
  /\ shell = "parse" => Cut(line.text, LineLen, cmd, args, position)
  /\ shell \in {"parsed", "search", "fork", "wait"} => WordsCut
ProgramAt ==
  /\ shell = "search" => position \in 1 .. Len(PATH) + 1 /\ Tried(position)
  /\ shell \in {"fork", "wait"} =>
       position \in 1 .. Len(PATH) /\ fullpath = PATH[position] /\ Tried(position)
  /\ child # "none" => shell = "wait"
ShellInv == Shell!TypeOK /\ ShellTypes /\ ShellAt /\ ProgramAt

LEMMA ShellStep == [UserNext]_userVars => [Shell!Next]_(Shell!vars)
BY DEF UserNext, userVars, Carried, shellVars, Shell!vars

LEMMA ShellConstants ==
  /\ MAX_ARGS \in Nat \ {0, 1} /\ MaxText \in Nat
  /\ PATH \in Seq(Dirs) /\ Len(PATH) \in Nat /\ DOMAIN PATH = 1 .. Len(PATH)
  /\ \A k \in 1 .. Len(PATH) : PATH[k] \in Dirs
<1>1. MAX_ARGS \in Nat \ {0, 1} /\ MaxText \in Nat /\ PATH \in Seq(Dirs)
  BY Shell!CommandsAssumption DEF Shell!CommandsAssumption
<1>2. QED
  BY <1>1, LenProperties, ElementOfSeq

LEMMA TextsAre == \A t \in Shell!Texts : t \in Seq({Shell!BLANK, Shell!LETTER})
<1> SUFFICES ASSUME NEW t \in Shell!Texts PROVE t \in Seq({Shell!BLANK, Shell!LETTER})
  OBVIOUS
<1>1. PICK n \in 0 .. MaxText : t \in [1 .. n -> {Shell!BLANK, Shell!LETTER}]
  BY DEF Shell!Texts
<1>2. n \in Nat
  BY <1>1, ShellConstants
<1>3. QED
  BY <1>1, <1>2, SeqDef

LEMMA ShellCardinality == \A S : Shell!Cardinality(S) = Cardinality(S)
BY Zenon DEF Shell!Cardinality, Cardinality

LEMMA LineIs ==
  ASSUME ShellInv
  PROVE  /\ LineLen \in Nat /\ DOMAIN line.text = 1 .. LineLen
         /\ \A i \in 1 .. LineLen : line.text[i] \in {Shell!BLANK, Shell!LETTER}
         /\ Shell!End = LineLen + 1 /\ Len(args) \in Nat /\ DOMAIN args = 1 .. Len(args)
         /\ DOMAIN cmd = 1 .. LineLen
         /\ \A i \in 1 .. LineLen : cmd[i] \in {Shell!BLANK, Shell!LETTER, Shell!NUL}
         /\ Shell!WordStarts = Starts(line.text, LineLen)
<1>1. ShellTypes
  BY DEF ShellInv
<1>2. /\ LineLen \in Nat /\ DOMAIN line.text = 1 .. LineLen
      /\ \A i \in 1 .. LineLen : line.text[i] \in {Shell!BLANK, Shell!LETTER}
  BY <1>1, LenProperties, ElementOfSeq DEF ShellTypes, LineLen
<1>3. /\ DOMAIN cmd = 1 .. LineLen
      /\ \A i \in 1 .. LineLen : cmd[i] \in {Shell!BLANK, Shell!LETTER, Shell!NUL}
  BY <1>1, LenProperties, ElementOfSeq DEF ShellTypes
<1>4. Len(args) \in Nat /\ DOMAIN args = 1 .. Len(args)
  BY <1>1, LenProperties DEF ShellTypes
<1>5. Shell!End = LineLen + 1
  BY <1>1 DEF ShellTypes, Shell!End
<1>6. Shell!WordStarts = Starts(line.text, LineLen)
  BY <1>2 DEF Shell!WordStarts, Starts
<1>7. QED
  BY <1>2, <1>3, <1>4, <1>5, <1>6

(* The library's choice of a place is the first one.                          *)
LEMMA NextOfIs ==
  ASSUME ShellInv, NEW chars, NEW i \in 1 .. LineLen + 1
  PROVE  /\ FirstOf(cmd, LineLen, chars, i, Shell!NextOf(chars, i))
         /\ Shell!NextOf(chars, i) \in i .. LineLen + 1
<1>1. LineLen \in Nat /\ Shell!End = LineLen + 1
  BY LineIs
<1>2. \E k \in i .. LineLen + 1 : FirstOf(cmd, LineLen, chars, i, k)
  BY <1>1, NextIs
<1>3. \E k \in i .. Shell!End :
        (k = Shell!End \/ cmd[k] \in chars) /\ \A m \in i .. k - 1 : cmd[m] \notin chars
  BY <1>1, <1>2 DEF FirstOf
<1> DEFINE k == Shell!NextOf(chars, i)
<1>4. /\ k \in i .. Shell!End /\ (k = Shell!End \/ cmd[k] \in chars)
      /\ \A m \in i .. k - 1 : cmd[m] \notin chars
  BY <1>3, Zenon DEF Shell!NextOf
<1> HIDE DEF k
<1>5. QED
  BY <1>1, <1>4 DEF FirstOf, k

LEMMA WordsRight ==
  ASSUME ShellInv, WordsCut
  PROVE  /\ \A k \in DOMAIN args :
              /\ Shell!Cardinality({i \in Shell!WordStarts : i < args[k]}) = k - 1
              /\ args[k] \in Shell!WordStarts
              /\ LET last == Shell!NextOf({Shell!NUL}, args[k]) IN
                   /\ \A i \in args[k] .. last - 1 : line.text[i] = Shell!LETTER
                   /\ last # Shell!End => line.text[last] = Shell!BLANK
         /\ \/ Len(args) = Shell!Cardinality(Shell!WordStarts)
            \/ /\ Len(args) = MAX_ARGS - 1
               /\ Shell!Cardinality(Shell!WordStarts) >= MAX_ARGS
<1> DEFINE n == LineLen
           t == line.text
<1>1. /\ n \in Nat /\ Shell!End = n + 1 /\ Len(args) \in Nat /\ DOMAIN args = 1 .. Len(args)
      /\ Shell!WordStarts = Starts(t, n)
  BY LineIs
<1>2. PICK q \in 1 .. n + 1 :
        Cut(t, n, cmd, args, q) /\ (q = n + 1 \/ Len(args) = MAX_ARGS - 1)
  BY DEF WordsCut
<1>3. /\ \A k \in 1 .. Len(args) : Cardinality({i \in Starts(t, n) : i < args[k]}) = k - 1
      /\ q = n + 1 => Cardinality(Starts(t, n)) = Len(args)
      /\ Cardinality(Starts(t, n)) \in Nat /\ Len(args) <= Cardinality(Starts(t, n))
  BY <1>1, <1>2, CutCounts
<1>4. ASSUME NEW k \in 1 .. Len(args)
      PROVE  /\ args[k] \in Starts(t, n)
             /\ LET last == Shell!NextOf({Shell!NUL}, args[k]) IN
                  /\ \A i \in args[k] .. last - 1 : t[i] = Shell!LETTER
                  /\ last # n + 1 => t[last] = Shell!BLANK
  <2> DEFINE last == Shell!NextOf({Shell!NUL}, args[k])
             w == args[k]
  <2>1. w \in Starts(t, n) /\ w \in 1 .. n
    BY <1>2 DEF Cut, Starts
  <2>2. PICK e \in w + 1 .. q : Ended(t, n, cmd, q, w, e)
    BY <1>2 DEF Cut
  <2>3. FirstOf(cmd, n, {Shell!NUL}, w, last) /\ last \in w .. n + 1
    BY <1>1, <2>1, NextOfIs
  <2> HIDE DEF last, w
  <2>4. \A i \in w .. e - 1 : cmd[i] # Shell!NUL
    BY <2>2 DEF Ended
  <2>5. e \in w + 1 .. n + 1
    BY <1>1, <1>2, <2>1, <2>2
  <2>6. last = e
    <3>1. ~ (last < e)
      <4> SUFFICES ASSUME last < e PROVE FALSE
        OBVIOUS
      <4>1. last \in w .. e - 1 /\ last # n + 1
        BY <1>1, <2>1, <2>3, <2>5
      <4>2. cmd[last] \in {Shell!NUL}
        BY <2>3, <4>1, Zenon DEF FirstOf
      <4>3. QED
        BY <2>4, <4>1, <4>2
    <3>2. ~ (e < last)
      <4> SUFFICES ASSUME e < last PROVE FALSE
        OBVIOUS
      <4>1. e \in w .. last - 1 /\ e # n + 1
        BY <1>1, <2>1, <2>3, <2>5
      <4>2. cmd[e] = Shell!NUL
        BY <2>2, <4>1 DEF Ended
      <4>3. cmd[e] \notin {Shell!NUL}
        BY <2>3, <4>1, Zenon DEF FirstOf
      <4>4. QED
        BY <4>2, <4>3
    <3>3. QED
      BY <1>1, <2>1, <2>3, <2>5, <3>1, <3>2
  <2>7. /\ \A i \in w .. last - 1 : t[i] = Shell!LETTER
        /\ last # n + 1 => t[last] = Shell!BLANK
    BY <2>2, <2>6 DEF Ended
  <2>8. QED
    BY <2>1, <2>7 DEF last, w
<1>5. \/ Len(args) = Cardinality(Starts(t, n))
      \/ Len(args) = MAX_ARGS - 1 /\ Cardinality(Starts(t, n)) >= MAX_ARGS
  BY <1>1, <1>2, <1>3, ShellConstants
<1>6. QED
  BY <1>1, <1>3, <1>4, <1>5, ShellCardinality

LEMMA ShellInvImplies == ShellInv => Shell!TypeOK /\ Shell!CommandRight
<1> SUFFICES ASSUME ShellInv PROVE Shell!TypeOK /\ Shell!CommandRight
  OBVIOUS
<1>1. ShellAt /\ ProgramAt /\ Shell!TypeOK
  BY DEF ShellInv
<1>2. shell \in {"parsed", "search", "fork", "wait"} => WordsCut
  BY <1>1 DEF ShellAt
<1>3. child # "none" =>
        /\ shell = "wait"
        /\ \E k \in DOMAIN PATH :
             fullpath = PATH[k] /\ passed = {PATH[j] : j \in 1 .. k - 1}
  BY <1>1, ShellConstants DEF ProgramAt, Tried
<1>4. Shell!CommandRight
  BY <1>2, <1>3, WordsRight, Zenon DEF Shell!CommandRight
<1>5. QED
  BY <1>1, <1>4

(* What a step that leaves the line and its words alone keeps.                  *)
LEMMA SameLine ==
  ASSUME ShellInv, UNCHANGED <<line, cmd, args>>
  PROVE  /\ ShellTypes' /\ (WordsCut => WordsCut') /\ LineLen' = LineLen
         /\ line.text' \in Shell!Texts /\ Len(cmd') = Len(line.text')
BY DEF ShellInv, ShellTypes, WordsCut, LineLen, Shell!TypeOK

LEMMA ShellInvInit == UserInit => ShellInv
<1> SUFFICES ASSUME UserInit PROVE ShellInv
  OBVIOUS
<1>1. Shell!Init
  BY DEF UserInit
<1>2. /\ shell = "prompt" /\ line.text = <<>> /\ cmd = <<>> /\ args = <<>> /\ position = 1
      /\ executable \in SUBSET Dirs /\ child = "none" /\ passed = {}
  BY <1>1 DEF Shell!Init
<1>3. line.text \in Shell!Texts
  <2>1. 0 \in 0 .. MaxText /\ <<>> \in [1 .. 0 -> {Shell!BLANK, Shell!LETTER}]
    BY ShellConstants
  <2>2. <<>> \in Shell!Texts
    BY <2>1 DEF Shell!Texts
  <2>3. QED
    BY <1>2, <2>2
<1>4. Shell!TypeOK
  BY <1>2, <1>3 DEF Shell!TypeOK
<1>5. ShellTypes
  BY <1>2, EmptySeq DEF ShellTypes, LineLen
<1>6. ShellAt /\ ProgramAt
  BY <1>2 DEF ShellAt, ProgramAt
<1>7. QED
  BY <1>4, <1>5, <1>6 DEF ShellInv

LEMMA EnterKeeps ==
  ASSUME ShellInv, Shell!Enter PROVE ShellInv'
<1>1. /\ shell' = "exit?" /\ shell = "prompt" /\ line'.text \in Shell!Texts
      /\ cmd' = line'.text /\ args' = <<>> /\ position' = 1
      /\ UNCHANGED <<executable, fullpath, child, passed>>
  BY DEF Shell!Enter, Shell!Goto, Shell!running
<1>2. line'.text \in Seq({Shell!BLANK, Shell!LETTER})
  BY <1>1, TextsAre
<1>3. cmd' \in Seq({Shell!BLANK, Shell!LETTER, Shell!NUL})
  <2>1. PICK n \in Nat : line'.text \in [1 .. n -> {Shell!BLANK, Shell!LETTER}]
    BY <1>2, SeqDef
  <2>2. cmd' \in [1 .. n -> {Shell!BLANK, Shell!LETTER, Shell!NUL}]
    BY <1>1, <2>1
  <2>3. QED
    BY <2>2, SeqDef
<1>4. ShellTypes'
  BY <1>1, <1>2, <1>3, EmptySeq DEF ShellTypes, LineLen
<1>5. Shell!TypeOK'
  BY <1>1 DEF ShellInv, Shell!TypeOK
<1>6. ShellAt' /\ ProgramAt'
  BY <1>1 DEF ShellInv, ProgramAt, ShellAt
<1>7. QED
  BY <1>4, <1>5, <1>6 DEF ShellInv

LEMMA NothingCut ==
  ASSUME NEW n \in Nat, NEW t, \A i \in 1 .. n : t[i] \in {Shell!BLANK, Shell!LETTER}
  PROVE  Cut(t, n, t, <<>>, 1)
<1>1. Len(<<>>) = 0
  OBVIOUS
<1>2. \A i \in 1 .. n : t[i] = Shell!NUL => t[i] = Shell!BLANK
  BY DEF Shell!NUL, Shell!BLANK, Shell!LETTER
<1>3. \A i \in Starts(t, n) : ~ (i < 1)
  BY DEF Starts
<1>4. QED
  BY <1>1, <1>2, <1>3 DEF Cut

LEMMA TestExitKeeps ==
  ASSUME ShellInv, Shell!TestExit PROVE ShellInv'
<1>1. /\ shell = "exit?" /\ shell' \in {"ended", "parse"}
      /\ UNCHANGED <<line, cmd, args, position, executable, fullpath, child, passed>>
  BY DEF Shell!TestExit, Shell!Goto, Shell!parsing, Shell!running
<1>2. cmd = line.text /\ args = <<>> /\ position = 1
  BY <1>1 DEF ShellInv, ShellAt
<1>3. Cut(line.text, LineLen, cmd, args, position)
  <2>1. LineLen \in Nat /\ \A i \in 1 .. LineLen : line.text[i] \in {Shell!BLANK, Shell!LETTER}
    BY LineIs
  <2>2. Cut(line.text, LineLen, line.text, <<>>, 1)
    BY <2>1, NothingCut
  <2>3. QED
    BY <1>2, <2>2
<1>4. ShellTypes' /\ LineLen' = LineLen
  BY <1>1, SameLine
<1>5. Shell!TypeOK'
  BY <1>1 DEF ShellInv, Shell!TypeOK
<1>6. ShellAt'
  BY <1>1, <1>3, <1>4 DEF ShellAt
<1>7. ProgramAt'
  BY <1>1 DEF ShellInv, ProgramAt
<1>8. QED
  BY <1>4, <1>5, <1>6, <1>7 DEF ShellInv

LEMMA ChooseKeeps ==
  ASSUME ShellInv, Shell!Choose PROVE ShellInv'
<1>1. /\ shell = "parse" /\ shell' \in {"search", "parsed"}
      /\ position = LineLen + 1 \/ Len(args) = MAX_ARGS - 1
      /\ position' = 1 /\ passed' = {}
      /\ UNCHANGED <<line, cmd, args, executable, fullpath, child>>
  BY LineIs DEF Shell!Choose, Shell!Goto, Shell!parsing
<1>2. Cut(line.text, LineLen, cmd, args, position)
  BY <1>1 DEF ShellInv, ShellAt
<1>3. WordsCut
  BY <1>1, <1>2 DEF WordsCut, Cut
<1>4. ShellTypes' /\ WordsCut'
  BY <1>1, <1>3, SameLine
<1>5. Shell!TypeOK'
  BY <1>1 DEF ShellInv, Shell!TypeOK
<1>6. ShellAt'
  BY <1>1, <1>4 DEF ShellAt
<1>7. ProgramAt'
  <2>1. position' \in 1 .. Len(PATH) + 1 /\ passed' = {PATH[j] : j \in 1 .. position' - 1}
    BY <1>1, ShellConstants
  <2>2. child' = "none"
    BY <1>1 DEF ShellInv, ProgramAt
  <2>3. QED
    BY <1>1, <2>1, <2>2 DEF ProgramAt, Tried
<1>8. QED
  BY <1>4, <1>5, <1>6, <1>7 DEF ShellInv

LEMMA ParseKeeps ==
  ASSUME ShellInv, Shell!parse_command PROVE ShellInv'
<1> DEFINE t == line.text
           n == LineLen
           first == Shell!NextOf({Shell!LETTER}, position)
           last == Shell!NextOf({Shell!BLANK}, first)
<1>1. /\ shell = "parse" /\ shell' = "parse" /\ Len(args) < MAX_ARGS - 1
      /\ UNCHANGED <<line, executable, fullpath, child, passed>>
      /\ IF first = Shell!End
           THEN position' = Shell!End /\ UNCHANGED <<cmd, args>>
           ELSE /\ args' = Append(args, first)
                /\ IF last = Shell!End THEN position' = Shell!End /\ UNCHANGED cmd
                   ELSE position' = last + 1 /\ cmd' = [cmd EXCEPT ![last] = Shell!NUL]
  BY DEF Shell!parse_command, Shell!Goto, Shell!parsing, Shell!running
<1>2. /\ n \in Nat /\ \A i \in 1 .. n : t[i] \in {Shell!BLANK, Shell!LETTER}
      /\ Shell!End = n + 1 /\ Len(args) \in Nat /\ DOMAIN cmd = 1 .. n
  BY LineIs
<1>3. Cut(t, n, cmd, args, position) /\ ShellTypes /\ position \in 1 .. n + 1
  BY <1>1 DEF ShellInv, ShellAt, Cut
<1>4. FirstOf(cmd, n, {Shell!LETTER}, position, first) /\ first \in position .. n + 1
  BY <1>3, NextOfIs
<1> HIDE DEF first
<1>5. /\ Cut(t, n, cmd', args', position')
      /\ cmd' \in Seq({Shell!BLANK, Shell!LETTER, Shell!NUL}) /\ Len(cmd') = n
      /\ args' \in Seq(Nat) /\ position' \in Nat \ {0}
  <2>1. CASE first = n + 1
    <3>1. position' = n + 1 /\ cmd' = cmd /\ args' = args
      BY <1>1, <1>2, <2>1
    <3>2. Cut(t, n, cmd, args, n + 1)
      BY <1>2, <1>3, <1>4, <2>1, NothingLeft
    <3>3. QED
      BY <1>2, <1>3, <3>1, <3>2 DEF ShellTypes
  <2>2. CASE first # n + 1
    <3>1. first \in 1 .. n /\ first \in 1 .. n + 1
      BY <1>2, <1>3, <1>4, <2>2
    <3>2. FirstOf(cmd, n, {Shell!BLANK}, first, last) /\ last \in first .. n + 1
      BY <3>1, NextOfIs
    <3> HIDE DEF last
    <3> DEFINE w == IF last = n + 1 THEN cmd ELSE [cmd EXCEPT ![last] = Shell!NUL]
               r == IF last = n + 1 THEN n + 1 ELSE last + 1
               b == Append(args, first)
    <3>3. last \in 1 .. n + 1
      BY <1>2, <3>1, <3>2
    <3>4. \A i \in 1 .. n : w[i] = IF i = last THEN Shell!NUL ELSE cmd[i]
      BY <1>2
    <3>5. args \in Seq(Nat)
      BY <1>3 DEF ShellTypes
    <3> HIDE DEF w
    <3>6. Cut(t, n, w, b, r)
      BY <1>2, <1>3, <1>4, <3>1, <3>2, <3>3, <3>4, <3>5, WordCut
    <3>7. w \in Seq({Shell!BLANK, Shell!LETTER, Shell!NUL}) /\ Len(w) = n
      <4>1. CASE last = n + 1
        BY <1>3, <4>1 DEF w, ShellTypes
      <4>2. CASE last # n + 1
        <5>1. last \in 1 .. Len(cmd) /\ cmd \in Seq({Shell!BLANK, Shell!LETTER, Shell!NUL})
          BY <1>2, <1>3, <3>3, <4>2 DEF ShellTypes
        <5>2. w = [cmd EXCEPT ![last] = Shell!NUL]
          BY <4>2 DEF w
        <5>3. w \in Seq({Shell!BLANK, Shell!LETTER, Shell!NUL}) /\ Len(w) = Len(cmd)
          BY <5>1, <5>2, ExceptSeq
        <5>4. QED
          BY <1>3, <5>3 DEF ShellTypes
      <4>3. QED
        BY <4>1, <4>2
    <3>8. b \in Seq(Nat)
      BY <3>1, <3>5, AppendProperties
    <3>9. args' = b /\ cmd' = w /\ position' = r /\ r \in Nat \ {0}
      BY <1>1, <1>2, <2>2, <3>3 DEF w
    <3> HIDE DEF b, r
    <3>10. QED
      BY <3>6, <3>7, <3>8, <3>9
  <2>3. QED
    BY <2>1, <2>2
<1>6. LineLen' = n /\ line'.text = t
  BY <1>1 DEF LineLen
<1>7. ShellTypes'
  BY <1>3, <1>5, <1>6 DEF ShellTypes
<1>8. Shell!TypeOK'
  BY <1>1, <1>5, <1>6 DEF ShellInv, Shell!TypeOK, LineLen
<1>9. ShellAt'
  BY <1>1, <1>5, <1>6 DEF ShellAt
<1>10. ProgramAt'
  BY <1>1 DEF ShellInv, ProgramAt
<1>11. QED
  BY <1>7, <1>8, <1>9, <1>10 DEF ShellInv

LEMMA PathKeeps ==
  ASSUME ShellInv, Shell!find_in_path PROVE ShellInv'
<1>1. /\ shell = "search" /\ UNCHANGED <<line, cmd, args, executable, child>>
      /\ \/ shell' \in {"prompt", "overrun"} /\ UNCHANGED <<position, passed>>
         \/ /\ position <= Len(PATH) /\ shell' = "fork" /\ fullpath' = PATH[position]
            /\ UNCHANGED <<position, passed>>
         \/ /\ position <= Len(PATH) /\ shell' = "search" /\ position' = position + 1
            /\ passed' = passed \union {PATH[position]}
  <2>1. position \in Nat
    BY DEF ShellInv, Shell!TypeOK
  <2>2. QED
    BY <2>1, ShellConstants DEF Shell!find_in_path, Shell!Goto, Shell!parsing
<1>2. WordsCut /\ position \in 1 .. Len(PATH) + 1 /\ Tried(position) /\ child = "none"
  BY <1>1 DEF ShellInv, ShellAt, ProgramAt
<1>3. ShellTypes' /\ WordsCut'
  BY <1>1, <1>2, SameLine
<1>4. \A m \in 1 .. Len(PATH) :
        {PATH[j] : j \in 1 .. m - 1} \union {PATH[m]} = {PATH[j] : j \in 1 .. (m + 1) - 1}
  <2> SUFFICES ASSUME NEW m \in 1 .. Len(PATH)
               PROVE  {PATH[j] : j \in 1 .. m - 1} \union {PATH[m]}
                        = {PATH[j] : j \in 1 .. (m + 1) - 1}
    OBVIOUS
  <2>1. 1 .. (m + 1) - 1 = (1 .. m - 1) \union {m}
    BY ShellConstants
  <2>2. QED
    BY <2>1
<1>5. Shell!TypeOK'
  <2>1. position <= Len(PATH) => PATH[position] \in Dirs
    BY <1>2, ShellConstants
  <2>2. QED
    BY <1>1, <2>1 DEF ShellInv, Shell!TypeOK
<1>6. ShellAt'
  BY <1>1, <1>3 DEF ShellAt
<1>7. ProgramAt'
  <2>1. CASE shell' \in {"prompt", "overrun"}
    BY <1>1, <1>2, <2>1 DEF ProgramAt
  <2>2. CASE shell' = "fork"
    BY <1>1, <1>2, <2>2, ShellConstants DEF ProgramAt, Tried
  <2>3. CASE shell' = "search" /\ position <= Len(PATH) /\ position' = position + 1
             /\ passed' = passed \union {PATH[position]}
    <3>1. position \in 1 .. Len(PATH) /\ position' \in 1 .. Len(PATH) + 1
      BY <1>2, <2>3, ShellConstants
    <3>2. passed' = {PATH[j] : j \in 1 .. (position + 1) - 1}
      BY <1>2, <1>4, <2>3, <3>1 DEF Tried
    <3>3. passed' = {PATH[j] : j \in 1 .. position' - 1}
      BY <2>3, <3>2
    <3>4. QED
      BY <1>1, <1>2, <2>3, <3>1, <3>3 DEF ProgramAt, Tried
  <2>4. QED
    BY <1>1, <2>1, <2>2, <2>3
<1>8. QED
  BY <1>3, <1>5, <1>6, <1>7 DEF ShellInv

(* The steps that leave the line, the search and the program's name alone.      *)
LEMMA AfterwardsKeeps ==
  ASSUME ShellInv,
         \/ Shell!Builtin \/ Shell!Install \/ Shell!Fork \/ Shell!Execve
         \/ Shell!ProgramEnds \/ Shell!Waited \/ UNCHANGED Shell!vars
  PROVE  ShellInv'
<1>1. /\ UNCHANGED <<line, cmd, args, position, fullpath, passed>>
      /\ executable' \subseteq Dirs /\ child' \in {"none", "starts", "runs", "ended"}
      /\ \/ shell' = "prompt" /\ (child' = "none" \/ UNCHANGED <<shell, child>>
                                   \/ (shell # "wait" /\ UNCHANGED child))
         \/ shell = "fork" /\ shell' = "wait"
         \/ shell' = shell /\ (child' = child \/ child # "none")
  BY DEF ShellInv, Shell!TypeOK, Shell!Builtin, Shell!Install, Shell!Fork, Shell!Execve,
         Shell!ProgramEnds, Shell!Waited, Shell!vars, Shell!Goto, Shell!parsing,
         Shell!running
<1>2. ShellTypes' /\ (WordsCut => WordsCut') /\ LineLen' = LineLen
  BY <1>1, SameLine
<1>3. Shell!TypeOK'
  BY <1>1 DEF ShellInv, Shell!TypeOK
<1>4. ShellAt'
  BY <1>1, <1>2 DEF ShellInv, ShellAt
<1>5. ProgramAt'
  BY <1>1 DEF ShellInv, ProgramAt, Tried
<1>6. QED
  BY <1>2, <1>3, <1>4, <1>5 DEF ShellInv

LEMMA ShellInvNext == ShellInv /\ [Shell!Next]_(Shell!vars) => ShellInv'
BY EnterKeeps, TestExitKeeps, ParseKeeps, ChooseKeeps, PathKeeps, AfterwardsKeeps
   DEF Shell!Next

(* The commands that main accepted last lie in the ring where the history command *)
(* and the arrow keys look for them, the keys walk from the newest to the oldest,    *)
(* once the ring has gone round too, and nothing follows itself as long as it has       *)
(* not; what a line runs are the words that were typed, by the first program along       *)
(* PATH that was executable when it was tested, as long as no name overruns             *)
(* fullpath (add_to_history, handle_history, parse_command,                          *)
(* find_in_path, execute_command).                                          *)
THEOREM ShellStaysRight == UserSpec => []ShellRight
<1>1. RecallInv /\ ShellInv => ShellRight
  BY ShellInvImplies DEF RecallInv, ShellRight
<1>2. RecallInv /\ ShellInv /\ [UserNext]_userVars => RecallInv' /\ ShellInv'
  BY RecallStep, RecallInvNext, ShellStep, ShellInvNext
<1>3. QED
  BY <1>1, <1>2, RecallInvInit, ShellInvInit, PTL DEF UserSpec
-----------------------------------------------------------------------------
(* The string functions: loops that end at the first place of a set.            *)

Stop(C, lo, k) == k \in C /\ \A m \in lo .. k - 1 : m \notin C

LEMMA StopExists ==
  ASSUME NEW lo \in Nat, NEW top \in Nat, lo <= top, NEW C, top \in C
  PROVE  \E k \in lo .. top : Stop(C, lo, k)
<1> DEFINE D == {k \in lo .. top : k \in C}
<1>1. D \in SUBSET Nat /\ D # {}
  OBVIOUS
<1>2. PICK k \in D : \A m \in D : k <= m
  <2> HIDE DEF D
  <2> QED
    BY <1>1, LeastIn
<1>3. \A m \in lo .. k - 1 : m \notin C
  BY <1>2
<1>4. QED
  BY <1>2, <1>3 DEF Stop

LEMMA StopUnique ==
  ASSUME NEW lo \in Nat, NEW C, NEW j \in Nat, NEW k \in Nat, lo <= j, lo <= k,
         Stop(C, lo, j), Stop(C, lo, k)
  PROVE  j = k
<1>1. ~ (j \in lo .. k - 1) /\ ~ (k \in lo .. j - 1)
  BY DEF Stop
<1>2. QED
  BY <1>1

(* f is what a loop from lo on returns that ends at a place k of C with v[k].     *)
Looped(f, lo, top, C, v) == f = [i \in lo .. top |-> IF i \in C THEN v[i] ELSE f[i + 1]]

LEMMA LoopExists ==
  ASSUME NEW lo \in Nat, NEW top \in Nat, lo <= top, NEW C, top \in C, NEW v
  PROVE  \E f : Looped(f, lo, top, C, v)
<1> DEFINE At(i) == CHOOSE k \in i .. top : Stop(C, i, k)
           f == [i \in lo .. top |-> v[At(i)]]
<1>1. ASSUME NEW i \in lo .. top
      PROVE  f[i] = IF i \in C THEN v[i] ELSE f[i + 1]
  <2>1. i \in Nat /\ i <= top
    OBVIOUS
  <2>2. \E k \in i .. top : Stop(C, i, k)
    BY <2>1, StopExists
  <2>3. At(i) \in i .. top /\ Stop(C, i, At(i))
    BY <2>2, Zenon
  <2>4. CASE i \in C
    <3>1. Stop(C, i, i)
      BY <2>1, <2>4 DEF Stop
    <3> HIDE DEF At
    <3>2. At(i) = i
      BY <2>1, <2>3, <3>1, StopUnique
    <3>3. QED
      BY <2>4, <3>2
  <2>5. CASE i \notin C
    <3>1. i + 1 \in lo .. top /\ i + 1 \in Nat /\ i + 1 <= top
      BY <2>1, <2>5
    <3>2. \E k \in i + 1 .. top : Stop(C, i + 1, k)
      BY <3>1, StopExists
    <3>3. At(i + 1) \in i + 1 .. top /\ Stop(C, i + 1, At(i + 1))
      BY <3>2, Zenon
    <3> HIDE DEF At
    <3>4. At(i) # i
      BY <2>3, <2>5 DEF Stop
    <3>5. Stop(C, i + 1, At(i)) /\ i + 1 <= At(i) /\ At(i) \in Nat /\ At(i + 1) \in Nat
      BY <2>1, <2>3, <3>3, <3>4 DEF Stop
    <3>6. At(i) = At(i + 1)
      BY <3>1, <3>3, <3>5, StopUnique
    <3>7. QED
      BY <2>5, <3>1, <3>6
  <2>6. QED
    BY <2>4, <2>5
<1>2. f = [i \in lo .. top |-> f[i]]
  OBVIOUS
<1> HIDE DEF f
<1>3. Looped(f, lo, top, C, v)
  BY <1>1, <1>2 DEF Looped
<1>4. QED
  BY <1>3

LEMMA LoopIs ==
  ASSUME NEW lo \in Nat, NEW top \in Nat, lo <= top, NEW C, top \in C, NEW v,
         NEW f, Looped(f, lo, top, C, v)
  PROVE  \E k \in lo .. top : Stop(C, lo, k) /\ f[lo] = v[k]
<1>1. PICK k \in lo .. top : Stop(C, lo, k)
  BY StopExists
<1>2. k \in Nat /\ k \in C /\ \A m \in lo .. k - 1 : m \notin C
  BY <1>1 DEF Stop
<1>3. \A i \in lo .. top : f[i] = IF i \in C THEN v[i] ELSE f[i + 1]
  BY DEF Looped
<1> DEFINE Bad == {d \in 0 .. k - lo : f[k - d] # v[k]}
<1>4. ASSUME NEW d \in Bad PROVE d # 0 /\ d - 1 \in Bad
  <2>1. d \in 0 .. k - lo /\ f[k - d] # v[k] /\ k - d \in lo .. top
    BY <1>1
  <2>2. d # 0
    BY <1>2, <1>3, <2>1
  <2>3. k - d \in lo .. k - 1 /\ (k - d) + 1 = k - (d - 1)
    BY <1>1, <2>1, <2>2
  <2>4. f[k - d] = f[(k - d) + 1]
    BY <1>2, <1>3, <2>1, <2>3
  <2>5. QED
    BY <2>1, <2>2, <2>3, <2>4
<1>5. Bad = {}
  <2>1. Bad \in SUBSET Nat
    BY <1>1
  <2> HIDE DEF Bad
  <2>2. QED
    BY <1>4, <2>1, Smallest
<1>6. k - lo \in 0 .. k - lo /\ k - (k - lo) = lo
  BY <1>1
<1>7. QED
  BY <1>1, <1>5, <1>6
-----------------------------------------------------------------------------
(* The string functions: texts in the array.                                  *)

Memory(m) == m \in [Text!At -> Chars \union {0}] /\ m[SIZE - 1] = 0
TextEnd(m, s, e) == e \in s .. SIZE - 1 /\ m[e] = 0 /\ \A i \in s .. e - 1 : m[i] # 0

LEMMA TextConstants ==
  /\ SIZE \in Nat \ {0} /\ Chars \subseteq 1 .. 255
  /\ Counts \subseteq Nat /\ 0 \in Counts /\ Numbers \subseteq Int
  /\ Text!At = 0 .. SIZE - 1 /\ Text!NUL = 0 /\ Text!NULL = -1
BY Text!StringAssumption DEF Text!StringAssumption, Text!At, Text!NUL, Text!NULL

LEMMA TextEnds ==
  ASSUME NEW m, Memory(m), NEW s \in Text!At
  PROVE  \E e \in s .. SIZE - 1 : TextEnd(m, s, e)
<1> DEFINE C == {i \in Text!At : m[i] = 0}
           top == SIZE - 1
<1>1. s \in Nat /\ top \in Nat /\ s <= top /\ top \in C
  BY TextConstants DEF Memory
<1>2. PICK e \in s .. top : Stop(C, s, e)
  <2> HIDE DEF C, top
  <2> QED
    BY <1>1, StopExists
<1>3. TextEnd(m, s, e)
  BY <1>1, <1>2, TextConstants DEF Stop, TextEnd
<1>4. QED
  BY <1>2, <1>3

LEMMA EndUnique ==
  ASSUME NEW m, NEW s \in Text!At, NEW d, NEW e, TextEnd(m, s, d), TextEnd(m, s, e)
  PROVE  d = e
<1>1. s \in Nat /\ d \in s .. SIZE - 1 /\ e \in s .. SIZE - 1
  BY TextConstants DEF TextEnd
<1>2. ~ (d \in s .. e - 1) /\ ~ (e \in s .. d - 1)
  BY DEF TextEnd
<1>3. QED
  BY <1>1, <1>2, TextConstants

LEMMA StringIs ==
  ASSUME NEW m, Memory(m), NEW s \in Text!At, NEW e, TextEnd(m, s, e)
  PROVE  /\ Text!String(m, s) \in Seq(Chars) /\ Len(Text!String(m, s)) = e - s
         /\ \A i \in 1 .. e - s : Text!String(m, s)[i] = m[s + i - 1]
<1> DEFINE end == CHOOSE d \in s .. SIZE - 1 :
                    m[d] = Text!NUL /\ \A i \in s .. d - 1 : m[i] # Text!NUL
           t == [i \in 1 .. e - s |-> m[s + i - 1]]
<1>1. s \in Nat /\ e \in s .. SIZE - 1 /\ e - s \in Nat
  BY TextConstants DEF TextEnd
<1>2. end = e
  <2>1. \E d \in s .. SIZE - 1 : m[d] = Text!NUL /\ \A i \in s .. d - 1 : m[i] # Text!NUL
    BY TextConstants DEF TextEnd
  <2>2. end \in s .. SIZE - 1 /\ m[end] = Text!NUL /\ \A i \in s .. end - 1 : m[i] # Text!NUL
    BY <2>1, Zenon
  <2> HIDE DEF end
  <2>3. TextEnd(m, s, end)
    BY <2>2, TextConstants DEF TextEnd
  <2>4. QED
    BY <2>3, EndUnique
<1>3. Text!String(m, s) = t
  <2>1. Text!String(m, s) = [i \in 1 .. end - s |-> m[s + i - 1]]
    BY DEF Text!String
  <2> HIDE DEF end
  <2>2. QED
    BY <1>2, <2>1
<1>4. t \in [1 .. e - s -> Chars]
  <2> SUFFICES ASSUME NEW i \in 1 .. e - s PROVE m[s + i - 1] \in Chars
    OBVIOUS
  <2>1. s + i - 1 \in s .. e - 1 /\ s + i - 1 \in Text!At
    BY <1>1, TextConstants
  <2>2. QED
    BY <2>1 DEF Memory, TextEnd
<1>5. t \in Seq(Chars) /\ Len(t) = e - s /\ \A i \in 1 .. e - s : t[i] = m[s + i - 1]
  <2>1. t \in Seq(Chars)
    <3> DEFINE n == e - s
    <3>1. n \in Nat /\ t \in [1 .. n -> Chars]
      BY <1>1, <1>4
    <3> HIDE DEF t, n
    <3>2. QED
      BY <3>1, SeqDef
  <2>2. DOMAIN t = 1 .. e - s
    OBVIOUS
  <2>3. QED
    BY <1>1, <2>1, <2>2, LenProperties
<1>6. QED
  BY <1>3, <1>5

LEMMA strlenIs ==
  ASSUME Memory(mem), NEW s \in Text!At
  PROVE  TextEnd(mem, s, s + Text!strlen(s)) /\ Text!strlen(s) \in 0 .. SIZE - 1 - s
<1> DEFINE top == SIZE - 1 - s
           C == {i \in 0 .. top : mem[s + i] = 0}
           v == [i \in 0 .. top |-> i]
           Body(f) == [i \in 0 .. top |-> IF mem[s + i] = Text!NUL THEN i ELSE f[i + 1]]
           len == CHOOSE f : f = Body(f)
<1>1. s \in Nat /\ top \in Nat /\ 0 <= top /\ top \in C
  <2>1. s \in Nat /\ top \in Nat /\ s + top = SIZE - 1
    BY TextConstants
  <2>2. QED
    BY <2>1 DEF Memory
<1>2. \A f : f = Body(f) <=> Looped(f, 0, top, C, v)
  BY TextConstants DEF Looped
<1>3. \E f : Looped(f, 0, top, C, v)
  <2> HIDE DEF C, top, v
  <2> QED
    BY <1>1, 0 \in Nat, LoopExists
<1>4. Looped(len, 0, top, C, v)
  <2> HIDE DEF Body
  <2>1. \E f : f = Body(f)
    BY <1>2, <1>3
  <2>2. len = Body(len)
    BY <2>1, Zenon
  <2> HIDE DEF len
  <2>3. QED
    BY <1>2, <2>2
<1>5. \E k \in 0 .. top : Stop(C, 0, k) /\ len[0] = v[k]
  <2> HIDE DEF C, top, v, len
  <2>1. 0 \in Nat /\ top \in Nat /\ 0 <= top /\ top \in C
    BY <1>1
  <2>2. QED
    BY ONLY <1>4, <2>1, LoopIs
<1>6. PICK k \in 0 .. top : Stop(C, 0, k) /\ len[0] = k
  BY <1>5
<1>7. Text!strlen(s) = len[0]
  BY DEF Text!strlen
<1> HIDE DEF len
<1>8. TextEnd(mem, s, s + k)
  <2>1. mem[s + k] = 0 /\ \A j \in 0 .. k - 1 : mem[s + j] # 0
    <3>1. k \in C /\ \A j \in 0 .. k - 1 : j \notin C
      BY <1>6 DEF Stop
    <3>2. \A j \in 0 .. k - 1 : j \in 0 .. top
      BY <1>1, <1>6
    <3>3. QED
      BY <3>1, <3>2
  <2>2. \A i \in s .. s + k - 1 : i - s \in 0 .. k - 1 /\ s + (i - s) = i
    BY <1>1, <1>6
  <2>3. s + k \in s .. SIZE - 1
    BY <1>1, <1>6, TextConstants
  <2>4. ASSUME NEW i \in s .. s + k - 1 PROVE mem[i] # 0
    <3>1. i - s \in 0 .. k - 1 /\ s + (i - s) = i
      BY <2>2
    <3>2. mem[s + (i - s)] # 0
      BY <2>1, <3>1
    <3>3. QED
      BY <1>1, <1>6, <3>1, <3>2
  <2>5. QED
    BY <1>1, <1>6, <2>1, <2>3, <2>4 DEF TextEnd
<1>9. QED
  BY <1>6, <1>7, <1>8
-----------------------------------------------------------------------------
(* The string functions: comparisons.                                        *)

LEMMA FirstIs ==
  ASSUME NEW S, NEW t \in Seq(S), NEW c \in Nat
  PROVE  LET m == IF Len(t) < c THEN Len(t) ELSE c
             f == Text!First(t, c)
         IN  /\ m \in Nat /\ f \in Seq(S) /\ Len(f) = m
             /\ \A i \in 1 .. m : f[i] = t[i]
<1> DEFINE m == IF Len(t) < c THEN Len(t) ELSE c
<1>1. Len(t) \in Nat
  BY LenProperties
<1>2. m \in Nat /\ m <= Len(t)
  BY <1>1
<1>3. Text!First(t, c) = SubSeq(t, 1, m)
  BY DEF Text!First
<1> HIDE DEF m
<1>4. SubSeq(t, 1, m) \in Seq(S) /\ Len(SubSeq(t, 1, m)) = m
      /\ \A i \in 1 .. m : SubSeq(t, 1, m)[i] = t[i]
  BY <1>2, FirstPiece
<1>5. QED
  BY <1>2, <1>3, <1>4 DEF m

(* What comes after the k-th character of a text, 0 for its end.                  *)
After(t, k) == IF k = Len(t) THEN 0 ELSE t[k + 1]

LEMMA AfterIs ==
  ASSUME NEW t \in Seq(Chars), NEW k \in Nat, k <= Len(t)
  PROVE  /\ After(t, k) \in 0 .. 255 /\ (After(t, k) = 0 <=> k = Len(t))
         /\ (k < Len(t) => After(t, k) = t[k + 1])
<1>1. Len(t) \in Nat
  BY LenProperties
<1>2. CASE k = Len(t)
  BY <1>1, <1>2 DEF After
<1>3. CASE k # Len(t)
  <2>1. k + 1 \in 1 .. Len(t)
    BY <1>1, <1>3
  <2>2. t[k + 1] \in 1 .. 255
    BY <2>1, ElementOfSeq, TextConstants
  <2>3. After(t, k) = t[k + 1]
    BY <1>3 DEF After
  <2>4. \A v \in 1 .. 255 : v \in 0 .. 255 /\ v # 0
    OBVIOUS
  <2>5. QED
    BY <1>3, <2>2, <2>3, <2>4, Zenon
<1>4. QED
  BY <1>2, <1>3

(* Two texts that agree up to k and differ or end there are in the order that the   *)
(* difference tells.                                                        *)
LEMMA OrderIs ==
  ASSUME NEW a \in Seq(Chars), NEW b \in Seq(Chars),
         NEW k \in Nat, k <= Len(a), k <= Len(b), \A i \in 1 .. k : a[i] = b[i],
         After(a, k) # After(b, k) \/ (k = Len(a) /\ k = Len(b))
  PROVE  Text!Order(a, b, After(a, k) - After(b, k))
<1> DEFINE x == After(a, k)
           y == After(b, k)
           m == Len(a)
           n == Len(b)
<1>1. m \in Nat /\ n \in Nat
  BY LenProperties
<1>2. /\ \A i \in 1 .. m : a[i] \in 1 .. 255
      /\ \A i \in 1 .. n : b[i] \in 1 .. 255
  BY ElementOfSeq, TextConstants
<1>3. /\ x \in 0 .. 255 /\ (x = 0 <=> k = m) /\ (k < m => x = a[k + 1])
      /\ y \in 0 .. 255 /\ (y = 0 <=> k = n) /\ (k < n => y = b[k + 1])
  BY AfterIs
<1> HIDE DEF x, y
<1>4. x - y = 0 <=> a = b
  <2>1. CASE x = y
    <3>1. k = m /\ k = n
      BY <1>3, <2>1 DEF x, y
    <3>2. a = b
      BY <3>1, SeqEqual
    <3>3. QED
      BY <1>3, <2>1, <3>2
  <2>2. CASE x # y
    <3>1. a # b
      BY <2>2 DEF x, y
    <3>2. QED
      BY <1>3, <2>2, <3>1
  <2>3. QED
    BY <2>1, <2>2
<1>5. \A j \in 0 .. m :
        j < n => (Text!First(a, j) = Text!First(b, j) <=> \A i \in 1 .. j : a[i] = b[i])
  <2> SUFFICES ASSUME NEW j \in 0 .. m, j < n
               PROVE  Text!First(a, j) = Text!First(b, j) <=> \A i \in 1 .. j : a[i] = b[i]
    OBVIOUS
  <2>1. j \in Nat /\ ~ (m < j) /\ ~ (n < j)
    BY <1>1
  <2>2. /\ Text!First(a, j) \in Seq(Chars) /\ Len(Text!First(a, j)) = j
        /\ \A i \in 1 .. j : Text!First(a, j)[i] = a[i]
    BY <2>1, FirstIs
  <2>3. /\ Text!First(b, j) \in Seq(Chars) /\ Len(Text!First(b, j)) = j
        /\ \A i \in 1 .. j : Text!First(b, j)[i] = b[i]
    BY <2>1, FirstIs
  <2>4. QED
    BY <2>2, <2>3, SeqEqual
<1>6. x < y <=> Text!Precedes(a, b)
  <2>1. ASSUME x < y PROVE Text!Precedes(a, b)
    <3>1. k \in 0 .. m /\ k < n
      BY <1>1, <1>3, <2>1
    <3>2. Text!First(a, k) = Text!First(b, k)
      BY <1>5, <3>1
    <3>3. k = m \/ a[k + 1] < b[k + 1]
      BY <1>1, <1>3, <2>1, <3>1
    <3>4. QED
      BY <3>1, <3>2, <3>3 DEF Text!Precedes
  <2>2. ASSUME NEW j \in 0 .. m, j < n, Text!First(a, j) = Text!First(b, j),
               j = m \/ a[j + 1] < b[j + 1]
        PROVE  x < y
    <3>1. \A i \in 1 .. j : a[i] = b[i]
      BY <1>5, <2>2
    <3>2. CASE j < k
      <4>1. j + 1 \in 1 .. k /\ j + 1 \in 1 .. m /\ j # m
        BY <1>1, <3>2
      <4>2. a[j + 1] = b[j + 1] /\ a[j + 1] \in 1 .. 255
        BY <1>2, <4>1
      <4>3. ~ (a[j + 1] < b[j + 1])
        <5>1. \A v, w \in 1 .. 255 : v = w => ~ (v < w)
          OBVIOUS
        <5>2. QED
          BY <4>2, <5>1, Zenon
      <4>4. QED
        BY <2>2, <4>1, <4>3, Zenon
    <3>3. CASE j = k
      BY <1>1, <1>3, <2>2, <3>3
    <3>4. CASE j > k
      <4>1. k + 1 \in 1 .. j /\ k < m /\ k < n
        BY <1>1, <2>2, <3>4
      <4>2. a[k + 1] = b[k + 1]
        BY <3>1, <4>1
      <4>3. QED
        BY <1>3, <4>1, <4>2 DEF x, y
    <3>5. QED
      BY <1>1, <3>2, <3>3, <3>4
  <2>3. QED
    BY <2>1, <2>2 DEF Text!Precedes
<1>7. x - y < 0 <=> x < y
  BY <1>3
<1>8. QED
  BY <1>4, <1>6, <1>7 DEF Text!Order, x, y

LEMMA AfterText ==
  ASSUME NEW m, Memory(m), NEW s \in Text!At, NEW e, TextEnd(m, s, e), NEW k \in 0 .. e - s
  PROVE  After(Text!String(m, s), k) = m[s + k] /\ k <= Len(Text!String(m, s))
         /\ (m[s + k] = 0 <=> k = Len(Text!String(m, s)))
<1>1. s \in Nat /\ e \in s .. SIZE - 1 /\ m[e] = 0 /\ \A i \in s .. e - 1 : m[i] # 0
  BY TextConstants DEF TextEnd
<1>2. /\ Len(Text!String(m, s)) = e - s
      /\ \A i \in 1 .. e - s : Text!String(m, s)[i] = m[s + i - 1]
  BY StringIs
<1>3. CASE k = e - s
  BY <1>1, <1>2, <1>3, TextConstants DEF After
<1>4. CASE k # e - s
  <2>1. k + 1 \in 1 .. e - s /\ s + (k + 1) - 1 = s + k /\ s + k \in s .. e - 1
    BY <1>1, <1>4, TextConstants
  <2>2. Text!String(m, s)[k + 1] = m[s + k] /\ m[s + k] # 0
    BY <1>1, <1>2, <2>1
  <2>3. k # Len(Text!String(m, s)) /\ k <= Len(Text!String(m, s))
    BY <1>1, <1>2, <1>4, TextConstants
  <2>4. QED
    BY <2>2, <2>3 DEF After
<1>5. QED
  BY <1>3, <1>4

(* Two texts that agree in k characters have as many.                           *)
LEMMA Agree ==
  ASSUME NEW m, Memory(m), NEW s1 \in Text!At, NEW s2 \in Text!At,
         NEW e1, TextEnd(m, s1, e1), NEW e2, TextEnd(m, s2, e2),
         NEW k \in Nat, \A i \in 0 .. k - 1 : m[s1 + i] # 0 /\ m[s1 + i] = m[s2 + i]
  PROVE  /\ k \in 0 .. e1 - s1 /\ k \in 0 .. e2 - s2
         /\ \A i \in 1 .. k : Text!String(m, s1)[i] = Text!String(m, s2)[i]
<1>1. /\ s1 \in Nat /\ e1 \in s1 .. SIZE - 1 /\ m[e1] = 0
      /\ s2 \in Nat /\ e2 \in s2 .. SIZE - 1 /\ m[e2] = 0 /\ SIZE \in Nat
  BY TextConstants DEF TextEnd
<1>2. k <= e1 - s1
  <2> SUFFICES ASSUME k > e1 - s1 PROVE FALSE
    BY <1>1
  <2>1. e1 - s1 \in 0 .. k - 1 /\ s1 + (e1 - s1) = e1
    BY <1>1
  <2>2. m[s1 + (e1 - s1)] # 0
    BY <2>1
  <2>3. QED
    BY <1>1, <2>1, <2>2, Zenon
<1>3. k <= e2 - s2
  <2> SUFFICES ASSUME k > e2 - s2 PROVE FALSE
    BY <1>1
  <2>1. e2 - s2 \in 0 .. k - 1 /\ s2 + (e2 - s2) = e2
    BY <1>1
  <2>2. m[s1 + (e2 - s2)] # 0 /\ m[s1 + (e2 - s2)] = m[s2 + (e2 - s2)]
    BY <2>1
  <2>3. QED
    BY <1>1, <2>1, <2>2, Zenon
<1>4. ASSUME NEW i \in 1 .. k PROVE Text!String(m, s1)[i] = Text!String(m, s2)[i]
  <2>1. i \in 1 .. e1 - s1 /\ i \in 1 .. e2 - s2
    BY <1>1, <1>2, <1>3
  <2>2. Text!String(m, s1)[i] = m[s1 + i - 1] /\ Text!String(m, s2)[i] = m[s2 + i - 1]
    BY <2>1, StringIs
  <2>3. i - 1 \in 0 .. k - 1 /\ s1 + i - 1 = s1 + (i - 1) /\ s2 + i - 1 = s2 + (i - 1)
    BY <1>1
  <2>4. m[s1 + (i - 1)] = m[s2 + (i - 1)]
    BY <2>3
  <2>5. QED
    BY <2>2, <2>3, <2>4
<1>5. QED
  BY <1>1, <1>2, <1>3, <1>4

LEMMA strcmpIs ==
  ASSUME Memory(mem), NEW s1 \in Text!At, NEW s2 \in Text!At
  PROVE  Text!Order(Text!String(mem, s1), Text!String(mem, s2), Text!strcmp(s1, s2))
<1> DEFINE top == SIZE - 1 - (IF s1 < s2 THEN s2 ELSE s1)
           C == {i \in 0 .. top : mem[s1 + i] = 0 \/ mem[s1 + i] # mem[s2 + i]}
           v == [i \in 0 .. top |-> mem[s1 + i] - mem[s2 + i]]
           Body(f) == [i \in 0 .. SIZE - 1 - (IF s1 < s2 THEN s2 ELSE s1) |->
                         IF mem[s1 + i] # Text!NUL /\ mem[s1 + i] = mem[s2 + i]
                         THEN f[i + 1] ELSE mem[s1 + i] - mem[s2 + i]]
           loop == CHOOSE f : f = Body(f)
<1>1. s1 \in Nat /\ s2 \in Nat /\ top \in Nat /\ 0 <= top /\ top \in C
  <2>1. s1 \in Nat /\ s2 \in Nat /\ top \in Nat /\ (s1 + top = SIZE - 1 \/ s2 + top = SIZE - 1)
    BY TextConstants
  <2>2. top \in 0 .. top /\ (mem[s1 + top] = 0 \/ mem[s2 + top] = 0)
    <3> HIDE DEF top
    <3> QED
      BY <2>1 DEF Memory
  <2>3. QED
    BY <2>1, <2>2
<1>2. \A f : f = Body(f) <=> Looped(f, 0, top, C, v)
  <2> SUFFICES ASSUME NEW f
               PROVE  Body(f) = [i \in 0 .. top |-> IF i \in C THEN v[i] ELSE f[i + 1]]
    BY Zenon DEF Looped
  <2>1. ASSUME NEW i \in 0 .. top
        PROVE  (IF mem[s1 + i] # Text!NUL /\ mem[s1 + i] = mem[s2 + i]
                THEN f[i + 1] ELSE mem[s1 + i] - mem[s2 + i])
               = IF i \in C THEN v[i] ELSE f[i + 1]
    <3> HIDE DEF top
    <3> QED
      BY TextConstants
  <2> HIDE DEF C, v
  <2>2. QED
    BY <2>1
<1>3. \E f : Looped(f, 0, top, C, v)
  <2> HIDE DEF C, top, v
  <2> QED
    BY <1>1, 0 \in Nat, LoopExists
<1>4. Looped(loop, 0, top, C, v)
  <2> HIDE DEF Body
  <2>1. \E f : f = Body(f)
    BY <1>2, <1>3
  <2>2. loop = Body(loop)
    BY <2>1, Zenon
  <2> HIDE DEF loop
  <2>3. QED
    BY <1>2, <2>2
<1>5. PICK k \in 0 .. top : Stop(C, 0, k) /\ loop[0] = v[k]
  <2> HIDE DEF C, top, v, loop
  <2>1. 0 \in Nat /\ top \in Nat /\ 0 <= top /\ top \in C
    BY <1>1
  <2>2. QED
    BY ONLY <1>4, <2>1, LoopIs
<1>6. Text!strcmp(s1, s2) = loop[0]
  BY DEF Text!strcmp
<1> HIDE DEF loop, top
<1>7. /\ k \in Nat /\ loop[0] = mem[s1 + k] - mem[s2 + k]
      /\ mem[s1 + k] = 0 \/ mem[s1 + k] # mem[s2 + k]
      /\ \A i \in 0 .. k - 1 : mem[s1 + i] # 0 /\ mem[s1 + i] = mem[s2 + i]
  <2>1. k \in C /\ \A j \in 0 .. k - 1 : j \notin C
    BY <1>5 DEF Stop
  <2>2. \A j \in 0 .. k - 1 : j \in 0 .. top
    BY <1>1, <1>5
  <2>3. QED
    BY <1>5, <2>1, <2>2
<1>8. PICK e1 \in s1 .. SIZE - 1 : TextEnd(mem, s1, e1)
  BY TextEnds
<1>9. PICK e2 \in s2 .. SIZE - 1 : TextEnd(mem, s2, e2)
  BY TextEnds
<1> DEFINE a == Text!String(mem, s1)
           b == Text!String(mem, s2)
<1>10. /\ k \in 0 .. e1 - s1 /\ k \in 0 .. e2 - s2 /\ \A i \in 1 .. k : a[i] = b[i]
  BY <1>7, <1>8, <1>9, Agree
<1>11. /\ After(a, k) = mem[s1 + k] /\ k <= Len(a) /\ (mem[s1 + k] = 0 <=> k = Len(a))
       /\ After(b, k) = mem[s2 + k] /\ k <= Len(b) /\ (mem[s2 + k] = 0 <=> k = Len(b))
  BY <1>8, <1>9, <1>10, AfterText
<1>12. a \in Seq(Chars) /\ b \in Seq(Chars)
  BY <1>8, <1>9, StringIs
<1> HIDE DEF a, b
<1>13. After(a, k) # After(b, k) \/ (k = Len(a) /\ k = Len(b))
  BY <1>7, <1>11, Zenon
<1>14. Text!Order(a, b, After(a, k) - After(b, k))
  BY <1>7, <1>10, <1>11, <1>12, <1>13, OrderIs
<1>15. QED
  BY <1>6, <1>7, <1>11, <1>14, Zenon DEF a, b

LEMMA ByteIs ==
  ASSUME NEW m, Memory(m), NEW i \in Text!At PROVE m[i] \in 0 .. 255
<1>1. m[i] \in Chars \union {0}
  BY DEF Memory
<1>2. \A x \in Chars \union {0} : x \in 0 .. 255
  BY TextConstants
<1>3. QED
  BY <1>1, <1>2, Zenon

LEMMA strncmpIs ==
  ASSUME Memory(mem), NEW s1 \in Text!At, NEW s2 \in Text!At, NEW c \in Nat
  PROVE  Text!Order(Text!First(Text!String(mem, s1), c), Text!First(Text!String(mem, s2), c),
                    Text!strncmp(s1, s2, c))
<1> DEFINE C == {i \in 0 .. c : i = c \/ mem[s1 + i] # mem[s2 + i] \/ mem[s1 + i] = 0}
           v == [i \in 0 .. c |-> IF i = c THEN 0
                                  ELSE IF mem[s1 + i] # mem[s2 + i]
                                  THEN mem[s1 + i] - mem[s2 + i] ELSE 0]
           Body(f) == [i \in 0 .. c |->
                         IF i = c THEN 0
                         ELSE IF mem[s1 + i] # mem[s2 + i] THEN mem[s1 + i] - mem[s2 + i]
                         ELSE IF mem[s1 + i] = Text!NUL THEN 0 ELSE f[i + 1]]
           loop == CHOOSE f : f = Body(f)
<1>1. s1 \in Nat /\ s2 \in Nat /\ 0 <= c /\ c \in C
  BY TextConstants
<1>2. \A f : f = Body(f) <=> Looped(f, 0, c, C, v)
  <2> SUFFICES ASSUME NEW f
               PROVE  Body(f) = [i \in 0 .. c |-> IF i \in C THEN v[i] ELSE f[i + 1]]
    BY Zenon DEF Looped
  <2>1. ASSUME NEW i \in 0 .. c
        PROVE  (IF i = c THEN 0
                ELSE IF mem[s1 + i] # mem[s2 + i] THEN mem[s1 + i] - mem[s2 + i]
                ELSE IF mem[s1 + i] = Text!NUL THEN 0 ELSE f[i + 1])
               = IF i \in C THEN v[i] ELSE f[i + 1]
    BY TextConstants
  <2> HIDE DEF C, v
  <2>2. QED
    BY <2>1
<1>3. \E f : Looped(f, 0, c, C, v)
  <2> HIDE DEF C, v
  <2> QED
    BY <1>1, 0 \in Nat, LoopExists
<1>4. Looped(loop, 0, c, C, v)
  <2> HIDE DEF Body
  <2>1. \E f : f = Body(f)
    BY <1>2, <1>3
  <2>2. loop = Body(loop)
    BY <2>1, Zenon
  <2> HIDE DEF loop
  <2>3. QED
    BY <1>2, <2>2
<1>5. PICK k \in 0 .. c : Stop(C, 0, k) /\ loop[0] = v[k]
  <2> HIDE DEF C, v, loop
  <2> QED
    BY <1>1, <1>4, 0 \in Nat, LoopIs
<1>6. Text!strncmp(s1, s2, c) = loop[0]
  BY DEF Text!strncmp
<1> HIDE DEF loop
<1>7. /\ k \in Nat /\ loop[0] = v[k]
      /\ k = c \/ mem[s1 + k] = 0 \/ mem[s1 + k] # mem[s2 + k]
      /\ \A i \in 0 .. k - 1 : mem[s1 + i] # 0 /\ mem[s1 + i] = mem[s2 + i]
  <2>1. k \in C /\ \A j \in 0 .. k - 1 : j \notin C
    BY <1>5 DEF Stop
  <2>2. \A j \in 0 .. k - 1 : j \in 0 .. c /\ j # c
    BY <1>1, <1>5
  <2>3. QED
    BY <1>5, <2>1, <2>2
<1>8. PICK e1 \in s1 .. SIZE - 1 : TextEnd(mem, s1, e1)
  BY TextEnds
<1>9. PICK e2 \in s2 .. SIZE - 1 : TextEnd(mem, s2, e2)
  BY TextEnds
<1> DEFINE a == Text!String(mem, s1)
           b == Text!String(mem, s2)
           a1 == Text!First(a, c)
           b1 == Text!First(b, c)
<1>10. /\ k \in 0 .. e1 - s1 /\ k \in 0 .. e2 - s2 /\ \A i \in 1 .. k : a[i] = b[i]
  BY <1>7, <1>8, <1>9, Agree
<1>11. /\ After(a, k) = mem[s1 + k] /\ k <= Len(a) /\ (mem[s1 + k] = 0 <=> k = Len(a))
       /\ After(b, k) = mem[s2 + k] /\ k <= Len(b) /\ (mem[s2 + k] = 0 <=> k = Len(b))
  BY <1>8, <1>9, <1>10, AfterText
<1>12. a \in Seq(Chars) /\ b \in Seq(Chars) /\ Len(a) \in Nat /\ Len(b) \in Nat
  BY <1>8, <1>9, StringIs, LenProperties
<1>13. v[k] = IF k = c THEN 0 ELSE mem[s1 + k] - mem[s2 + k]
  <2>1. mem[s1 + k] \in Int /\ mem[s2 + k] \in Int
    <3>1. s1 + k \in Text!At /\ s2 + k \in Text!At
      BY <1>1, <1>8, <1>9, <1>10, TextConstants
    <3> HIDE DEF a, b, a1, b1, C, v
    <3>2. mem[s1 + k] \in 0 .. 255 /\ mem[s2 + k] \in 0 .. 255
      BY <3>1, ByteIs
    <3>3. QED
      BY <3>2
  <2>2. QED
    BY <2>1
<1> HIDE DEF a, b, C, v
<1>14. /\ a1 \in Seq(Chars) /\ Len(a1) = IF Len(a) < c THEN Len(a) ELSE c
       /\ \A i \in 1 .. Len(a1) : a1[i] = a[i]
  BY <1>12, FirstIs
<1>15. /\ b1 \in Seq(Chars) /\ Len(b1) = IF Len(b) < c THEN Len(b) ELSE c
       /\ \A i \in 1 .. Len(b1) : b1[i] = b[i]
  BY <1>12, FirstIs
<1> HIDE DEF a1, b1
<1>16. /\ k <= Len(a1) /\ k <= Len(b1) /\ \A i \in 1 .. k : a1[i] = b1[i]
  <2>1. k <= Len(a1) /\ k <= Len(b1) /\ Len(a1) \in Nat /\ Len(b1) \in Nat
    BY <1>5, <1>11, <1>12, <1>14, <1>15
  <2>2. ASSUME NEW i \in 1 .. k PROVE a1[i] = b1[i]
    <3>1. i \in 1 .. Len(a1) /\ i \in 1 .. Len(b1)
      BY <1>7, <2>1
    <3>2. QED
      BY <1>10, <1>14, <1>15, <3>1
  <2>3. QED
    BY <2>1, <2>2
<1>17. CASE k = c
  <2>1. k = Len(a1) /\ k = Len(b1)
    BY <1>11, <1>12, <1>14, <1>15, <1>17
  <2>2. After(a1, k) = 0 /\ After(b1, k) = 0
    BY <2>1 DEF After
  <2>3. Text!Order(a1, b1, After(a1, k) - After(b1, k))
    BY <1>7, <1>14, <1>15, <1>16, <2>1, OrderIs
  <2>4. After(a1, k) - After(b1, k) = 0 /\ loop[0] = 0
    BY <1>7, <1>13, <1>17, <2>2
  <2>5. QED
    BY <1>6, <2>3, <2>4, Zenon DEF a1, b1, a, b
<1>18. CASE k # c
  <2>1. k < c
    BY <1>5, <1>18
  <2>2. /\ k = Len(a1) <=> k = Len(a)
        /\ k = Len(b1) <=> k = Len(b)
    BY <1>7, <1>11, <1>12, <1>14, <1>15, <2>1
  <2>3. After(a1, k) = After(a, k) /\ After(b1, k) = After(b, k)
    <3>1. k # Len(a1) => a1[k + 1] = a[k + 1]
      BY <1>7, <1>12, <1>14, <1>16
    <3>2. k # Len(b1) => b1[k + 1] = b[k + 1]
      BY <1>7, <1>12, <1>15, <1>16
    <3>3. QED
      BY <2>2, <3>1, <3>2 DEF After
  <2>4. After(a1, k) # After(b1, k) \/ (k = Len(a1) /\ k = Len(b1))
    BY <1>7, <1>11, <1>18, <2>2, <2>3, Zenon
  <2>5. Text!Order(a1, b1, After(a1, k) - After(b1, k))
    BY <1>7, <1>14, <1>15, <1>16, <2>4, OrderIs
  <2>6. After(a1, k) - After(b1, k) = loop[0]
    BY <1>7, <1>11, <1>13, <1>18, <2>3, Zenon
  <2>7. QED
    BY <1>6, <2>5, <2>6, Zenon DEF a1, b1, a, b
<1>19. QED
  BY <1>17, <1>18

-----------------------------------------------------------------------------
(* The string functions: searches.                                          *)

(* f is what a search from s on returns for the places Hit.                      *)
Searched(f, s, Hit) ==
  f = [i \in s .. SIZE - 1 |-> IF mem[i] = Text!NUL THEN Text!NULL
                               ELSE IF i \in Hit THEN i ELSE f[i + 1]]

LEMMA SearchIs ==
  ASSUME Memory(mem), NEW s \in Text!At, NEW e, TextEnd(mem, s, e), NEW Hit
  PROVE  /\ \E f : Searched(f, s, Hit)
         /\ \A f : Searched(f, s, Hit) =>
              LET S == {i \in s .. e - 1 : i \in Hit} IN
              IF S = {} THEN f[s] = -1 ELSE f[s] \in S /\ \A i \in S : f[s] <= i
<1> DEFINE top == SIZE - 1
           C == {i \in s .. top : mem[i] = 0 \/ i \in Hit}
           v == [i \in s .. top |-> IF mem[i] = 0 THEN -1 ELSE i]
           S == {i \in s .. e - 1 : i \in Hit}
<1>1. s \in Nat /\ top \in Nat /\ s <= top /\ top \in C
  BY TextConstants DEF Memory
<1>2. ASSUME NEW f PROVE Searched(f, s, Hit) <=> Looped(f, s, top, C, v)
  <2>1. ASSUME NEW i \in s .. top
        PROVE  (IF mem[i] = Text!NUL THEN Text!NULL ELSE IF i \in Hit THEN i ELSE f[i + 1])
               = IF i \in C THEN v[i] ELSE f[i + 1]
    <3> HIDE DEF top
    <3> QED
      BY TextConstants
  <2> HIDE DEF C, v
  <2>2. [i \in s .. SIZE - 1 |-> IF mem[i] = Text!NUL THEN Text!NULL
                                 ELSE IF i \in Hit THEN i ELSE f[i + 1]]
          = [i \in s .. top |-> IF i \in C THEN v[i] ELSE f[i + 1]]
    BY <2>1
  <2>3. QED
    BY <2>2, Zenon DEF Looped, Searched
<1>3. \E f : Looped(f, s, top, C, v)
  <2> HIDE DEF C, top, v
  <2> QED
    BY <1>1, LoopExists
<1>4. \E f : Searched(f, s, Hit)
  <2> HIDE DEF top, C, v
  <2> QED
    BY <1>2, <1>3, Zenon
<1>5. ASSUME NEW f, Searched(f, s, Hit)
      PROVE  IF S = {} THEN f[s] = -1 ELSE f[s] \in S /\ \A i \in S : f[s] <= i
  <2>1. PICK k \in s .. top : Stop(C, s, k) /\ f[s] = v[k]
    <3> HIDE DEF C, top, v
    <3> QED
      BY <1>1, <1>2, <1>5, LoopIs
  <2> HIDE DEF top
  <2>2. /\ k \in Nat /\ s <= k /\ f[s] = IF mem[k] = 0 THEN -1 ELSE k
        /\ mem[k] = 0 \/ k \in Hit
        /\ \A i \in s .. k - 1 : mem[i] # 0 /\ i \notin Hit
    <3>1. k \in C /\ \A j \in s .. k - 1 : j \notin C
      BY <2>1 DEF Stop
    <3>2. \A j \in s .. k - 1 : j \in s .. top
      BY <1>1, <2>1
    <3>3. QED
      BY <1>1, <2>1, <3>1, <3>2
  <2>3. e \in Nat /\ s <= e /\ mem[e] = 0 /\ \A i \in s .. e - 1 : mem[i] # 0
    BY <1>1, TextConstants DEF TextEnd
  <2>4. k <= e
    BY <2>2, <2>3
  <2>5. CASE k = e
    BY <2>2, <2>3, <2>5
  <2>6. CASE k < e
    <3>1. mem[k] # 0 /\ f[s] = k /\ k \in S
      BY <1>1, <2>2, <2>3, <2>6
    <3>2. \A i \in S : k <= i
      BY <1>1, <2>2, <2>3
    <3>3. QED
      BY <3>1, <3>2
  <2>7. QED
    BY <2>2, <2>3, <2>4, <2>5, <2>6
<1>6. QED
  BY <1>4, <1>5

LEMMA strchrIs ==
  ASSUME Memory(mem), NEW s \in Text!At, NEW c, NEW e, TextEnd(mem, s, e)
  PROVE  LET r == Text!strchr(s, c)
             S == {i \in s .. e - 1 : Text!Char(mem[i]) = c}
         IN  IF S = {} THEN r = -1 ELSE r \in S /\ \A i \in S : r <= i
<1> DEFINE Hit == {i \in Text!At : Text!Char(mem[i]) = c}
           Body(f) == [i \in s .. SIZE - 1 |->
                         IF mem[i] = Text!NUL THEN Text!NULL ELSE IF Text!Char(mem[i]) = c THEN i ELSE f[i + 1]]
           loop == CHOOSE f : f = Body(f)
<1>1. s \in Nat /\ e \in s .. SIZE - 1 /\ SIZE \in Nat
  BY TextConstants DEF TextEnd
<1>2. ASSUME NEW f PROVE f = Body(f) <=> Searched(f, s, Hit)
  <2>1. \A i \in s .. SIZE - 1 : Text!Char(mem[i]) = c <=> i \in Hit
    BY <1>1, TextConstants
  <2> HIDE DEF Hit
  <2>2. Body(f) = [i \in s .. SIZE - 1 |-> IF mem[i] = Text!NUL THEN Text!NULL
                                           ELSE IF i \in Hit THEN i ELSE f[i + 1]]
    BY <2>1
  <2>3. QED
    BY <2>2, Zenon DEF Searched
<1>3. \E f : Searched(f, s, Hit)
  <2> HIDE DEF Hit
  <2> QED
    BY SearchIs
<1>4. Searched(loop, s, Hit)
  <2> HIDE DEF Body, Hit
  <2>1. \E f : f = Body(f)
    BY <1>2, <1>3
  <2>2. loop = Body(loop)
    BY <2>1, Zenon
  <2> HIDE DEF loop
  <2>3. QED
    BY <1>2, <2>2
<1>5. Text!strchr(s, c) = loop[s]
  BY DEF Text!strchr
<1>6. {i \in s .. e - 1 : i \in Hit} = {i \in s .. e - 1 : Text!Char(mem[i]) = c}
  BY <1>1, TextConstants
<1> HIDE DEF loop, Hit
<1>7. LET S == {i \in s .. e - 1 : i \in Hit} IN
      IF S = {} THEN loop[s] = -1 ELSE loop[s] \in S /\ \A i \in S : loop[s] <= i
  BY <1>4, SearchIs
<1>8. QED
  BY <1>5, <1>6, <1>7

LEMMA strstrIs ==
  ASSUME Memory(mem), NEW s \in Text!At, NEW t \in Text!At, NEW e, TextEnd(mem, s, e)
  PROVE  LET r == Text!strstr(s, t)
             R == Text!String(mem, t)
             S == {i \in s .. e - 1 : Text!First(Text!String(mem, i), Len(R)) = R}
         IN  IF S = {} THEN r = -1 ELSE r \in S /\ \A i \in S : r <= i
<1> DEFINE R == Text!String(mem, t)
           len == Text!strlen(t)
           Hit == {i \in Text!At : Text!First(Text!String(mem, i), Len(R)) = R}
           Body(f) == [i \in s .. SIZE - 1 |->
                         IF mem[i] = Text!NUL THEN Text!NULL
                         ELSE IF Text!strncmp(i, t, len) = 0 THEN i ELSE f[i + 1]]
           loop == CHOOSE f : f = Body(f)
<1>1. s \in Nat /\ e \in s .. SIZE - 1 /\ SIZE \in Nat
  BY TextConstants DEF TextEnd
<1>2. len = Len(R) /\ len \in Nat /\ R \in Seq(Chars)
  <2>1. TextEnd(mem, t, t + len) /\ len \in 0 .. SIZE - 1 - t /\ t \in Nat
    <3>1. TextEnd(mem, t, t + len) /\ len \in 0 .. SIZE - 1 - t
      BY strlenIs
    <3>2. QED
      BY <3>1, TextConstants
  <2>2. R \in Seq(Chars) /\ Len(R) = (t + len) - t
    BY <2>1, StringIs
  <2> HIDE DEF R, len
  <2>3. QED
    BY <2>1, <2>2, TextConstants
<1>3. ASSUME NEW i \in s .. SIZE - 1 PROVE Text!strncmp(i, t, len) = 0 <=> i \in Hit
  <2>1. i \in Text!At
    BY <1>1, TextConstants
  <2>2. Text!Order(Text!First(Text!String(mem, i), len), Text!First(R, len),
                   Text!strncmp(i, t, len))
    <3> HIDE DEF len
    <3> QED
      BY <1>2, <2>1, strncmpIs
  <2>3. Text!First(R, len) = R
    <3> HIDE DEF R, len
    <3>1. /\ Text!First(R, len) \in Seq(Chars) /\ Len(Text!First(R, len)) = Len(R)
          /\ \A j \in 1 .. Len(R) : Text!First(R, len)[j] = R[j]
      BY <1>2, FirstIs
    <3>2. QED
      BY <1>2, <3>1, SeqEqual
  <2>4. Text!strncmp(i, t, len) = 0 <=> Text!First(Text!String(mem, i), len) = R
    BY <2>2, <2>3, Zenon DEF Text!Order
  <2> HIDE DEF R, len
  <2>5. QED
    BY <1>2, <2>1, <2>4
<1>4. ASSUME NEW f PROVE f = Body(f) <=> Searched(f, s, Hit)
  <2> HIDE DEF Hit
  <2>1. Body(f) = [i \in s .. SIZE - 1 |-> IF mem[i] = Text!NUL THEN Text!NULL
                                           ELSE IF i \in Hit THEN i ELSE f[i + 1]]
    BY <1>3
  <2>2. QED
    BY <2>1, Zenon DEF Searched
<1>5. \E f : Searched(f, s, Hit)
  <2> HIDE DEF Hit
  <2> QED
    BY SearchIs
<1>6. Searched(loop, s, Hit)
  <2> HIDE DEF Body, Hit
  <2>1. \E f : f = Body(f)
    BY <1>4, <1>5
  <2>2. loop = Body(loop)
    BY <2>1, Zenon
  <2> HIDE DEF loop
  <2>3. QED
    BY <1>4, <2>2
<1>7. Text!strstr(s, t) = loop[s]
  BY DEF Text!strstr
<1>8. {i \in s .. e - 1 : i \in Hit}
        = {i \in s .. e - 1 : Text!First(Text!String(mem, i), Len(R)) = R}
  <2>1. \A i \in s .. e - 1 : i \in Text!At
    BY <1>1, TextConstants
  <2> HIDE DEF R
  <2>2. QED
    BY <2>1
<1> HIDE DEF loop, Hit
<1>9. LET S == {i \in s .. e - 1 : i \in Hit} IN
      IF S = {} THEN loop[s] = -1 ELSE loop[s] \in S /\ \A i \in S : loop[s] <= i
  BY <1>6, SearchIs
<1>10. QED
  BY <1>7, <1>8, <1>9

LEMMA GreatestIn ==
  ASSUME NEW S, NEW m \in Nat, S \subseteq 0 .. m, S # {}
  PROVE  \E n \in S : \A j \in S : j <= n
<1> DEFINE D == {x \in 0 .. m : m - x \in S}
<1>1. \A j \in S : j \in 0 .. m /\ m - j \in D
  <2> SUFFICES ASSUME NEW j \in S PROVE j \in 0 .. m /\ m - j \in D
    OBVIOUS
  <2>1. j \in 0 .. m /\ m - j \in 0 .. m /\ m - (m - j) = j
    OBVIOUS
  <2>2. QED
    BY <2>1
<1>2. D \in SUBSET Nat /\ D # {}
  <2>1. PICK j \in S : TRUE
    OBVIOUS
  <2>2. m - j \in D
    BY <1>1
  <2>3. D \in SUBSET Nat
    OBVIOUS
  <2> HIDE DEF D
  <2>4. QED
    BY <2>2, <2>3
<1>3. PICK d \in D : \A x \in D : d <= x
  <2> HIDE DEF D
  <2> QED
    BY <1>2, LeastIn
<1>4. ASSUME NEW j \in S PROVE j <= m - d
  BY <1>1, <1>3
<1>5. m - d \in S
  BY <1>3
<1>6. QED
  BY <1>4, <1>5

LEMMA strrchrIs ==
  ASSUME Memory(mem), NEW s \in Text!At, NEW c, NEW e, TextEnd(mem, s, e)
  PROVE  LET r == Text!strrchr(s, c)
             S == {i \in s .. e - 1 : Text!Char(mem[i]) = c}
         IN  IF S = {} THEN r = -1 ELSE r \in S /\ \A i \in S : r >= i
<1> DEFINE n == Text!strlen(s)
           S(k) == {i \in s .. s + k - 1 : Text!Char(mem[i]) = c}
           Best(k) == IF S(k) = {} THEN -1 ELSE CHOOSE r \in S(k) : \A i \in S(k) : i <= r
           Body(f) == [i \in 0 .. n |->
                         IF i = 0 THEN Text!NULL
                         ELSE IF Text!Char(mem[s + i - 1]) = c THEN s + i - 1 ELSE f[i - 1]]
           loop == CHOOSE f : f = Body(f)
<1>1. s \in Nat /\ n \in Nat /\ s + n = e /\ SIZE \in Nat
  <2>1. TextEnd(mem, s, s + n) /\ n \in 0 .. SIZE - 1 - s
    BY strlenIs
  <2> HIDE DEF n
  <2>2. s + n = e
    BY <2>1, EndUnique
  <2>3. QED
    BY <2>1, <2>2, TextConstants
<1> HIDE DEF n
<1>2. ASSUME NEW k \in 0 .. n
      PROVE  S(k) = {} \/ (Best(k) \in S(k) /\ \A i \in S(k) : i <= Best(k))
  <2>1. S(k) \subseteq 0 .. s + n
    BY <1>1
  <2>2. S(k) # {} => \E r \in S(k) : \A i \in S(k) : i <= r
    <3> HIDE DEF S
    <3>1. s + n \in Nat
      BY <1>1
    <3>2. QED
      BY <2>1, <3>1, GreatestIn
  <2> HIDE DEF S
  <2>3. QED
    BY <2>2, Zenon
<1>3. ASSUME NEW k \in 0 .. n
      PROVE  Best(k) = IF k = 0 THEN -1 ELSE IF Text!Char(mem[s + k - 1]) = c THEN s + k - 1 ELSE Best(k - 1)
  <2>1. CASE k = 0
    <3>1. S(k) = {}
      BY <1>1, <2>1
    <3>2. QED
      BY <2>1, <3>1, Zenon
  <2>2. CASE k # 0 /\ Text!Char(mem[s + k - 1]) = c
    <3>1. s + k - 1 \in S(k) /\ \A i \in S(k) : i <= s + k - 1 /\ i \in Nat
      BY <1>1, <2>2
    <3>2. Best(k) \in S(k) /\ \A i \in S(k) : i <= Best(k)
      BY <1>2, <3>1
    <3> HIDE DEF S, Best
    <3>3. Best(k) = s + k - 1
      BY <1>1, <3>1, <3>2
    <3>4. QED
      BY <2>2, <3>3
  <2>3. CASE k # 0 /\ Text!Char(mem[s + k - 1]) # c
    <3>1. S(k) = S(k - 1)
      BY <1>1, <2>3
    <3> HIDE DEF S
    <3>2. Best(k) = Best(k - 1)
      BY <3>1
    <3> HIDE DEF Best
    <3>3. QED
      BY <2>3, <3>2
  <2>4. QED
    BY <2>1, <2>2, <2>3
<1>4. \E f : f = Body(f)
  <2> DEFINE g == [k \in 0 .. n |-> Best(k)]
  <2> HIDE DEF Best
  <2>1. ASSUME NEW k \in 0 .. n
        PROVE  g[k] = IF k = 0 THEN Text!NULL
                      ELSE IF Text!Char(mem[s + k - 1]) = c THEN s + k - 1 ELSE g[k - 1]
    <3>1. k # 0 => k - 1 \in 0 .. n
      BY <1>1
    <3>2. QED
      BY <1>3, <3>1, TextConstants
  <2>2. g = [k \in 0 .. n |-> g[k]]
    OBVIOUS
  <2> HIDE DEF g
  <2>3. g = Body(g)
    BY <2>1, <2>2
  <2>4. QED
    BY <2>3
<1>5. loop = Body(loop)
  <2> HIDE DEF Body
  <2>1. QED
    BY <1>4, Zenon
<1> HIDE DEF loop
<1>6. ASSUME NEW k \in 0 .. n
      PROVE  loop[k] = IF k = 0 THEN -1 ELSE IF Text!Char(mem[s + k - 1]) = c THEN s + k - 1 ELSE loop[k - 1]
  BY <1>5, TextConstants
<1> HIDE DEF Best, Body
<1> DEFINE Bad == {k \in 0 .. n : loop[k] # Best(k)}
<1>7. ASSUME NEW k \in Bad PROVE k # 0 /\ k - 1 \in Bad
  <2>1. k \in 0 .. n /\ loop[k] # Best(k)
    OBVIOUS
  <2>2. k # 0 /\ loop[k] = loop[k - 1] /\ Best(k) = Best(k - 1)
    BY <1>3, <1>6, <2>1
  <2>3. QED
    BY <1>1, <2>1, <2>2
<1>8. Bad = {}
  <2>1. Bad \in SUBSET Nat
    BY <1>1
  <2> HIDE DEF Bad
  <2>2. QED
    BY <1>7, <2>1, Smallest
<1>9. loop[n] = Best(n) /\ n \in 0 .. n
  BY <1>1, <1>8
<1>10. Text!strrchr(s, c) = loop[n]
  BY DEF Text!strrchr, loop, Body, n
<1>11. S(n) = {i \in s .. e - 1 : Text!Char(mem[i]) = c} /\ \A i \in S(n) : i \in Nat
  BY <1>1
<1>12. S(n) = {} => Best(n) = -1
  BY DEF Best
<1> HIDE DEF S
<1>13. S(n) # {} => Best(n) \in S(n) /\ \A i \in S(n) : Best(n) >= i
  BY <1>2, <1>9, <1>11
<1>14. QED
  BY <1>9, <1>10, <1>11, <1>12, <1>13

-----------------------------------------------------------------------------
(* The string functions: copies.                                           *)

(* f is what a loop that copies n bytes of m from s to d does, the p[k]-th in round k. *)
Copying(f, m, d, s, n, p) ==
  f = [k \in 0 .. n |-> IF k = 0 THEN m
                        ELSE [f[k - 1] EXCEPT ![d + p[k]] = f[k - 1][s + p[k]]]]

Copied(m, w, d, s, n) ==
  /\ w \in [Text!At -> Chars \union {0}]
  /\ \A i \in 0 .. n - 1 : w[d + i] = m[s + i]
  /\ \A x \in Text!At : x \notin d .. d + n - 1 => w[x] = m[x]

(* No byte is read after it has been written.                                  *)
LEMMA CopyIs ==
  ASSUME NEW m \in [Text!At -> Chars \union {0}], NEW d \in Nat, NEW s \in Nat, NEW n \in Nat,
         d + n <= SIZE, s + n <= SIZE,
         NEW p, \A k \in 1 .. n : p[k] \in 0 .. n - 1,
         \A i \in 0 .. n - 1 : \E k \in 1 .. n : p[k] = i,
         \A k \in 1 .. n : \A j \in 1 .. k - 1 : s + p[k] # d + p[j]
  PROVE  /\ \E f : Copying(f, m, d, s, n, p)
         /\ \A f : Copying(f, m, d, s, n, p) => Copied(m, f[n], d, s, n)
<1> DEFINE Done(k) == {d + p[j] : j \in 1 .. k}
           M(k) == [x \in Text!At |-> IF x \in Done(k) THEN m[s + (x - d)] ELSE m[x]]
<1>1. Text!At = 0 .. SIZE - 1 /\ SIZE \in Nat
  BY TextConstants
<1>2. ASSUME NEW k \in 1 .. n
      PROVE  M(k) = [M(k - 1) EXCEPT ![d + p[k]] = M(k - 1)[s + p[k]]]
  <2>1. p[k] \in 0 .. n - 1 /\ d + p[k] \in Text!At /\ s + p[k] \in Text!At
    BY <1>1
  <2>2. s + p[k] \notin Done(k - 1)
    OBVIOUS
  <2>3. Done(k) = Done(k - 1) \union {d + p[k]}
    <3>1. 1 .. k = (1 .. k - 1) \union {k}
      OBVIOUS
    <3>2. QED
      BY <3>1
  <2>4. s + ((d + p[k]) - d) = s + p[k]
    BY <2>1
  <2> HIDE DEF Done
  <2>5. M(k - 1)[s + p[k]] = m[s + p[k]]
    BY <2>1, <2>2
  <2>6. ASSUME NEW x \in Text!At
        PROVE  M(k)[x] = IF x = d + p[k] THEN m[s + p[k]] ELSE M(k - 1)[x]
    BY <2>1, <2>3, <2>4
  <2>7. QED
    BY <2>1, <2>5, <2>6
<1>3. M(0) = m
  <2>1. Done(0) = {}
    OBVIOUS
  <2> HIDE DEF Done
  <2>2. QED
    BY <2>1
<1>4. Copied(m, M(n), d, s, n)
  <2>1. ASSUME NEW i \in 0 .. n - 1 PROVE M(n)[d + i] = m[s + i]
    <3>1. d + i \in Done(n) /\ d + i \in Text!At /\ s + ((d + i) - d) = s + i
      <4>1. PICK k \in 1 .. n : p[k] = i
        OBVIOUS
      <4>2. d + p[k] \in Done(n)
        OBVIOUS
      <4> HIDE DEF Done
      <4>3. d + i \in Done(n)
        BY <4>1, <4>2
      <4>4. QED
        BY <1>1, <4>3
    <3> HIDE DEF Done
    <3>2. QED
      BY <3>1
  <2>2. ASSUME NEW x \in Text!At, x \notin d .. d + n - 1 PROVE M(n)[x] = m[x]
    <3>1. x \notin Done(n)
      BY <2>2
    <3> HIDE DEF Done
    <3>2. QED
      BY <3>1
  <2>3. ASSUME NEW x \in Text!At PROVE M(n)[x] \in Chars \union {0}
    <3>1. CASE x \in d .. d + n - 1
      <4>1. x - d \in 0 .. n - 1 /\ d + (x - d) = x /\ s + (x - d) \in Text!At
        BY <1>1, <3>1
      <4> HIDE DEF Done, M
      <4>2. M(n)[d + (x - d)] = m[s + (x - d)]
        BY <2>1, <4>1
      <4>3. M(n)[x] = m[s + (x - d)]
        BY <4>1, <4>2
      <4>4. QED
        BY <4>1, <4>3
    <3>2. CASE x \notin d .. d + n - 1
      <4>1. M(n)[x] = m[x]
        BY <2>2, <3>2
      <4> HIDE DEF Done, M
      <4>2. QED
        BY <4>1
    <3>3. QED
      BY <3>1, <3>2
  <2>4. M(n) \in [Text!At -> Chars \union {0}]
    <3>1. M(n) = [x \in Text!At |-> M(n)[x]]
      OBVIOUS
    <3> HIDE DEF M
    <3>2. QED
      BY <2>3, <3>1
  <2> HIDE DEF M, Done
  <2>5. QED
    BY <2>1, <2>2, <2>4 DEF Copied
<1> HIDE DEF M, Done
<1>5. \E f : Copying(f, m, d, s, n, p)
  <2> DEFINE g == [k \in 0 .. n |-> M(k)]
  <2>1. ASSUME NEW k \in 0 .. n
        PROVE  g[k] = IF k = 0 THEN m
                      ELSE [g[k - 1] EXCEPT ![d + p[k]] = g[k - 1][s + p[k]]]
    <3>1. CASE k = 0
      BY <1>3, <3>1
    <3>2. CASE k # 0
      <4>1. k \in 1 .. n /\ g[k] = M(k) /\ g[k - 1] = M(k - 1)
        BY <3>2
      <4> HIDE DEF g
      <4>2. QED
        BY <1>2, <4>1
    <3>3. QED
      BY <3>1, <3>2
  <2>2. g = [k \in 0 .. n |-> g[k]]
    OBVIOUS
  <2> HIDE DEF g
  <2>3. Copying(g, m, d, s, n, p)
    BY <2>1, <2>2 DEF Copying
  <2>4. QED
    BY <2>3
<1>6. ASSUME NEW f, Copying(f, m, d, s, n, p) PROVE f[n] = M(n)
  <2>1. ASSUME NEW k \in 0 .. n
        PROVE  f[k] = IF k = 0 THEN m
                      ELSE [f[k - 1] EXCEPT ![d + p[k]] = f[k - 1][s + p[k]]]
    BY <1>6, Zenon DEF Copying
  <2> DEFINE Bad == {k \in 0 .. n : f[k] # M(k)}
  <2>2. ASSUME NEW k \in Bad PROVE k # 0 /\ k - 1 \in Bad
    <3>1. k \in 0 .. n /\ f[k] # M(k)
      OBVIOUS
    <3>2. k # 0
      BY <1>3, <2>1, <3>1
    <3>3. k \in 1 .. n /\ k - 1 \in 0 .. n
      BY <3>1, <3>2
    <3>4. f[k - 1] # M(k - 1)
      <4>1. f[k] = [f[k - 1] EXCEPT ![d + p[k]] = f[k - 1][s + p[k]]]
        BY <2>1, <3>1, <3>2
      <4>2. M(k) = [M(k - 1) EXCEPT ![d + p[k]] = M(k - 1)[s + p[k]]]
        BY <1>2, <3>3
      <4>3. QED
        BY <3>1, <4>1, <4>2, Zenon
    <3>5. QED
      BY <3>2, <3>3, <3>4
  <2>3. Bad = {}
    <3>1. Bad \in SUBSET Nat
      OBVIOUS
    <3> HIDE DEF Bad
    <3>2. QED
      BY <2>2, <3>1, Smallest
  <2>4. n \in 0 .. n
    OBVIOUS
  <2>5. QED
    BY <2>3, <2>4
<1>7. QED
  BY <1>4, <1>5, <1>6

(* No byte of the one place is one of the other.                               *)
Disjoint(d, s, n) == (d .. d + n - 1) \intersect (s .. s + n - 1) = {}

LEMMA CopyLoopIs ==
  ASSUME NEW m \in [Text!At -> Chars \union {0}], NEW d \in Nat, NEW s \in Nat, NEW n \in Nat,
         d + n <= SIZE, s + n <= SIZE, Disjoint(d, s, n)
  PROVE  Copied(m, Text!Copy(m, d, s, n), d, s, n)
<1> DEFINE p == [k \in 1 .. n |-> k - 1]
           Body(f) == [k \in 0 .. n |->
                         IF k = 0 THEN m
                         ELSE [f[k - 1] EXCEPT ![d + k - 1] = f[k - 1][s + k - 1]]]
           loop == CHOOSE f : f = Body(f)
<1>1. SIZE \in Nat /\ Text!At = 0 .. SIZE - 1
  BY TextConstants
<1>2. (d .. d + n - 1) \intersect (s .. s + n - 1) = {}
  BY DEF Disjoint
<1>3. /\ \A k \in 1 .. n : p[k] \in 0 .. n - 1
      /\ \A i \in 0 .. n - 1 : \E k \in 1 .. n : p[k] = i
  <2>1. ASSUME NEW i \in 0 .. n - 1 PROVE \E k \in 1 .. n : p[k] = i
    <3>1. i + 1 \in 1 .. n /\ p[i + 1] = i
      BY <1>1
    <3>2. QED
      BY <3>1
  <2>2. QED
    BY <1>1, <2>1
<1>5. \A k \in 1 .. n : \A j \in 1 .. k - 1 : s + p[k] # d + p[j]
  <2> SUFFICES ASSUME NEW k \in 1 .. n, NEW j \in 1 .. k - 1
               PROVE  s + p[k] # d + p[j]
    OBVIOUS
  <2>1. /\ p[k] = k - 1 /\ p[j] = j - 1
        /\ s + (k - 1) \in s .. s + n - 1 /\ d + (j - 1) \in d .. d + n - 1
    BY <1>1
  <2> HIDE DEF p
  <2>2. QED
    BY <1>2, <2>1
<1>7. ASSUME NEW f PROVE f = Body(f) <=> Copying(f, m, d, s, n, p)
  <2>1. ASSUME NEW k \in 0 .. n
        PROVE  (IF k = 0 THEN m
                ELSE [f[k - 1] EXCEPT ![d + k - 1] = f[k - 1][s + k - 1]])
               = IF k = 0 THEN m
                 ELSE [f[k - 1] EXCEPT ![d + p[k]] = f[k - 1][s + p[k]]]
    <3>1. CASE k # 0
      <4>1. d + k - 1 = d + p[k] /\ s + k - 1 = s + p[k]
        BY <1>1, <3>1
      <4> HIDE DEF p
      <4>2. QED
        BY <3>1, <4>1, Zenon
    <3>2. QED
      BY <3>1
  <2> HIDE DEF p
  <2>2. Body(f) = [k \in 0 .. n |-> IF k = 0 THEN m
                   ELSE [f[k - 1] EXCEPT ![d + p[k]] = f[k - 1][s + p[k]]]]
    BY <2>1
  <2>3. QED
    BY <2>2, Zenon DEF Copying
<1> HIDE DEF p
<1>8. /\ \E f : Copying(f, m, d, s, n, p)
      /\ \A f : Copying(f, m, d, s, n, p) => Copied(m, f[n], d, s, n)
  BY <1>1, <1>3, <1>5, CopyIs
<1>9. Copying(loop, m, d, s, n, p)
  <2> HIDE DEF Body
  <2>1. \E f : f = Body(f)
    BY <1>7, <1>8
  <2>2. loop = Body(loop)
    BY <2>1, Zenon
  <2> HIDE DEF loop
  <2>3. QED
    BY <1>7, <2>2
<1>10. Text!Copy(m, d, s, n) = loop[n]
  BY DEF Text!Copy
<1> HIDE DEF loop
<1>11. QED
  BY <1>8, <1>9, <1>10

LEMMA memcpyIs ==
  ASSUME Memory(mem), dest \in Text!At, src \in Text!At, number \in Nat,
         Text!Apart(Text!Span(dest, number), Text!Span(src, number))
  PROVE  Copied(mem, Text!memcpy, dest, src, number)
<1> DEFINE n == number
<1>1. dest \in Nat /\ src \in Nat /\ n \in Nat /\ SIZE \in Nat /\ Text!At = 0 .. SIZE - 1
  BY TextConstants
<1>2. dest .. dest + n - 1 \subseteq Text!At /\ src .. src + n - 1 \subseteq Text!At
      /\ Disjoint(dest, src, n)
  BY DEF Text!Apart, Text!Span, Disjoint
<1>3. dest + n <= SIZE /\ src + n <= SIZE
  <2>1. CASE n = 0
    BY <1>1, <2>1
  <2>2. CASE n # 0
    <3>1. dest + n - 1 \in dest .. dest + n - 1 /\ src + n - 1 \in src .. src + n - 1
      BY <1>1, <2>2
    <3>2. dest + n - 1 \in 0 .. SIZE - 1 /\ src + n - 1 \in 0 .. SIZE - 1
      BY <1>1, <1>2, <3>1
    <3>3. QED
      BY <1>1, <3>2
  <2>3. QED
    BY <2>1, <2>2
<1>4. mem \in [Text!At -> Chars \union {0}]
  BY DEF Memory
<1>5. Copied(mem, Text!Copy(mem, dest, src, n), dest, src, n)
  BY <1>1, <1>2, <1>3, <1>4, CopyLoopIs
<1>6. QED
  BY <1>5 DEF Text!memcpy

LEMMA ClearIs ==
  ASSUME NEW m \in [Text!At -> Chars \union {0}], NEW d \in Nat, NEW n \in Nat, d + n <= SIZE
  PROVE  Text!Clear(m, d, n) = [x \in Text!At |-> IF x \in d .. d + n - 1 THEN 0 ELSE m[x]]
<1> DEFINE M(k) == [x \in Text!At |-> IF x \in d .. d + k - 1 THEN 0 ELSE m[x]]
           Body(f) == [k \in 0 .. n |->
                         IF k = 0 THEN m ELSE [f[k - 1] EXCEPT ![d + k - 1] = Text!NUL]]
           loop == CHOOSE f : f = Body(f)
<1>1. SIZE \in Nat /\ Text!At = 0 .. SIZE - 1 /\ Text!NUL = 0
  BY TextConstants
<1>2. M(0) = m
  <2>1. \A x \in Text!At : x \notin d .. d + 0 - 1
    BY <1>1
  <2>2. QED
    BY <2>1
<1>3. ASSUME NEW k \in 1 .. n PROVE M(k) = [M(k - 1) EXCEPT ![d + k - 1] = 0]
  <2>1. ASSUME NEW x \in Text!At
        PROVE  x \in d .. d + k - 1 <=> x \in d .. d + (k - 1) - 1 \/ x = d + k - 1
    BY <1>1
  <2>2. d + k - 1 \in Text!At
    BY <1>1
  <2>3. QED
    BY <2>1, <2>2
<1> HIDE DEF M
<1>4. \E f : f = Body(f)
  <2> DEFINE g == [k \in 0 .. n |-> M(k)]
  <2>1. ASSUME NEW k \in 0 .. n
        PROVE  g[k] = IF k = 0 THEN m ELSE [g[k - 1] EXCEPT ![d + k - 1] = Text!NUL]
    <3>1. CASE k = 0
      BY <1>2, <3>1
    <3>2. CASE k # 0
      <4>1. k \in 1 .. n /\ g[k] = M(k) /\ g[k - 1] = M(k - 1)
        BY <3>2
      <4> HIDE DEF g
      <4>2. QED
        BY <1>1, <1>3, <4>1
    <3>3. QED
      BY <3>1, <3>2
  <2>2. g = [k \in 0 .. n |-> g[k]]
    OBVIOUS
  <2> HIDE DEF g
  <2>3. g = Body(g)
    BY <2>1, <2>2
  <2>4. QED
    BY <2>3
<1>5. loop = Body(loop)
  <2> HIDE DEF Body
  <2>1. QED
    BY <1>4, Zenon
<1> HIDE DEF loop
<1>6. ASSUME NEW k \in 0 .. n
      PROVE  loop[k] = IF k = 0 THEN m ELSE [loop[k - 1] EXCEPT ![d + k - 1] = 0]
  BY <1>1, <1>5
<1> HIDE DEF Body
<1> DEFINE Bad == {k \in 0 .. n : loop[k] # M(k)}
<1>7. ASSUME NEW k \in Bad PROVE k # 0 /\ k - 1 \in Bad
  <2>1. k \in 0 .. n /\ loop[k] # M(k)
    OBVIOUS
  <2>2. k # 0
    BY <1>2, <1>6, <2>1
  <2>3. k \in 1 .. n /\ k - 1 \in 0 .. n
    BY <2>1, <2>2
  <2>4. loop[k - 1] # M(k - 1)
    <3>1. /\ loop[k] = [loop[k - 1] EXCEPT ![d + k - 1] = 0]
          /\ M(k) = [M(k - 1) EXCEPT ![d + k - 1] = 0]
      BY <1>3, <1>6, <2>1, <2>2, <2>3
    <3>2. QED
      BY <2>1, <3>1, Zenon
  <2>5. QED
    BY <2>2, <2>3, <2>4
<1>8. Bad = {}
  <2>1. Bad \in SUBSET Nat
    OBVIOUS
  <2> HIDE DEF Bad
  <2>2. QED
    BY <1>7, <2>1, Smallest
<1>9. loop[n] = M(n)
  BY <1>8
<1>10. Text!Clear(m, d, n) = loop[n]
  BY DEF Text!Clear, loop, Body
<1>11. QED
  BY <1>9, <1>10 DEF M

LEMMA memmoveIs ==
  ASSUME Memory(mem), dest \in Text!At, src \in Text!At, number \in Nat, Text!Moves
  PROVE  Copied(mem, Text!memmove, dest, src, number)
<1> DEFINE n == number
           p == [k \in 1 .. n |-> IF dest < src THEN k - 1 ELSE n - k]
           Body(f) == [k \in 0 .. n |->
                         IF k = 0 THEN mem
                         ELSE LET i == IF dest < src THEN k - 1 ELSE n - k
                              IN  [f[k - 1] EXCEPT ![dest + i] = f[k - 1][src + i]]]
           loop == CHOOSE f : f = Body(f)
<1>1. dest \in Nat /\ src \in Nat /\ n \in Nat /\ SIZE \in Nat /\ Text!At = 0 .. SIZE - 1
  BY TextConstants
<1>2. dest + n <= SIZE /\ src + n <= SIZE
  BY DEF Text!Moves
<1>3. /\ \A k \in 1 .. n : p[k] \in 0 .. n - 1
      /\ \A i \in 0 .. n - 1 : \E k \in 1 .. n : p[k] = i
  <2>1. ASSUME NEW i \in 0 .. n - 1 PROVE \E k \in 1 .. n : p[k] = i
    <3>1. CASE dest < src
      <4>1. i + 1 \in 1 .. n /\ p[i + 1] = i
        BY <1>1, <3>1
      <4>2. QED
        BY <4>1
    <3>2. CASE ~ (dest < src)
      <4>1. n - i \in 1 .. n /\ p[n - i] = i
        BY <1>1, <3>2
      <4>2. QED
        BY <4>1
    <3>3. QED
      BY <3>1, <3>2
  <2>2. \A k \in 1 .. n : p[k] \in 0 .. n - 1
    BY <1>1
  <2> HIDE DEF p
  <2>3. QED
    BY <2>1, <2>2
<1>4. \A k \in 1 .. n : \A j \in 1 .. k - 1 : src + p[k] # dest + p[j]
  <2> SUFFICES ASSUME NEW k \in 1 .. n, NEW j \in 1 .. k - 1
               PROVE  src + p[k] # dest + p[j]
    OBVIOUS
  <2>1. p[k] = (IF dest < src THEN k - 1 ELSE n - k) /\ p[j] = IF dest < src THEN j - 1 ELSE n - j
    BY <1>1
  <2> HIDE DEF p
  <2>2. QED
    BY <1>1, <2>1
<1>5. mem \in [Text!At -> Chars \union {0}]
  BY DEF Memory
<1>6. ASSUME NEW f PROVE f = Body(f) <=> Copying(f, mem, dest, src, n, p)
  <2>1. ASSUME NEW k \in 0 .. n
        PROVE  (IF k = 0 THEN mem
                ELSE LET i == IF dest < src THEN k - 1 ELSE n - k
                     IN  [f[k - 1] EXCEPT ![dest + i] = f[k - 1][src + i]])
               = IF k = 0 THEN mem
                 ELSE [f[k - 1] EXCEPT ![dest + p[k]] = f[k - 1][src + p[k]]]
    <3>1. CASE k # 0
      <4>1. p[k] = IF dest < src THEN k - 1 ELSE n - k
        BY <1>1, <3>1
      <4> HIDE DEF p
      <4>2. QED
        BY <3>1, <4>1, Zenon
    <3>2. QED
      BY <3>1
  <2> HIDE DEF p
  <2>2. Body(f) = [k \in 0 .. n |-> IF k = 0 THEN mem
                   ELSE [f[k - 1] EXCEPT ![dest + p[k]] = f[k - 1][src + p[k]]]]
    BY <2>1
  <2>3. QED
    BY <2>2, Zenon DEF Copying
<1> HIDE DEF p, n
<1>7. /\ \E f : Copying(f, mem, dest, src, n, p)
      /\ \A f : Copying(f, mem, dest, src, n, p) => Copied(mem, f[n], dest, src, n)
  BY <1>1, <1>2, <1>3, <1>4, <1>5, CopyIs DEF n
<1>8. Copying(loop, mem, dest, src, n, p)
  <2> HIDE DEF Body
  <2>1. \E f : f = Body(f)
    BY <1>6, <1>7
  <2>2. loop = Body(loop)
    BY <2>1, Zenon
  <2> HIDE DEF loop
  <2>3. QED
    BY <1>6, <2>2
<1>9. Text!memmove = loop[n]
  BY DEF Text!memmove, n
<1> HIDE DEF loop
<1>10. QED
  BY <1>7, <1>8, <1>9 DEF n

LEMMA strncpyIs ==
  ASSUME Memory(mem), dest \in Text!At, src \in Text!At, number \in Nat,
         Text!Apart(Text!Span(dest, number), Text!Text(src))
  PROVE  LET R == Text!String(mem, src)
             w == Text!strncpy
         IN  /\ w \in [Text!At -> Chars \union {0}]
             /\ \A i \in 0 .. number - 1 :
                  w[dest + i] = IF i < Len(R) THEN R[i + 1] ELSE 0
             /\ \A x \in Text!At : x \notin dest .. dest + number - 1 => w[x] = mem[x]
<1> DEFINE len == Text!strlen(src)
           R == Text!String(mem, src)
           w == Text!strncpy
           n == number
<1>1. dest \in Nat /\ src \in Nat /\ n \in Nat /\ SIZE \in Nat /\ Text!At = 0 .. SIZE - 1
  BY TextConstants
<1>2. TextEnd(mem, src, src + len) /\ len \in 0 .. SIZE - 1 - src
  BY strlenIs
<1>3. w = [i \in Text!At |-> IF i \notin dest .. dest + n - 1 THEN mem[i]
                             ELSE IF i - dest < len THEN mem[src + i - dest] ELSE 0]
  <2> DEFINE k == Text!Rounds(src)
             c == Text!Copy(mem, dest, src, k)
  <2>1. k = IF len < n THEN len ELSE n
    BY DEF Text!Rounds
  <2> HIDE DEF len
  <2>2. /\ dest .. dest + n - 1 \subseteq Text!At /\ src .. src + len \subseteq Text!At
        /\ (dest .. dest + n - 1) \intersect (src .. src + len) = {}
    BY <1>1, <1>2 DEF Text!Apart, Text!Span, Text!Text, len
  <2>3. k \in Nat /\ k <= n /\ k <= len /\ n - k \in Nat /\ dest + k \in Nat
        /\ (dest + k) + (n - k) = dest + n
    BY <1>1, <1>2, <2>1
  <2>4. w = Text!Clear(c, dest + k, n - k)
    BY DEF Text!strncpy
  <2> HIDE DEF k, w
  <2>5. dest + n <= SIZE /\ src + len < SIZE
    <3>1. n # 0 => dest + n - 1 \in dest .. dest + n - 1
      BY <1>1
    <3>2. n # 0 => dest + n - 1 \in 0 .. SIZE - 1
      BY <1>1, <2>2, <3>1
    <3>3. QED
      BY <1>1, <1>2, <3>2
  <2>6. dest + k <= SIZE /\ src + k <= SIZE /\ Disjoint(dest, src, k)
    <3>1. dest .. dest + k - 1 \subseteq dest .. dest + n - 1
          /\ src .. src + k - 1 \subseteq src .. src + len
      BY <1>1, <1>2, <2>3
    <3>2. dest + k <= SIZE /\ src + k <= SIZE
      BY <1>1, <1>2, <2>3, <2>5
    <3>3. QED
      BY <2>2, <3>1, <3>2 DEF Disjoint
  <2>7. Copied(mem, c, dest, src, k)
    BY <1>1, <2>3, <2>6, CopyLoopIs DEF Memory
  <2> HIDE DEF c
  <2>8. /\ c \in [Text!At -> Chars \union {0}]
        /\ \A i \in 0 .. k - 1 : c[dest + i] = mem[src + i]
        /\ \A x \in Text!At : x \notin dest .. dest + k - 1 => c[x] = mem[x]
    BY <2>7 DEF Copied
  <2>9. w = [x \in Text!At |-> IF x \in dest + k .. (dest + k) + (n - k) - 1 THEN 0 ELSE c[x]]
    BY <2>3, <2>4, <2>5, <2>8, ClearIs
  <2>10. ASSUME NEW i \in Text!At
         PROVE  w[i] = IF i \notin dest .. dest + n - 1 THEN mem[i]
                       ELSE IF i - dest < len THEN mem[src + i - dest] ELSE 0
    <3>1. CASE i \notin dest .. dest + n - 1
      <4>1. i \notin dest .. dest + k - 1 /\ i \notin dest + k .. (dest + k) + (n - k) - 1
        BY <1>1, <2>3, <3>1
      <4>2. QED
        BY <2>8, <2>9, <3>1, <4>1
    <3>2. CASE i \in dest .. dest + n - 1 /\ i - dest < len
      <4>1. /\ i - dest \in 0 .. k - 1 /\ dest + (i - dest) = i
            /\ src + (i - dest) = src + i - dest
            /\ i \notin dest + k .. (dest + k) + (n - k) - 1
        BY <1>1, <1>2, <2>1, <2>3, <3>2
      <4>2. c[dest + (i - dest)] = mem[src + (i - dest)]
        BY <2>8, <4>1
      <4>3. QED
        BY <2>9, <3>2, <4>1, <4>2
    <3>3. CASE i \in dest .. dest + n - 1 /\ ~ (i - dest < len)
      <4>1. i \in dest + k .. (dest + k) + (n - k) - 1
        BY <1>1, <1>2, <2>1, <2>3, <3>3
      <4>2. QED
        BY <2>9, <3>3, <4>1
    <3>4. QED
      BY <3>1, <3>2, <3>3
  <2>11. w = [i \in Text!At |-> w[i]]
    BY <2>9
  <2>12. QED
    BY <2>10, <2>11
<1> HIDE DEF len, w
<1>4. R \in Seq(Chars) /\ Len(R) = len /\ \A i \in 1 .. len : R[i] = mem[src + i - 1]
  <2>1. (src + len) - src = len
    BY <1>1, <1>2
  <2>2. QED
    BY <1>2, <2>1, StringIs
<1> HIDE DEF R
<1>5. dest .. dest + n - 1 \subseteq Text!At
  BY DEF Text!Apart, Text!Span
<1>6. ASSUME NEW i \in 0 .. n - 1
      PROVE  w[dest + i] = IF i < Len(R) THEN R[i + 1] ELSE 0
  <2>1. dest + i \in dest .. dest + n - 1 /\ (dest + i) - dest = i /\ src + (dest + i) - dest = src + i
    BY <1>1
  <2>2. w[dest + i] = IF i < len THEN mem[src + i] ELSE 0
    BY <1>3, <1>5, <2>1
  <2>3. i < len => i + 1 \in 1 .. len /\ src + (i + 1) - 1 = src + i
    BY <1>1, <1>2
  <2>4. i < len => R[i + 1] = mem[src + i]
    BY <1>4, <2>3
  <2>5. QED
    BY <1>4, <2>2, <2>4
<1>7. \A x \in Text!At : x \notin dest .. dest + n - 1 => w[x] = mem[x]
  BY <1>3
<1>8. w \in [Text!At -> Chars \union {0}]
  <2>1. ASSUME NEW x \in Text!At PROVE w[x] \in Chars \union {0}
    <3>1. CASE x \notin dest .. dest + n - 1
      BY <1>7, <3>1 DEF Memory
    <3>2. CASE x \in dest .. dest + n - 1 /\ x - dest < len
      <4>1. src + x - dest \in Text!At
        BY <1>1, <1>2, <3>2
      <4>2. w[x] = mem[src + x - dest]
        BY <1>3, <3>2
      <4>3. QED
        BY <4>1, <4>2 DEF Memory
    <3>3. CASE x \in dest .. dest + n - 1 /\ ~ (x - dest < len)
      BY <1>3, <3>3
    <3>4. QED
      BY <3>1, <3>2, <3>3
  <2>2. w = [x \in Text!At |-> w[x]]
    BY <1>3
  <2>3. QED
    BY <2>1, <2>2
<1>9. QED
  BY <1>6, <1>7, <1>8 DEF w, R, n

(* What makes a text of the array the one text and then the other.               *)
LEMMA JoinIs ==
  ASSUME NEW w, Memory(w), NEW s \in Text!At, NEW e, TextEnd(w, s, e),
         NEW a \in Seq(Chars), NEW b \in Seq(Chars), e = s + Len(a) + Len(b),
         \A i \in 0 .. Len(a) - 1 : w[s + i] = a[i + 1],
         \A i \in 0 .. Len(b) - 1 : w[s + Len(a) + i] = b[i + 1]
  PROVE  Text!String(w, s) = a \o b
<1> DEFINE t == Text!String(w, s)
           c == a \o b
           m == Len(a)
           n == Len(b)
<1>1. m \in Nat /\ n \in Nat /\ s \in Nat
  BY LenProperties, TextConstants
<1>2. /\ c \in Seq(Chars) /\ Len(c) = m + n
      /\ \A i \in 1 .. m + n : c[i] = IF i <= m THEN a[i] ELSE b[i - m]
  BY ConcatProperties
<1>3. /\ t \in Seq(Chars) /\ Len(t) = m + n
      /\ \A i \in 1 .. m + n : t[i] = w[s + i - 1]
  <2>1. e - s = m + n
    BY <1>1
  <2> HIDE DEF m, n
  <2>2. QED
    BY <2>1, StringIs
<1> HIDE DEF t, c
<1>4. ASSUME NEW i \in 1 .. m + n PROVE t[i] = c[i]
  <2>1. CASE i <= m
    <3>1. i - 1 \in 0 .. m - 1 /\ (i - 1) + 1 = i /\ s + (i - 1) = s + i - 1
      BY <1>1, <2>1
    <3>2. w[s + (i - 1)] = a[(i - 1) + 1]
      BY <3>1
    <3>3. QED
      BY <1>2, <1>3, <2>1, <3>1, <3>2
  <2>2. CASE ~ (i <= m)
    <3>1. i - m - 1 \in 0 .. n - 1 /\ (i - m - 1) + 1 = i - m /\ s + m + (i - m - 1) = s + i - 1
      BY <1>1, <2>2
    <3>2. w[s + m + (i - m - 1)] = b[(i - m - 1) + 1]
      BY <3>1
    <3>3. QED
      BY <1>2, <1>3, <2>2, <3>1, <3>2
  <2>3. QED
    BY <2>1, <2>2
<1>5. QED
  BY <1>2, <1>3, <1>4, SeqEqual DEF t, c

(* What makes the text at dest of w the one that was there and the first characters  *)
(* of the one at src.                                                       *)
LEMMA AppendIs ==
  ASSUME Memory(mem), NEW w, Memory(w), dest \in Text!At, src \in Text!At,
         NEW e, TextEnd(mem, dest, e), NEW f, TextEnd(mem, src, f),
         NEW L \in Nat, L <= f - src, e + L <= SIZE - 1,
         \A x \in dest .. e - 1 : w[x] = mem[x],
         \A i \in 0 .. L - 1 : w[e + i] = mem[src + i], w[e + L] = 0,
         NEW b \in Seq(Chars), Len(b) = L,
         \A i \in 1 .. L : b[i] = Text!String(mem, src)[i]
  PROVE  Text!String(w, dest) = Text!String(mem, dest) \o b
<1> DEFINE a == Text!String(mem, dest)
           R == Text!String(mem, src)
<1>1. /\ dest \in Nat /\ src \in Nat /\ SIZE \in Nat /\ Text!At = 0 .. SIZE - 1
      /\ e \in dest .. SIZE - 1 /\ f \in src .. SIZE - 1
      /\ \A i \in dest .. e - 1 : mem[i] # 0
      /\ \A i \in src .. f - 1 : mem[i] # 0
  BY TextConstants DEF TextEnd
<1>2. a \in Seq(Chars) /\ Len(a) = e - dest /\ \A i \in 1 .. e - dest : a[i] = mem[dest + i - 1]
  BY StringIs
<1>3. \A i \in 1 .. f - src : R[i] = mem[src + i - 1]
  BY StringIs
<1> HIDE DEF a, R
<1>4. TextEnd(w, dest, e + L)
  <2>1. e + L \in dest .. SIZE - 1
    BY <1>1
  <2>2. ASSUME NEW i \in dest .. e + L - 1 PROVE w[i] # 0
    <3>1. CASE i < e
      <4>1. i \in dest .. e - 1
        BY <1>1, <3>1
      <4>2. QED
        BY <1>1, <4>1
    <3>2. CASE ~ (i < e)
      <4>1. i - e \in 0 .. L - 1 /\ e + (i - e) = i /\ src + (i - e) \in src .. f - 1
        BY <1>1, <3>2
      <4>2. w[e + (i - e)] = mem[src + (i - e)] /\ mem[src + (i - e)] # 0
        BY <1>1, <4>1
      <4>3. QED
        BY <4>1, <4>2, Zenon
    <3>3. QED
      BY <3>1, <3>2
  <2>3. QED
    BY <2>1, <2>2 DEF TextEnd
<1>5. e + L = dest + Len(a) + Len(b)
  BY <1>1, <1>2
<1>6. ASSUME NEW i \in 0 .. Len(a) - 1 PROVE w[dest + i] = a[i + 1]
  <2>1. i + 1 \in 1 .. e - dest /\ dest + (i + 1) - 1 = dest + i /\ dest + i \in dest .. e - 1
    BY <1>1, <1>2
  <2>2. QED
    BY <1>2, <2>1
<1>7. ASSUME NEW i \in 0 .. Len(b) - 1 PROVE w[dest + Len(a) + i] = b[i + 1]
  <2>1. /\ i \in 0 .. L - 1 /\ i + 1 \in 1 .. L /\ i + 1 \in 1 .. f - src
        /\ src + (i + 1) - 1 = src + i /\ dest + Len(a) + i = e + i
    BY <1>1, <1>2
  <2>2. w[e + i] = mem[src + i] /\ R[i + 1] = mem[src + (i + 1) - 1] /\ b[i + 1] = R[i + 1]
    BY <1>3, <2>1 DEF R
  <2>3. QED
    BY <2>1, <2>2
<1>8. Text!String(w, dest) = a \o b
  <2> DEFINE c == e + L
  <2>1. TextEnd(w, dest, c) /\ c = dest + Len(a) + Len(b)
    BY <1>4, <1>5
  <2> HIDE DEF c
  <2>2. /\ a \in Seq(Chars) /\ dest \in Text!At /\ Memory(w)
        /\ \A i \in 0 .. Len(a) - 1 : w[dest + i] = a[i + 1]
        /\ \A i \in 0 .. Len(b) - 1 : w[dest + Len(a) + i] = b[i + 1]
    BY <1>2, <1>6, <1>7
  <2>3. QED
    BY ONLY <2>1, <2>2, b \in Seq(Chars), JoinIs
<1>9. QED
  BY <1>8 DEF a

Appended(w, t, n) ==
  /\ w \in [Text!At -> Chars \union {0}]
  /\ Text!String(w, dest) = t
  /\ \A x \in Text!At : x \notin dest .. dest + n - 1 => w[x] = mem[x]

LEMMA strcatIs ==
  ASSUME Memory(mem), dest \in Text!At, src \in Text!At,
         Text!Apart(Text!Span(dest, Text!strlen(dest) + Text!strlen(src) + 1), Text!Text(src))
  PROVE  LET a == Text!String(mem, dest)
             b == Text!String(mem, src)
         IN  Appended(Text!strcat, a \o b, Len(a) + Len(b) + 1)
<1> DEFINE k == Text!strlen(dest)
           L == Text!strlen(src)
           e == dest + k
           a == Text!String(mem, dest)
           b == Text!String(mem, src)
           w == Text!strcat
<1>1. dest \in Nat /\ src \in Nat /\ SIZE \in Nat /\ Text!At = 0 .. SIZE - 1
  BY TextConstants
<1>2. TextEnd(mem, dest, e) /\ TextEnd(mem, src, src + L) /\ k \in Nat /\ L \in Nat
      /\ mem[src + L] = 0 /\ src + L \in Text!At
  <2>1. TextEnd(mem, dest, e) /\ TextEnd(mem, src, src + L) /\ k \in 0 .. SIZE - 1 - dest
        /\ L \in 0 .. SIZE - 1 - src
    BY strlenIs
  <2> HIDE DEF k, L
  <2>2. mem[src + L] = 0 /\ k \in Nat /\ L \in Nat /\ src + L \in Text!At
    BY <1>1, <2>1 DEF TextEnd
  <2>3. QED
    BY <2>1, <2>2
<1>3. /\ dest .. dest + (k + L + 1) - 1 \subseteq Text!At /\ src .. src + L \subseteq Text!At
      /\ (dest .. dest + (k + L + 1) - 1) \intersect (src .. src + L) = {}
  BY <1>1, <1>2 DEF Text!Apart, Text!Span, Text!Text
<1>4. w = [i \in Text!At |-> IF i \in e .. e + L THEN mem[src + i - e] ELSE mem[i]]
  <2> DEFINE c == L + 1
  <2>1. w = Text!Copy(mem, e, src, c)
    BY DEF Text!strcat, Text!strcpy
  <2>2. c \in Nat /\ e \in Nat /\ c = L + 1
    BY <1>1, <1>2
  <2> HIDE DEF k, L, w, c
  <2>3. e + c <= SIZE /\ src + c <= SIZE /\ Disjoint(e, src, c)
    <3>1. e .. e + c - 1 \subseteq dest .. dest + (k + L + 1) - 1
          /\ src .. src + c - 1 \subseteq src .. src + L
      BY <1>1, <1>2, <2>2
    <3>2. e + L \in dest .. dest + (k + L + 1) - 1 /\ src + L \in src .. src + L
      BY <1>1, <1>2
    <3>3. e + L \in 0 .. SIZE - 1 /\ src + L \in 0 .. SIZE - 1
      BY <1>1, <1>3, <3>2
    <3>4. e + c <= SIZE /\ src + c <= SIZE
      BY <1>1, <1>2, <2>2, <3>3
    <3>5. QED
      BY <1>3, <3>1, <3>4 DEF Disjoint
  <2> HIDE DEF e
  <2>4. Copied(mem, w, e, src, c)
    BY <1>1, <2>1, <2>2, <2>3, CopyLoopIs DEF Memory
  <2>5. /\ w \in [Text!At -> Chars \union {0}]
        /\ \A i \in 0 .. c - 1 : w[e + i] = mem[src + i]
        /\ \A x \in Text!At : x \notin e .. e + c - 1 => w[x] = mem[x]
    BY <2>4 DEF Copied
  <2>6. ASSUME NEW i \in Text!At
        PROVE  w[i] = IF i \in e .. e + L THEN mem[src + i - e] ELSE mem[i]
    <3>1. CASE i \in e .. e + L
      <4>1. i - e \in 0 .. c - 1 /\ e + (i - e) = i /\ src + (i - e) = src + i - e
        BY <1>1, <1>2, <2>2, <3>1
      <4>2. w[e + (i - e)] = mem[src + (i - e)]
        BY <2>5, <4>1
      <4>3. QED
        BY <3>1, <4>1, <4>2
    <3>2. CASE i \notin e .. e + L
      <4>1. i \notin e .. e + c - 1
        BY <1>1, <1>2, <2>2, <3>2
      <4>2. QED
        BY <2>5, <3>2, <4>1
    <3>3. QED
      BY <3>1, <3>2
  <2>7. w = [i \in Text!At |-> w[i]]
    BY <2>5
  <2>8. QED
    BY <2>6, <2>7
<1> HIDE DEF k, L, w
<1>5. e + L \in Text!At /\ e + L <= SIZE - 1
  <2>1. e + L \in dest .. dest + (k + L + 1) - 1
    BY <1>1, <1>2
  <2>2. QED
    BY <1>1, <1>3, <2>1
<1>6. mem \in [Text!At -> Chars \union {0}] /\ mem[SIZE - 1] = 0
  BY DEF Memory
<1>7. \A i \in 0 .. L : w[e + i] = mem[src + i]
  <2> SUFFICES ASSUME NEW i \in 0 .. L PROVE w[e + i] = mem[src + i]
    OBVIOUS
  <2>1. e + i \in e .. e + L /\ e + i \in Text!At /\ src + (e + i) - e = src + i
    BY <1>1, <1>2, <1>5
  <2>2. QED
    BY <1>4, <2>1
<1>8. \A x \in Text!At : x \notin e .. e + L => w[x] = mem[x]
  BY <1>4
<1>9. w \in [Text!At -> Chars \union {0}]
  <2>1. ASSUME NEW x \in Text!At PROVE w[x] \in Chars \union {0}
    <3>1. CASE x \in e .. e + L
      <4>1. x - e \in 0 .. L /\ e + (x - e) = x /\ src + (x - e) \in Text!At
        BY <1>1, <1>2, <3>1
      <4>2. w[e + (x - e)] = mem[src + (x - e)]
        BY <1>7, <4>1
      <4>3. QED
        BY <1>6, <4>1, <4>2
    <3>2. CASE x \notin e .. e + L
      BY <1>6, <1>8, <3>2
    <3>3. QED
      BY <3>1, <3>2
  <2>2. w = [x \in Text!At |-> w[x]]
    BY <1>4
  <2>3. QED
    BY <2>1, <2>2
<1>10. Memory(w)
  <2>1. CASE SIZE - 1 \in e .. e + L
    <3>1. SIZE - 1 = e + L /\ L \in 0 .. L
      BY <1>1, <1>2, <1>5, <2>1
    <3>2. w[e + L] = mem[src + L]
      BY <1>7, <3>1
    <3>3. QED
      BY <1>2, <1>9, <3>1, <3>2 DEF Memory
  <2>2. CASE SIZE - 1 \notin e .. e + L
    <3>1. SIZE - 1 \in Text!At
      BY TextConstants
    <3>2. QED
      BY <1>6, <1>8, <1>9, <2>2, <3>1 DEF Memory
  <2>3. QED
    BY <2>1, <2>2
<1>11. b \in Seq(Chars) /\ Len(b) = L /\ a \in Seq(Chars) /\ Len(a) = k
  <2>1. (src + L) - src = L /\ e - dest = k
    BY <1>1, <1>2
  <2>2. QED
    BY <1>2, <2>1, StringIs
<1>12. Text!String(w, dest) = a \o b
  <2>1. \A x \in dest .. e - 1 : w[x] = mem[x]
    <3>1. \A x \in dest .. e - 1 : x \in Text!At /\ x \notin e .. e + L
      BY <1>1, <1>2, <1>5
    <3>2. QED
      BY <1>8, <3>1
  <2>2. \A i \in 0 .. L - 1 : w[e + i] = mem[src + i]
    BY <1>2, <1>7
  <2>3. w[e + L] = 0
    BY <1>2, <1>7
  <2>4. L <= (src + L) - src
    BY <1>1, <1>2
  <2>5. \A i \in 1 .. L : b[i] = Text!String(mem, src)[i]
    BY DEF b
  <2> DEFINE f == src + L
             c == e
  <2> HIDE DEF c, b, f
  <2>6. c = e /\ f = src + L
    BY DEF c, f
  <2> HIDE DEF e
  <2>7. QED
    BY <1>2, <1>5, <1>10, <1>11, <2>1, <2>2, <2>3, <2>4, <2>5, <2>6, AppendIs
<1>13. \A x \in Text!At : x \notin dest .. dest + (Len(a) + Len(b) + 1) - 1 => w[x] = mem[x]
  <2>1. \A x \in Text!At : x \notin dest .. dest + (k + L + 1) - 1 => x \notin e .. e + L
    BY <1>1, <1>2
  <2>2. QED
    BY <1>8, <1>11, <2>1
<1>14. QED
  BY <1>9, <1>12, <1>13 DEF Appended, w

LEMMA strncatIs ==
  ASSUME Memory(mem), dest \in Text!At, src \in Text!At, number \in Nat,
         Text!Apart(Text!Span(dest, Text!strlen(dest) + number + 1), Text!Text(src))
  PROVE  LET a == Text!String(mem, dest)
             b == Text!String(mem, src)
             w == Text!strncat
         IN  /\ w \in [Text!At -> Chars \union {0}]
             /\ Len(b) >= number => Text!String(w, dest) = a \o Text!First(b, number)
             /\ \A x \in Text!At :
                  x \notin dest .. dest + (Len(a) + number + 1) - 1 => w[x] = mem[x]
<1> DEFINE k == Text!strlen(dest)
           L == Text!strlen(src)
           n == number
           e == dest + k
           a == Text!String(mem, dest)
           b == Text!String(mem, src)
           w == Text!strncat
<1>1. dest \in Nat /\ src \in Nat /\ SIZE \in Nat /\ n \in Nat /\ Text!At = 0 .. SIZE - 1
  BY TextConstants
<1>2. TextEnd(mem, dest, e) /\ TextEnd(mem, src, src + L) /\ k \in Nat /\ L \in Nat
      /\ src + L \in Text!At
  <2>1. TextEnd(mem, dest, e) /\ TextEnd(mem, src, src + L) /\ k \in 0 .. SIZE - 1 - dest
        /\ L \in 0 .. SIZE - 1 - src
    BY strlenIs
  <2> HIDE DEF k, L
  <2>2. k \in Nat /\ L \in Nat /\ src + L \in Text!At
    BY <1>1, <2>1
  <2>3. QED
    BY <2>1, <2>2
<1>3. /\ dest .. dest + (k + n + 1) - 1 \subseteq Text!At /\ src .. src + L \subseteq Text!At
      /\ (dest .. dest + (k + n + 1) - 1) \intersect (src .. src + L) = {}
  BY <1>1, <1>2 DEF Text!Apart, Text!Span, Text!Text
<1>4. w = [i \in Text!At |-> IF i = e + n THEN 0
                             ELSE IF i >= e /\ i < e + n /\ i - e < L THEN mem[src + i - e]
                             ELSE mem[i]]
  <2> DEFINE r == Text!Rounds(src)
             c == Text!Copy(mem, e, src, r)
  <2>1. r = (IF L < n THEN L ELSE n) /\ w = [c EXCEPT ![e + n] = 0]
    BY TextConstants DEF Text!Rounds, Text!strncat
  <2> HIDE DEF k, L, w, n, r
  <2>2. r \in Nat /\ e \in Nat /\ r <= n /\ r <= L
    BY <1>1, <1>2, <2>1
  <2>3. e + r <= SIZE /\ src + r <= SIZE /\ Disjoint(e, src, r) /\ e + n \in Text!At
    <3>1. e .. e + r - 1 \subseteq dest .. dest + (k + n + 1) - 1
          /\ src .. src + r - 1 \subseteq src .. src + L
      BY <1>1, <1>2, <2>2
    <3>2. e + n \in dest .. dest + (k + n + 1) - 1
      BY <1>1, <1>2
    <3>3. e + n \in 0 .. SIZE - 1
      BY <1>1, <1>3, <3>2
    <3>4. e + r <= SIZE /\ src + r <= SIZE
      BY <1>1, <1>2, <2>2, <3>3
    <3>5. QED
      BY <1>1, <1>3, <3>1, <3>3, <3>4 DEF Disjoint
  <2> HIDE DEF e
  <2>4. Copied(mem, c, e, src, r)
    BY <1>1, <2>2, <2>3, CopyLoopIs DEF Memory
  <2> HIDE DEF c
  <2>5. /\ c \in [Text!At -> Chars \union {0}]
        /\ \A i \in 0 .. r - 1 : c[e + i] = mem[src + i]
        /\ \A x \in Text!At : x \notin e .. e + r - 1 => c[x] = mem[x]
    BY <2>4 DEF Copied
  <2>6. ASSUME NEW i \in Text!At
        PROVE  w[i] = IF i = e + n THEN 0
                      ELSE IF i >= e /\ i < e + n /\ i - e < L THEN mem[src + i - e]
                      ELSE mem[i]
    <3>1. CASE i = e + n
      BY <2>1, <2>3, <2>5, <3>1
    <3>2. CASE i # e + n /\ i >= e /\ i < e + n /\ i - e < L
      <4>1. i - e \in 0 .. r - 1 /\ e + (i - e) = i /\ src + (i - e) = src + i - e
        BY <1>1, <1>2, <2>1, <2>2, <3>2
      <4>2. c[e + (i - e)] = mem[src + (i - e)]
        BY <2>5, <4>1
      <4>3. QED
        BY <2>1, <2>3, <2>5, <3>2, <4>1, <4>2
    <3>3. CASE i # e + n /\ ~ (i >= e /\ i < e + n /\ i - e < L)
      <4>1. i \notin e .. e + r - 1
        BY <1>1, <1>2, <2>1, <2>2, <3>3
      <4>2. QED
        BY <2>1, <2>3, <2>5, <3>3, <4>1
    <3>4. QED
      BY <3>1, <3>2, <3>3
  <2>7. w = [i \in Text!At |-> w[i]]
    BY <2>1, <2>5
  <2>8. QED
    BY <2>6, <2>7
<1> HIDE DEF k, L, w, n
<1>5. e + n \in Text!At /\ e + n <= SIZE - 1
  <2>1. e + n \in dest .. dest + (k + n + 1) - 1
    BY <1>1, <1>2
  <2>2. QED
    BY <1>1, <1>3, <2>1
<1>6. mem \in [Text!At -> Chars \union {0}] /\ mem[SIZE - 1] = 0
  BY DEF Memory
<1>7. \A i \in 0 .. n - 1 : i < L => w[e + i] = mem[src + i]
  <2> SUFFICES ASSUME NEW i \in 0 .. n - 1, i < L PROVE w[e + i] = mem[src + i]
    OBVIOUS
  <2>1. /\ e + i >= e /\ e + i < e + n /\ (e + i) - e < L /\ e + i \in Text!At
        /\ e + i # e + n /\ src + (e + i) - e = src + i
    BY <1>1, <1>2, <1>5
  <2>2. QED
    BY <1>4, <2>1
<1>8. w[e + n] = 0
  BY <1>4, <1>5
<1>9. \A x \in Text!At : x \notin e .. e + n => w[x] = mem[x]
  <2> SUFFICES ASSUME NEW x \in Text!At, x \notin e .. e + n PROVE w[x] = mem[x]
    OBVIOUS
  <2>1. x # e + n /\ ~ (x >= e /\ x < e + n)
    BY <1>1, <1>2
  <2>2. QED
    BY <1>4, <2>1
<1>10. w \in [Text!At -> Chars \union {0}]
  <2>1. ASSUME NEW x \in Text!At PROVE w[x] \in Chars \union {0}
    <3>1. CASE x = e + n
      BY <1>8, <3>1
    <3>2. CASE x # e + n /\ x >= e /\ x < e + n /\ x - e < L
      <4>1. src + x - e \in Text!At
        BY <1>1, <1>2, <3>2
      <4>2. w[x] = mem[src + x - e]
        BY <1>4, <3>2
      <4>3. QED
        BY <1>6, <4>1, <4>2
    <3>3. CASE x # e + n /\ ~ (x >= e /\ x < e + n /\ x - e < L)
      <4>1. w[x] = mem[x]
        BY <1>4, <3>3
      <4>2. QED
        BY <1>6, <4>1
    <3>4. QED
      BY <3>1, <3>2, <3>3
  <2>2. w = [x \in Text!At |-> w[x]]
    BY <1>4
  <2>3. QED
    BY <2>1, <2>2
<1>11. Memory(w)
  <2>1. CASE SIZE - 1 = e + n
    BY <1>8, <1>10, <2>1 DEF Memory
  <2>2. CASE SIZE - 1 # e + n
    <3>1. SIZE - 1 \in Text!At /\ SIZE - 1 \notin e .. e + n
      BY <1>1, <1>2, <1>5, <2>2, TextConstants
    <3>2. QED
      BY <1>6, <1>9, <1>10, <3>1 DEF Memory
  <2>3. QED
    BY <2>1, <2>2
<1>12. b \in Seq(Chars) /\ Len(b) = L /\ a \in Seq(Chars) /\ Len(a) = k
  <2>1. (src + L) - src = L /\ e - dest = k
    BY <1>1, <1>2
  <2>2. QED
    BY <1>2, <2>1, StringIs
<1>13. ASSUME Len(b) >= n PROVE Text!String(w, dest) = a \o Text!First(b, n)
  <2> DEFINE c == Text!First(b, n)
             f == src + L
  <2>1. n <= L /\ n <= f - src
    BY <1>1, <1>2, <1>12, <1>13
  <2>2. c \in Seq(Chars) /\ Len(c) = n /\ \A i \in 1 .. n : c[i] = b[i]
    <3>1. n = IF Len(b) < n THEN Len(b) ELSE n
      BY <1>1, <1>2, <1>12, <1>13
    <3> HIDE DEF b
    <3>2. QED
      BY <1>1, <1>12, <3>1, FirstIs
  <2>3. \A x \in dest .. e - 1 : w[x] = mem[x]
    <3>1. \A x \in dest .. e - 1 : x \in Text!At /\ x \notin e .. e + n
      BY <1>1, <1>2, <1>5
    <3>2. QED
      BY <1>9, <3>1
  <2>4. \A i \in 0 .. n - 1 : w[e + i] = mem[src + i]
    <3>1. \A i \in 0 .. n - 1 : i < L
      BY <1>1, <1>2, <2>1
    <3>2. QED
      BY <1>7, <3>1
  <2>5. /\ TextEnd(mem, dest, e) /\ TextEnd(mem, src, f)
        /\ \A i \in 1 .. n : c[i] = Text!String(mem, src)[i]
    BY <1>2, <2>2
  <2> HIDE DEF c, f, e, b, a
  <2>6. Text!String(w, dest) = Text!String(mem, dest) \o c
    <3>1. /\ Memory(mem) /\ Memory(w) /\ dest \in Text!At /\ src \in Text!At
          /\ n \in Nat /\ n <= f - src /\ e + n <= SIZE - 1 /\ w[e + n] = 0
          /\ c \in Seq(Chars) /\ Len(c) = n
      BY <1>1, <1>5, <1>8, <1>11, <2>1, <2>2
    <3>2. QED
      BY ONLY <3>1, <2>3, <2>4, <2>5, AppendIs
  <2>7. QED
    BY <2>6 DEF a, c
<1>14. \A x \in Text!At : x \notin dest .. dest + (Len(a) + n + 1) - 1 => w[x] = mem[x]
  <2>1. \A x \in Text!At : x \notin dest .. dest + (k + n + 1) - 1 => x \notin e .. e + n
    BY <1>1, <1>2
  <2>2. QED
    BY <1>9, <1>12, <2>1
<1>15. QED
  BY <1>10, <1>13, <1>14 DEF w, n
-----------------------------------------------------------------------------
(* The string functions: numbers.                                            *)

(* u holds the values of the first digits of t, up to n of them.                  *)
Running(u, t, base, n) == u = [k \in 0 .. n |-> IF k = 0 THEN 0 ELSE u[k - 1] * base + t[k]]

LEMMA RunExists ==
  ASSUME NEW t, NEW base, NEW n \in Nat
  PROVE  \E u : Running(u, t, base, n)
<1> DEFINE Bad == {k \in Nat : ~ \E u : Running(u, t, base, k)}
<1>1. ASSUME NEW k \in Nat, k \in Bad PROVE k # 0 /\ k - 1 \in Bad
  <2>1. k # 0
    <3> SUFFICES ASSUME k = 0 PROVE FALSE
      OBVIOUS
    <3> DEFINE u == [j \in 0 .. 0 |-> 0]
    <3>1. u = [j \in 0 .. 0 |-> IF j = 0 THEN 0 ELSE u[j - 1] * base + t[j]]
      OBVIOUS
    <3> HIDE DEF u
    <3>2. Running(u, t, base, 0)
      BY <3>1, Zenon DEF Running
    <3>3. QED
      BY <1>1, <3>2
  <2>2. k - 1 \in Nat
    BY <2>1
  <2>3. k - 1 \in Bad
    <3> SUFFICES ASSUME NEW u, Running(u, t, base, k - 1) PROVE FALSE
      BY <2>2
    <3> DEFINE E(j) == IF j = k THEN u[k - 1] * base + t[k] ELSE u[j]
               v == [j \in 0 .. k |-> E(j)]
    <3>1. ASSUME NEW j \in 0 .. k
          PROVE  v[j] = IF j = 0 THEN 0 ELSE v[j - 1] * base + t[j]
      <4>1. CASE j = k
        <5>1. k - 1 \in 0 .. k /\ k - 1 # k
          BY <2>2
        <5>2. v[k] = u[k - 1] * base + t[k] /\ v[k - 1] = u[k - 1]
          BY <5>1
        <5> HIDE DEF v
        <5>3. QED
          BY <2>1, <4>1, <5>2
      <4>2. CASE j # k
        <5>1. j \in 0 .. k - 1 /\ (j # 0 => j - 1 \in 0 .. k /\ j - 1 # k)
          BY <2>2, <4>2
        <5>2. v[j] = u[j] /\ (j # 0 => v[j - 1] = u[j - 1])
          BY <4>2, <5>1
        <5>3. u[j] = IF j = 0 THEN 0 ELSE u[j - 1] * base + t[j]
          BY <5>1 DEF Running
        <5> HIDE DEF v
        <5>4. QED
          BY <5>2, <5>3
      <4>3. QED
        BY <4>1, <4>2
    <3>2. v = [j \in 0 .. k |-> v[j]]
      OBVIOUS
    <3> HIDE DEF v
    <3>3. v = [j \in 0 .. k |-> IF j = 0 THEN 0 ELSE v[j - 1] * base + t[j]]
      BY <3>1, <3>2
    <3>4. Running(v, t, base, k)
      BY <3>3, Zenon DEF Running
    <3>5. QED
      BY <1>1, <3>4
  <2>4. QED
    BY <2>1, <2>3
<1>2. Bad \in SUBSET Nat
  OBVIOUS
<1>3. Bad = {}
  <2>1. \A k \in Bad : k # 0 /\ k - 1 \in Bad
    BY <1>1
  <2> HIDE DEF Bad
  <2>2. QED
    BY <1>2, <2>1, Smallest
<1>4. QED
  BY <1>3

SameTo(t, s, k) == \A i \in 1 .. k : t[i] = s[i]

LEMMA RunsAgree ==
  ASSUME NEW base, NEW m \in Nat, NEW n \in Nat, NEW k \in Nat, k <= m, k <= n,
         NEW t, NEW u, Running(u, t, base, m), NEW s, NEW v, Running(v, s, base, n),
         SameTo(t, s, k)
  PROVE  u[k] = v[k]
<1> DEFINE Bad == {j \in 0 .. k : u[j] # v[j]}
<1>1. ASSUME NEW j \in Bad PROVE j # 0 /\ j - 1 \in Bad
  <2>1. j \in 0 .. m /\ j \in 0 .. n /\ j \in 0 .. k /\ u[j] # v[j]
    OBVIOUS
  <2>2. /\ u[j] = IF j = 0 THEN 0 ELSE u[j - 1] * base + t[j]
        /\ v[j] = IF j = 0 THEN 0 ELSE v[j - 1] * base + s[j]
    BY <2>1 DEF Running
  <2>3. j # 0
    BY <2>1, <2>2
  <2>4. t[j] = s[j] /\ j - 1 \in 0 .. k
    BY <2>1, <2>3 DEF SameTo
  <2>5. u[j - 1] # v[j - 1]
    BY <2>1, <2>2, <2>3, <2>4
  <2>6. QED
    BY <2>3, <2>4, <2>5
<1>2. Bad = {}
  <2>1. Bad \in SUBSET Nat
    OBVIOUS
  <2> HIDE DEF Bad
  <2>2. QED
    BY <1>1, <2>1, Smallest
<1>3. k \in 0 .. k
  OBVIOUS
<1>4. QED
  BY <1>2, <1>3

LEMMA TimesBase == ASSUME NEW base \in {10, 16}, NEW x \in Nat PROVE x * base \in Nat
<1>1. CASE base = 10
  BY <1>1
<1>2. CASE base = 16
  BY <1>2
<1>3. QED
  BY <1>1, <1>2

LEMMA RunIsNat ==
  ASSUME NEW base \in {10, 16}, NEW n \in Nat, NEW t, \A i \in 1 .. n : t[i] \in Nat,
         NEW u, Running(u, t, base, n), NEW k \in 0 .. n
  PROVE  u[k] \in Nat
<1> DEFINE Bad == {j \in 0 .. n : u[j] \notin Nat}
<1>1. ASSUME NEW j \in Bad PROVE j # 0 /\ j - 1 \in Bad
  <2>1. j \in 0 .. n /\ u[j] \notin Nat
    OBVIOUS
  <2>2. u[j] = IF j = 0 THEN 0 ELSE u[j - 1] * base + t[j]
    BY <2>1 DEF Running
  <2>3. j # 0
    BY <2>1, <2>2
  <2>4. j \in 1 .. n /\ j - 1 \in 0 .. n
    BY <2>1, <2>3
  <2>5. u[j - 1] \notin Nat
    <3> SUFFICES ASSUME u[j - 1] \in Nat PROVE FALSE
      OBVIOUS
    <3>1. u[j - 1] * base \in Nat /\ t[j] \in Nat
      BY <2>4, TimesBase
    <3>2. u[j - 1] * base + t[j] \in Nat
      <4> DEFINE x == u[j - 1] * base
      <4>1. x \in Nat
        BY <3>1
      <4> HIDE DEF x
      <4>2. x + t[j] \in Nat
        BY <3>1, <4>1
      <4>3. QED
        BY <4>2 DEF x
    <3>3. QED
      BY <2>1, <2>2, <2>3, <3>2, Zenon
  <2>6. QED
    BY <2>3, <2>4, <2>5
<1>2. Bad = {}
  <2>1. Bad \in SUBSET Nat
    OBVIOUS
  <2> HIDE DEF Bad
  <2>2. QED
    BY <1>1, <2>1, Smallest
<1>3. QED
  BY <1>2

LEMMA ValueIs ==
  ASSUME NEW t \in Seq(Nat), NEW base
  PROVE  \E u : Running(u, t, base, Len(t)) /\ Text!Value(t, base) = u[Len(t)]
<1> DEFINE n == Len(t)
           Body(f) == [k \in 0 .. n |-> IF k = 0 THEN 0 ELSE f[k - 1] * base + t[k]]
           upto == CHOOSE f : f = Body(f)
<1>1. n \in Nat
  BY LenProperties
<1>2. \A f : f = Body(f) <=> Running(f, t, base, n)
  BY Zenon DEF Running
<1>3. Text!Value(t, base) = upto[n]
  BY DEF Text!Value
<1> HIDE DEF Body
<1>4. \E f : f = Body(f)
  <2> HIDE DEF n
  <2>1. \E f : Running(f, t, base, n)
    BY <1>1, RunExists
  <2>2. QED
    BY <1>2, <2>1
<1>5. upto = Body(upto)
  BY <1>4, Zenon
<1> HIDE DEF upto
<1>6. Running(upto, t, base, n)
  BY <1>2, <1>5
<1>7. QED
  BY <1>3, <1>6

LEMMA ValueOfOne ==
  ASSUME NEW m \in Nat, NEW base \in {10, 16}
  PROVE  Text!Value(<<m>>, base) = m
<1> DEFINE t == <<m>>
<1>1. t \in Seq(Nat) /\ Len(t) = 1 /\ t[1] = m
  OBVIOUS
<1> HIDE DEF t
<1>2. PICK u : Running(u, t, base, Len(t)) /\ Text!Value(t, base) = u[Len(t)]
  BY <1>1, ValueIs
<1>3. u[0] = 0 /\ u[1] = u[0] * base + t[1]
  <2>1. \A k \in 0 .. 1 : u[k] = IF k = 0 THEN 0 ELSE u[k - 1] * base + t[k]
    BY <1>1, <1>2 DEF Running
  <2>2. u[0] = 0 /\ u[1] = u[1 - 1] * base + t[1]
    BY <2>1
  <2>3. QED
    BY <2>2
<1>4. 0 * base = 0
  OBVIOUS
<1>5. u[1] = m
  BY <1>1, <1>3, <1>4
<1>6. QED
  BY <1>1, <1>2, <1>5 DEF t

LEMMA ValueOfMore ==
  ASSUME NEW t \in Seq(Nat), NEW m \in Nat, NEW base \in {10, 16}
  PROVE  /\ Text!Value(t, base) \in Nat
         /\ Text!Value(Append(t, m), base) = Text!Value(t, base) * base + m
<1> DEFINE s == Append(t, m)
           n == Len(t)
<1>1. n \in Nat /\ s \in Seq(Nat) /\ Len(s) = n + 1 /\ s[n + 1] = m
      /\ \A i \in 1 .. n : s[i] = t[i]
  BY AppendProperties, LenProperties
<1> HIDE DEF s, n
<1>2. PICK u : Running(u, t, base, n) /\ Text!Value(t, base) = u[n]
  BY ValueIs DEF n
<1>3. PICK v : Running(v, s, base, n + 1) /\ Text!Value(s, base) = v[n + 1]
  <2>1. PICK v : Running(v, s, base, Len(s)) /\ Text!Value(s, base) = v[Len(s)]
    BY <1>1, ValueIs
  <2>2. QED
    BY <1>1, <2>1
<1>4. \A i \in 1 .. n : t[i] \in Nat
  BY ElementOfSeq DEF n
<1>5. u[n] \in Nat
  <2>1. n \in 0 .. n
    BY <1>1
  <2>2. QED
    BY <1>1, <1>2, <1>4, <2>1, RunIsNat
<1>6. u[n] = v[n]
  <2> DEFINE k == n + 1
  <2>1. k \in Nat /\ n <= k /\ Running(v, s, base, k) /\ SameTo(t, s, n)
    BY <1>1, <1>3 DEF SameTo
  <2> HIDE DEF k
  <2>2. n <= n
    BY <1>1
  <2>3. QED
    BY <1>1, <1>2, <2>1, <2>2, RunsAgree
<1>7. v[n + 1] = v[n] * base + m
  <2>1. n + 1 \in 0 .. n + 1 /\ n + 1 # 0 /\ (n + 1) - 1 = n
    BY <1>1
  <2>2. v[n + 1] = v[(n + 1) - 1] * base + s[n + 1]
    BY <1>3, <2>1 DEF Running
  <2>3. QED
    BY <1>1, <2>1, <2>2
<1>8. QED
  BY <1>2, <1>3, <1>5, <1>6, <1>7 DEF s

LEMMA DivisionIs ==
  ASSUME NEW base \in {10, 16}, NEW m \in Nat, ~ (m < base),
         NEW q, q = m \div base, NEW r, r = m % base
  PROVE  q \in 0 .. m - 1 /\ q # 0 /\ r \in Nat /\ q * base + r = m
<1>1. q \in Int /\ r \in Int
  <2>1. CASE base = 10
    BY <2>1
  <2>2. CASE base = 16
    BY <2>2
  <2>3. QED
    BY <2>1, <2>2
<1>2. CASE base = 10
  BY <1>1, <1>2
<1>3. CASE base = 16
  BY <1>1, <1>3
<1>4. QED
  BY <1>2, <1>3

(* f holds the digits of the numbers up to n.                                  *)
Numerals(f, base, n) ==
  f = [m \in 0 .. n |-> IF m < base THEN <<m>> ELSE Append(f[m \div base], m % base)]

LEMMA DigitsExist ==
  ASSUME NEW base \in {10, 16}, NEW n \in Nat
  PROVE  \E f : Numerals(f, base, n)
<1> DEFINE Bad == {k \in Nat : ~ \E f : Numerals(f, base, k)}
<1>1. ASSUME NEW k \in Nat, k \in Bad PROVE k # 0 /\ k - 1 \in Bad
  <2>1. k # 0
    <3> SUFFICES ASSUME k = 0 PROVE FALSE
      OBVIOUS
    <3> DEFINE f == [m \in 0 .. 0 |-> <<0>>]
               E(m) == IF m < base THEN <<m>> ELSE Append(f[m \div base], m % base)
    <3>1. \A m \in 0 .. 0 : E(m) = <<0>>
      <4> SUFFICES ASSUME NEW m \in 0 .. 0 PROVE E(m) = <<0>>
        OBVIOUS
      <4>1. m = 0 /\ m < base
        OBVIOUS
      <4> HIDE DEF f
      <4>2. QED
        BY <4>1
    <3>2. f = [m \in 0 .. 0 |-> E(m)]
      <4> HIDE DEF E
      <4>1. QED
        BY <3>1
    <3> HIDE DEF f
    <3>3. Numerals(f, base, 0)
      BY <3>2, Zenon DEF Numerals
    <3>4. QED
      BY <1>1, <3>3
  <2>2. k - 1 \in Nat
    BY <2>1
  <2>3. k - 1 \in Bad
    <3> SUFFICES ASSUME NEW f, Numerals(f, base, k - 1) PROVE FALSE
      BY <2>2
    <3> DEFINE E(g, m) == IF m < base THEN <<m>> ELSE Append(g[m \div base], m % base)
               g == [m \in 0 .. k |-> IF m = k THEN E(f, k) ELSE f[m]]
    <3>1. \A m \in 0 .. k - 1 : g[m] = f[m]
      <4> SUFFICES ASSUME NEW m \in 0 .. k - 1 PROVE g[m] = f[m]
        OBVIOUS
      <4>1. m \in 0 .. k /\ m # k
        BY <2>2
      <4> HIDE DEF E
      <4>2. QED
        BY <4>1
    <3>2. g[k] = E(f, k)
      <4> HIDE DEF E
      <4>1. k \in 0 .. k
        OBVIOUS
      <4>2. QED
        BY <4>1
    <3>3. g = [m \in 0 .. k |-> g[m]]
      <4> HIDE DEF E
      <4>1. QED
        OBVIOUS
    <3>4. \A m \in 0 .. k - 1 : f[m] = E(f, m)
      BY DEF Numerals
    <3> HIDE DEF g
    <3>5. ASSUME NEW m \in 0 .. k PROVE E(g, m) = E(f, m)
      <4>1. CASE m < base
        BY <4>1
      <4>2. CASE ~ (m < base)
        <5> DEFINE q == m \div base
                   r == m % base
        <5>1. q = m \div base /\ r = m % base /\ m \in Nat
          OBVIOUS
        <5> HIDE DEF q, r
        <5>2. q \in 0 .. k - 1
          <6>1. q \in 0 .. m - 1
            BY ONLY base \in {10, 16}, <4>2, <5>1, DivisionIs
          <6>2. QED
            BY <6>1
        <5>3. g[m \div base] = f[m \div base]
          BY <3>1, <5>1, <5>2
        <5>4. QED
          BY <5>3
      <4>3. QED
        BY <4>1, <4>2
    <3> HIDE DEF E
    <3>6. ASSUME NEW m \in 0 .. k PROVE g[m] = E(g, m)
      <4>1. CASE m = k
        BY <3>2, <3>5, <4>1
      <4>2. CASE m # k
        <5>1. m \in 0 .. k - 1
          BY <2>2, <4>2
        <5>2. QED
          BY <3>1, <3>4, <3>5, <5>1
      <4>3. QED
        BY <4>1, <4>2
    <3>7. g = [m \in 0 .. k |-> E(g, m)]
      BY <3>3, <3>6
    <3>8. Numerals(g, base, k)
      BY <3>7, Zenon DEF Numerals, E
    <3>9. QED
      BY <1>1, <3>8
  <2>4. QED
    BY <2>1, <2>3
<1>2. Bad \in SUBSET Nat
  OBVIOUS
<1>3. Bad = {}
  <2>1. \A k \in Bad : k # 0 /\ k - 1 \in Bad
    BY <1>1
  <2> HIDE DEF Bad
  <2>2. QED
    BY <1>2, <2>1, Smallest
<1>4. QED
  BY <1>3

(* t is the number m in that base, without a leading 0.                          *)
Written(t, m, base) ==
  /\ t \in Seq(Nat) /\ Len(t) \in Nat \ {0} /\ Text!Value(t, base) = m
  /\ (m # 0 => t[1] # 0) /\ (Len(t) > 1 => m # 0)

LEMMA DigitsAre ==
  ASSUME NEW base \in {10, 16}, NEW n \in Nat, NEW f, Numerals(f, base, n), NEW m \in 0 .. n
  PROVE  Written(f[m], m, base)
<1> DEFINE Bad == {k \in 0 .. n : ~ Written(f[k], k, base)}
<1> SUFFICES ASSUME Bad # {} PROVE FALSE
  OBVIOUS
<1>1. PICK k \in Bad : \A j \in Bad : k <= j
  <2>1. Bad \in SUBSET Nat /\ Bad # {}
    OBVIOUS
  <2> HIDE DEF Bad
  <2>2. QED
    BY <2>1, LeastIn
<1>2. k \in 0 .. n /\ ~ Written(f[k], k, base)
  OBVIOUS
<1>3. f[k] = IF k < base THEN <<k>> ELSE Append(f[k \div base], k % base)
  BY <1>2 DEF Numerals
<1>4. CASE k < base
  <2> DEFINE t == <<k>>
  <2>1. t \in Seq(Nat) /\ Len(t) = 1 /\ t[1] = k /\ k \in Nat
    BY <1>2
  <2>2. Text!Value(t, base) = k
    BY <2>1, ValueOfOne
  <2>3. f[k] = t
    BY <1>3, <1>4
  <2> HIDE DEF t
  <2>4. Written(t, k, base)
    BY <2>1, <2>2 DEF Written
  <2>5. QED
    BY <1>2, <2>3, <2>4
<1>5. CASE ~ (k < base)
  <2> DEFINE q == k \div base
             d == k % base
             t == f[q]
             s == Append(t, d)
  <2>0. f[k] = s /\ q = k \div base /\ d = k % base
    BY <1>3, <1>5
  <2> HIDE DEF q, d
  <2>1. k \in Nat /\ q \in 0 .. k - 1 /\ q # 0 /\ d \in Nat /\ q * base + d = k
    <3>1. k \in Nat
      BY <1>2
    <3>2. q \in 0 .. k - 1 /\ q # 0 /\ d \in Nat /\ q * base + d = k
      <4>1. q = k \div base /\ d = k % base
        BY <2>0
      <4> HIDE DEF Bad, t, s
      <4>2. QED
        BY ONLY base \in {10, 16}, <1>5, <3>1, <4>1, DivisionIs
    <3>3. QED
      BY <3>1, <3>2
  <2>3. q \in 0 .. n /\ ~ (k <= q) /\ k # 0
    BY <1>2, <2>1
  <2>4. Written(t, q, base)
    BY <1>1, <2>3
  <2> HIDE DEF t
  <2>5. /\ t \in Seq(Nat) /\ Len(t) \in Nat \ {0} /\ Text!Value(t, base) = q /\ t[1] # 0
    BY <2>1, <2>4 DEF Written
  <2>6. s \in Seq(Nat) /\ Len(s) = Len(t) + 1 /\ \A i \in 1 .. Len(t) : s[i] = t[i]
    BY <2>1, <2>5, AppendProperties
  <2>7. Text!Value(s, base) = k
    BY <2>1, <2>5, ValueOfMore
  <2> HIDE DEF s
  <2>8. 1 \in 1 .. Len(t) /\ Len(s) \in Nat \ {0}
    BY <2>5, <2>6
  <2>9. Written(s, k, base)
    BY <2>3, <2>5, <2>6, <2>7, <2>8 DEF Written
  <2>10. QED
    BY <1>2, <2>0, <2>9
<1>6. QED
  BY <1>4, <1>5

LEMMA print_unsignedIs ==
  ASSUME NEW num \in Nat, NEW base \in {10, 16}
  PROVE  Written(Text!print_unsigned(num, base), num, base)
<1> DEFINE Body(f) == [m \in 0 .. num |->
                         IF m < base THEN <<m>> ELSE Append(f[m \div base], m % base)]
           digits == CHOOSE f : f = Body(f)
<1>1. \A f : f = Body(f) <=> Numerals(f, base, num)
  BY Zenon DEF Numerals
<1>2. Text!print_unsigned(num, base) = digits[num]
  BY DEF Text!print_unsigned
<1> HIDE DEF Body
<1>3. \E f : f = Body(f)
  BY <1>1, DigitsExist
<1>4. digits = Body(digits)
  BY <1>3, Zenon
<1> HIDE DEF digits
<1>5. Numerals(digits, base, num) /\ num \in 0 .. num
  BY <1>1, <1>4
<1>6. QED
  BY <1>2, <1>5, DigitsAre

(* What print_signed puts out of num.                                          *)
Printed(t, num, base) ==
  IF num < 0 THEN t[1] = "-" /\ Text!Value(Tail(t), base) = -num
  ELSE Text!Value(t, base) = num /\ (Len(t) > 1 => t[1] # 0)

LEMMA print_signedIs ==
  ASSUME NEW num \in Int, NEW base \in {10, 16}
  PROVE  Printed(Text!print_signed(num, base), num, base)
<1>1. CASE num < 0
  <2> DEFINE t == Text!print_unsigned(-num, base)
             s == <<"-">> \o t
             U == Nat \union {"-"}
  <2>1. -num \in Nat
    BY <1>1
  <2>2. Written(t, -num, base)
    BY <2>1, print_unsignedIs
  <2>3. Text!print_signed(num, base) = s
    BY <1>1 DEF Text!print_signed
  <2> HIDE DEF t
  <2>4. t \in Seq(Nat) /\ Text!Value(t, base) = -num
    BY <2>2 DEF Written
  <2>5. t \in Seq(U) /\ <<"-">> \in Seq(U) /\ Len(<<"-">>) = 1 /\ <<"-">>[1] = "-"
    <3>1. t \in Seq(U)
      <4>1. \A i \in 1 .. Len(t) : t[i] \in U
        BY <2>4, ElementOfSeq
      <4>2. t \in [1 .. Len(t) -> U] /\ Len(t) \in Nat
        <5>1. Len(t) \in Nat /\ t = [i \in 1 .. Len(t) |-> t[i]]
          BY <2>4, LenProperties
        <5>2. QED
          BY <4>1, <5>1
      <4>3. QED
        BY <4>2, SeqDef
    <3>2. QED
      BY <3>1
  <2>6. s[1] = "-" /\ Tail(s) = t
    <3> HIDE DEF U
    <3>1. s \in Seq(U) /\ Len(s) = 1 + Len(t) /\ Len(t) \in Nat
          /\ \A i \in 1 .. Len(s) : s[i] = IF i <= 1 THEN <<"-">>[i] ELSE t[i - 1]
      BY <2>5, ConcatProperties, LenProperties
    <3> HIDE DEF s
    <3>2. s # <<>>
      BY <3>1
    <3>3. /\ Tail(s) \in Seq(U) /\ Len(Tail(s)) = Len(s) - 1
          /\ \A i \in 1 .. Len(Tail(s)) : Tail(s)[i] = s[i + 1]
      BY <3>1, <3>2, HeadTailProperties
    <3>4. ASSUME NEW i \in 1 .. Len(t) PROVE Tail(s)[i] = t[i]
      <4>1. i + 1 \in 1 .. Len(s) /\ ~ (i + 1 <= 1) /\ (i + 1) - 1 = i
            /\ i \in 1 .. Len(Tail(s))
        BY <3>1, <3>3
      <4>2. QED
        BY <3>1, <3>3, <4>1
    <3>5. Len(Tail(s)) = Len(t)
      BY <3>1, <3>3
    <3>6. Tail(s) = t
      BY <2>5, <3>3, <3>4, <3>5, SeqEqual
    <3>7. 1 \in 1 .. Len(s) /\ 1 <= 1
      BY <3>1
    <3>8. QED
      BY <2>5, <3>1, <3>6, <3>7
  <2> HIDE DEF s
  <2>7. QED
    BY <1>1, <2>3, <2>4, <2>6 DEF Printed
<1>2. CASE ~ (num < 0)
  <2>1. num \in Nat
    BY <1>2
  <2>2. Text!print_signed(num, base) = Text!print_unsigned(num, base)
    BY <1>2 DEF Text!print_signed
  <2>3. Written(Text!print_signed(num, base), num, base)
    BY <2>1, <2>2, print_unsignedIs
  <2>4. QED
    BY <1>2, <2>3 DEF Printed, Written
<1>3. QED
  BY <1>1, <1>2
-----------------------------------------------------------------------------
(* The string functions: the promises are kept.                               *)

(* Until a function is called the array is as it was, and its last byte is 0.      *)
TextInv ==
  /\ Text!TypeOK /\ Text!PromiseKept
  /\ function = "none" => mem = was
  /\ was[SIZE - 1] = 0

LEMMA TextStep == [UserNext]_userVars => [Text!Next]_(Text!vars)
BY DEF UserNext, userVars, Carried, textVars, Text!vars

LEMMA TextInvInit == UserInit => TextInv
<1> SUFFICES ASSUME UserInit PROVE TextInv
  OBVIOUS
<1>1. Text!Init \/ (/\ mem = [i \in 0 .. SIZE - 1 |-> 0] /\ was = mem
                    /\ dest = 0 /\ src = 0 /\ number = 0 /\ function = "none" /\ out = 0)
  BY DEF UserInit
<1>2. function = "none" /\ mem = was /\ Memory(mem) /\ dest \in Text!At /\ src \in Text!At
      /\ number \in Counts
  <2>1. CASE Text!Init
    BY <2>1, TextConstants DEF Text!Init, Memory
  <2>2. CASE ~ Text!Init
    <3>1. SIZE - 1 \in 0 .. SIZE - 1 /\ 0 \in 0 .. SIZE - 1
      BY TextConstants
    <3>2. QED
      BY <1>1, <2>2, <3>1, TextConstants DEF Memory
  <2>3. QED
    BY <2>1, <2>2
<1>3. Text!TypeOK
  BY <1>2, TextConstants DEF Text!TypeOK, Memory
<1>4. Text!PromiseKept
  BY <1>2 DEF Text!PromiseKept
<1>5. QED
  BY <1>2, <1>3, <1>4 DEF TextInv, Memory

LEMMA BeforeCall ==
  ASSUME TextInv, function = "none"
  PROVE  /\ Memory(mem) /\ mem = was /\ dest \in Text!At /\ src \in Text!At
         /\ number \in Nat /\ number \in Counts
         /\ Text!Left = Text!String(mem, dest) /\ Text!Right = Text!String(mem, src)
<1>1. Memory(mem) /\ mem = was /\ dest \in Text!At /\ src \in Text!At /\ number \in Counts
  BY TextConstants DEF TextInv, Text!TypeOK, Memory
<1>2. Text!Left = Text!String(mem, dest) /\ Text!Right = Text!String(mem, src)
  BY <1>1 DEF Text!Left, Text!Right
<1>3. QED
  BY <1>1, <1>2, TextConstants

LEMMA ReturnsKeeps ==
  ASSUME TextInv, NEW f, f # "none", NEW r, Text!Returns(f, r), Text!PromiseKept'
  PROVE  TextInv'
<1>1. function' = f /\ mem' = mem /\ was' = was /\ dest' = dest /\ src' = src
      /\ number' = number
  BY DEF Text!Returns
<1>2. Text!TypeOK'
  BY <1>1 DEF TextInv, Text!TypeOK
<1>3. QED
  BY <1>1, <1>2 DEF TextInv

LEMMA StoresKeeps ==
  ASSUME TextInv, NEW f, f # "none", NEW w \in [Text!At -> Chars \union {0}], Text!Stores(f, w),
         Text!PromiseKept'
  PROVE  TextInv'
<1>1. function' = f /\ mem' = w /\ was' = was /\ dest' = dest /\ src' = src /\ number' = number
  BY DEF Text!Stores
<1>2. Text!TypeOK'
  BY <1>1, TextConstants DEF TextInv, Text!TypeOK
<1>3. QED
  BY <1>1, <1>2 DEF TextInv

(* The texts of a call and what it leaves alone, seen after it.                    *)
LEMMA SameTexts ==
  ASSUME TextInv, function = "none", was' = was, dest' = dest, src' = src
  PROVE  Text!Left' = Text!String(mem, dest) /\ Text!Right' = Text!String(mem, src)
<1>1. Text!Left' = Text!String(was', dest') /\ Text!Right' = Text!String(was', src')
  BY DEF Text!Left, Text!Right
<1>2. QED
  BY <1>1, BeforeCall

(* Where c is in the text at s, told of the text and of the array.                 *)
PlacesIn(t, s, c) == {s + i - 1 : i \in {j \in DOMAIN t : Text!Char(t[j]) = c}}
BytesAt(m, s, e, c) == {i \in s .. e - 1 : Text!Char(m[i]) = c}

LEMMA PlacesAre ==
  ASSUME NEW m, Memory(m), NEW s \in Text!At, NEW e, TextEnd(m, s, e), NEW c
  PROVE  PlacesIn(Text!String(m, s), s, c) = BytesAt(m, s, e, c)
<1> DEFINE t == Text!String(m, s)
           n == e - s
           A == {s + i - 1 : i \in {j \in DOMAIN t : Text!Char(t[j]) = c}}
           B == {i \in s .. e - 1 : Text!Char(m[i]) = c}
<1>1. s \in Nat /\ e \in s .. SIZE - 1 /\ n \in Nat
  BY TextConstants DEF TextEnd
<1>2. t \in Seq(Chars) /\ Len(t) = n /\ \A i \in 1 .. n : t[i] = m[s + i - 1]
  BY StringIs
<1>3. DOMAIN t = 1 .. n
  BY <1>2, LenProperties
<1> HIDE DEF t
<1>4. ASSUME NEW i \in B PROVE i \in A
  <2>1. (i - s) + 1 \in 1 .. n /\ s + ((i - s) + 1) - 1 = i /\ Text!Char(m[i]) = c
    BY <1>1
  <2>2. Text!Char(t[(i - s) + 1]) = c
    BY <1>2, <2>1
  <2>3. QED
    BY <1>3, <2>1, <2>2
<1>5. ASSUME NEW i \in {j \in DOMAIN t : Text!Char(t[j]) = c} PROVE s + i - 1 \in B
  <2>1. i \in 1 .. n /\ Text!Char(t[i]) = c
    BY <1>3
  <2>2. s + i - 1 \in s .. e - 1 /\ Text!Char(m[s + i - 1]) = c
    BY <1>1, <1>2, <2>1
  <2>3. QED
    BY <2>2
<1>6. A = B
  BY <1>4, <1>5
<1>7. QED
  BY <1>6 DEF t, PlacesIn, BytesAt

LEMMA ComparisonKeeps ==
  ASSUME TextInv, function = "none",
         \/ Text!Returns("strcmp", Text!strcmp(dest, src))
         \/ Text!Returns("strncmp", Text!strncmp(dest, src, number))
  PROVE  TextInv'
<1> USE BeforeCall
<1>1. was' = was /\ dest' = dest /\ src' = src /\ number' = number
  BY DEF Text!Returns
<1>2. Text!Left' = Text!String(mem, dest) /\ Text!Right' = Text!String(mem, src)
  BY <1>1, SameTexts
<1>3. CASE Text!Returns("strcmp", Text!strcmp(dest, src))
  <2>1. Text!Order(Text!String(mem, dest), Text!String(mem, src), Text!strcmp(dest, src))
    BY strcmpIs
  <2>2. function' = "strcmp" /\ out' = Text!strcmp(dest, src)
    BY <1>3 DEF Text!Returns
  <2>3. Text!Order(Text!Left', Text!Right', out')
    BY <1>2, <2>1, <2>2
  <2>4. Text!PromiseKept'
    BY <2>2, <2>3 DEF Text!PromiseKept
  <2>5. QED
    BY <1>3, <2>4, ReturnsKeeps
<1>4. CASE Text!Returns("strncmp", Text!strncmp(dest, src, number))
  <2>1. Text!Order(Text!First(Text!String(mem, dest), number),
                   Text!First(Text!String(mem, src), number), Text!strncmp(dest, src, number))
    BY strncmpIs
  <2>2. function' = "strncmp" /\ out' = Text!strncmp(dest, src, number)
    BY <1>4 DEF Text!Returns
  <2>3. Text!Order(Text!First(Text!Left', number'), Text!First(Text!Right', number'), out')
    BY <1>1, <1>2, <2>1, <2>2
  <2>4. Text!PromiseKept'
    BY <2>2, <2>3 DEF Text!PromiseKept
  <2>5. QED
    BY <1>4, <2>4, ReturnsKeeps
<1>5. QED
  BY <1>3, <1>4

LEMMA SearchKeeps ==
  ASSUME TextInv, function = "none", NEW c,
         \/ Text!Returns("strchr", <<c, Text!strchr(src, c)>>)
         \/ Text!Returns("strrchr", <<c, Text!strrchr(src, c)>>)
  PROVE  TextInv'
<1> USE BeforeCall
<1>1. was' = was /\ dest' = dest /\ src' = src /\ number' = number
  BY DEF Text!Returns
<1>2. Text!Right' = Text!String(mem, src)
  BY <1>1, SameTexts
<1>3. PICK e : TextEnd(mem, src, e)
  BY TextEnds
<1> DEFINE S == {i \in src .. e - 1 : Text!Char(mem[i]) = c}
<1>4. out'[1] = c
  BY DEF Text!Returns
<1>5. Text!Places(out[1])' = S
  <2> DEFINE R == Text!String(mem, src)
  <2>1. PlacesIn(R, src, c) = S
    BY <1>3, PlacesAre DEF BytesAt
  <2>2. Text!Places(out[1])' = PlacesIn(Text!Right', src', out'[1])
    BY DEF Text!Places, PlacesIn
  <2> HIDE DEF R, S
  <2>3. Text!Right' = R
    BY <1>2 DEF R
  <2>4. QED
    BY <1>1, <1>4, <2>1, <2>2, <2>3
<1>6. CASE Text!Returns("strchr", <<c, Text!strchr(src, c)>>)
  <2> DEFINE r == Text!strchr(src, c)
  <2>1. IF S = {} THEN r = -1 ELSE r \in S /\ \A i \in S : r <= i
    BY <1>3, strchrIs
  <2>2. function' = "strchr" /\ out'[2] = r
    BY <1>6 DEF Text!Returns
  <2> HIDE DEF S, r
  <2>3. Text!PromiseKept'
    BY <1>5, <2>1, <2>2, TextConstants DEF Text!PromiseKept, Text!Found
  <2>4. QED
    BY <1>6, <2>3, ReturnsKeeps
<1>7. CASE Text!Returns("strrchr", <<c, Text!strrchr(src, c)>>)
  <2> DEFINE r == Text!strrchr(src, c)
  <2>1. IF S = {} THEN r = -1 ELSE r \in S /\ \A i \in S : r >= i
    BY <1>3, strrchrIs
  <2>2. function' = "strrchr" /\ out'[2] = r
    BY <1>7 DEF Text!Returns
  <2> HIDE DEF S, r
  <2>3. Text!PromiseKept'
    BY <1>5, <2>1, <2>2, TextConstants DEF Text!PromiseKept, Text!Found
  <2>4. QED
    BY <1>7, <2>3, ReturnsKeeps
<1>8. QED
  BY <1>6, <1>7

LEMMA strstrKeeps ==
  ASSUME TextInv, function = "none", Text!Returns("strstr", Text!strstr(dest, src))
  PROVE  TextInv'
<1> USE BeforeCall
<1>1. PICK e : TextEnd(mem, dest, e)
  BY TextEnds
<1> DEFINE r == Text!strstr(dest, src)
           L == Text!String(mem, dest)
           R == Text!String(mem, src)
           S == {i \in dest .. e - 1 : Text!First(Text!String(mem, i), Len(R)) = R}
<1>2. /\ was' = was /\ dest' = dest /\ src' = src /\ number' = number
      /\ function' = "strstr" /\ out' = r
  BY DEF Text!Returns
<1>3. Text!Left' = L /\ Text!Right' = R
  BY <1>2, SameTexts
<1>4. dest + Len(L) - 1 = e - 1
  <2>1. Len(L) = e - dest
    BY <1>1, StringIs
  <2>2. e \in Int /\ dest \in Int
    BY <1>1, TextConstants DEF TextEnd
  <2> HIDE DEF L
  <2>3. QED
    BY <2>1, <2>2
<1>5. IF S = {} THEN r = -1 ELSE r \in S /\ \A i \in S : r <= i
  BY <1>1, strstrIs
<1> HIDE DEF L, R, r
<1>6. Text!Matches' = S
  <2>1. Text!Matches' = {i \in dest' .. dest' + Len(Text!Left') - 1 :
                           Text!First(Text!String(was', i), Len(Text!Right')) = Text!Right'}
    BY DEF Text!Matches, Text!Span
  <2>2. dest' + Len(Text!Left') - 1 = e - 1 /\ was' = mem
    BY <1>2, <1>3, <1>4
  <2>3. QED
    BY <1>2, <1>3, <2>1, <2>2
<1> HIDE DEF S
<1>7. Text!PromiseKept'
  BY <1>2, <1>5, <1>6, TextConstants DEF Text!PromiseKept, Text!Found
<1>8. QED
  BY <1>2, <1>7, ReturnsKeeps DEF r

LEMMA CopyKeeps ==
  ASSUME TextInv, function = "none",
         \/ Text!Moves /\ Text!Stores("memmove", Text!memmove)
         \/ /\ Text!Apart(Text!Span(dest, number), Text!Span(src, number))
            /\ Text!Stores("memcpy", Text!memcpy)
  PROVE  TextInv'
<1> USE BeforeCall
<1>1. PICK w : /\ Copied(mem, w, dest, src, number)
               /\ Text!Stores("memmove", w) \/ Text!Stores("memcpy", w)
  BY memcpyIs, memmoveIs
<1>2. mem' = w /\ was' = was /\ dest' = dest /\ src' = src /\ number' = number
      /\ function' \in {"memmove", "memcpy"}
  BY <1>1 DEF Text!Stores
<1>3. /\ w \in [Text!At -> Chars \union {0}]
      /\ \A i \in 0 .. number - 1 : w[dest + i] = mem[src + i]
      /\ \A x \in Text!At : x \notin dest .. dest + number - 1 => w[x] = mem[x]
  BY <1>1 DEF Copied
<1>4. \A i \in 0 .. number' - 1 : mem'[dest' + i] = was'[src' + i]
  BY <1>2, <1>3
<1>5. Text!Unchanged(Text!Span(dest, number))'
  <2>1. \A x \in Text!At \ (dest .. dest + number - 1) : w[x] = mem[x]
    BY <1>3
  <2>2. QED
    BY <1>2, <2>1 DEF Text!Unchanged, Text!Span
<1>6. Text!PromiseKept'
  BY <1>2, <1>4, <1>5 DEF Text!PromiseKept
<1>7. QED
  BY <1>1, <1>3, <1>6, StoresKeeps

LEMMA strncpyKeeps ==
  ASSUME TextInv, function = "none",
         Text!Apart(Text!Span(dest, number), Text!Text(src)),
         Text!Stores("strncpy", Text!strncpy)
  PROVE  TextInv'
<1> USE BeforeCall
<1> DEFINE R == Text!String(mem, src)
           w == Text!strncpy
<1>1. /\ w \in [Text!At -> Chars \union {0}]
      /\ \A i \in 0 .. number - 1 : w[dest + i] = IF i < Len(R) THEN R[i + 1] ELSE 0
      /\ \A x \in Text!At : x \notin dest .. dest + number - 1 => w[x] = mem[x]
  BY strncpyIs
<1>2. mem' = w /\ was' = was /\ dest' = dest /\ src' = src /\ number' = number
      /\ function' = "strncpy"
  BY DEF Text!Stores
<1>3. Text!Right' = R
  BY <1>2, SameTexts
<1> HIDE DEF R, w
<1>4. \A i \in 0 .. number' - 1 :
        mem'[dest' + i] = IF i < Len(Text!Right') THEN Text!Right'[i + 1] ELSE 0
  BY <1>1, <1>2, <1>3
<1>5. Text!Unchanged(Text!Span(dest, number))'
  <2>1. \A x \in Text!At \ (dest .. dest + number - 1) : w[x] = mem[x]
    BY <1>1
  <2>2. QED
    BY <1>2, <2>1 DEF Text!Unchanged, Text!Span
<1>6. Text!PromiseKept'
  BY <1>2, <1>4, <1>5, TextConstants DEF Text!PromiseKept
<1>7. QED
  BY <1>1, <1>6, StoresKeeps DEF w

LEMMA strcatKeeps ==
  ASSUME TextInv, function = "none",
         Text!Apart(Text!Span(dest, Text!strlen(dest) + Text!strlen(src) + 1), Text!Text(src)),
         Text!Stores("strcat", Text!strcat)
  PROVE  TextInv'
<1> USE BeforeCall
<1> DEFINE L == Text!String(mem, dest)
           R == Text!String(mem, src)
           w == Text!strcat
<1>1. /\ w \in [Text!At -> Chars \union {0}] /\ Text!String(w, dest) = L \o R
      /\ \A x \in Text!At :
           x \notin dest .. dest + (Len(L) + Len(R) + 1) - 1 => w[x] = mem[x]
  BY strcatIs DEF Appended
<1>2. mem' = w /\ was' = was /\ dest' = dest /\ src' = src /\ number' = number
      /\ function' = "strcat"
  BY DEF Text!Stores
<1>3. Text!Left' = L /\ Text!Right' = R
  BY <1>2, SameTexts
<1> HIDE DEF L, R, w
<1>4. Text!String(mem', dest') = Text!Left' \o Text!Right'
  BY <1>1, <1>2, <1>3
<1>5. Text!Unchanged(Text!Span(dest, Len(Text!Left) + Len(Text!Right) + 1))'
  <2>1. \A x \in Text!At \ (dest .. dest + (Len(L) + Len(R) + 1) - 1) : w[x] = mem[x]
    BY <1>1
  <2>2. QED
    BY <1>2, <1>3, <2>1 DEF Text!Unchanged, Text!Span
<1>6. Text!PromiseKept'
  BY <1>2, <1>4, <1>5 DEF Text!PromiseKept
<1>7. QED
  BY <1>1, <1>6, StoresKeeps DEF w

LEMMA strncatKeeps ==
  ASSUME TextInv, function = "none",
         Text!Apart(Text!Span(dest, Text!strlen(dest) + number + 1), Text!Text(src)),
         Text!Stores("strncat", Text!strncat)
  PROVE  TextInv'
<1> USE BeforeCall
<1> DEFINE L == Text!String(mem, dest)
           R == Text!String(mem, src)
           w == Text!strncat
<1>1. /\ w \in [Text!At -> Chars \union {0}]
      /\ Len(R) >= number => Text!String(w, dest) = L \o Text!First(R, number)
      /\ \A x \in Text!At : x \notin dest .. dest + (Len(L) + number + 1) - 1 => w[x] = mem[x]
  BY strncatIs
<1>2. mem' = w /\ was' = was /\ dest' = dest /\ src' = src /\ number' = number
      /\ function' = "strncat"
  BY DEF Text!Stores
<1>3. Text!Left' = L /\ Text!Right' = R
  BY <1>2, SameTexts
<1> HIDE DEF L, R, w
<1>4. Len(Text!Right') >= number' =>
        Text!String(mem', dest') = Text!Left' \o Text!First(Text!Right', number')
  BY <1>1, <1>2, <1>3
<1>5. Text!Unchanged(Text!Span(dest, Len(Text!Left) + number + 1))'
  <2>1. \A x \in Text!At \ (dest .. dest + (Len(L) + number + 1) - 1) : w[x] = mem[x]
    BY <1>1
  <2>2. QED
    BY <1>2, <1>3, <2>1 DEF Text!Unchanged, Text!Span
<1>6. Text!PromiseKept'
  BY <1>2, <1>4, <1>5 DEF Text!PromiseKept
<1>7. QED
  BY <1>1, <1>6, StoresKeeps DEF w

LEMMA PrintKeeps ==
  ASSUME TextInv, function = "none", NEW num \in Numbers, NEW base \in {10, 16},
         Text!Returns("print", <<num, base, Text!print_signed(num, base)>>)
  PROVE  TextInv'
<1> DEFINE t == Text!print_signed(num, base)
<1>1. Printed(t, num, base)
  BY print_signedIs, TextConstants
<1>2. function' = "print" /\ out' = <<num, base, t>>
  BY DEF Text!Returns
<1> HIDE DEF t
<1>3. out'[1] = num /\ out'[2] = base /\ out'[3] = t
  BY <1>2
<1>4. Text!PromiseKept'
  BY <1>1, <1>2, <1>3 DEF Text!PromiseKept, Printed
<1>5. QED
  BY ReturnsKeeps, <1>4 DEF t

LEMMA TextInvNext == TextInv /\ [Text!Next]_(Text!vars) => TextInv'
<1> SUFFICES ASSUME TextInv, [Text!Next]_(Text!vars) PROVE TextInv'
  OBVIOUS
<1>1. CASE UNCHANGED Text!vars
  <2>1. mem' = mem /\ was' = was /\ dest' = dest /\ src' = src /\ number' = number
        /\ function' = function /\ out' = out
    BY <1>1 DEF Text!vars
  <2>2. Text!Left' = Text!Left /\ Text!Right' = Text!Right
    BY <2>1 DEF Text!Left, Text!Right
  <2>3. Text!PromiseKept' = Text!PromiseKept
    BY <2>1, <2>2 DEF Text!PromiseKept, Text!Unchanged, Text!Places, Text!Matches
  <2>4. Text!TypeOK'
    BY <2>1 DEF TextInv, Text!TypeOK
  <2>5. QED
    BY <2>1, <2>3, <2>4 DEF TextInv
<1>2. CASE Text!Next
  <2>1. function = "none"
    BY <1>2 DEF Text!Next
  <2>2. QED
    BY <1>2, <2>1, ComparisonKeeps, SearchKeeps, strstrKeeps, CopyKeeps, strncpyKeeps,
       strcatKeeps, strncatKeeps, PrintKeeps
    DEF Text!Next
<1>3. QED
  BY <1>1, <1>2

(* The string functions do what C promises, for any array, texts, sizes and numbers: *)
(* a comparison tells the order, a search gives the first or the last place, a copy   *)
(* stores what it should and touches nothing else, and a number is printed in digits   *)
(* that have its value (src/USERLAND/linbc.c).                                 *)
THEOREM StringsStayRight == UserSpec => []StringsRight
<1>1. TextInv => StringsRight
  BY DEF TextInv, StringsRight
<1>2. UserInit => TextInv
  BY TextInvInit
<1>3. TextInv /\ [UserNext]_userVars => TextInv'
  BY TextStep, TextInvNext
<1>4. QED
  BY <1>1, <1>2, <1>3, PTL DEF UserSpec
==============================================================================
