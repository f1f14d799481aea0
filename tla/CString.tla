------------------------------- MODULE CString -------------------------------
(***************************************************************************)
(* The string and memory functions of the C library (src/USERLAND/linbc.c) on    *)
(* one array that holds both operands, which may share bytes where C allows it,  *)
(* and the printing of numbers.  A loop is a recursive function of the number of *)
(* rounds it has made.  Bytes are kept unsigned; char is signed in this build.  *)
(***************************************************************************)
EXTENDS Integers, Sequences

CONSTANTS
  SIZE,           (* bytes of the array                                     *)
  Chars,          (* bytes of a text                                       *)
  Counts,         (* values of a size argument                              *)
  Numbers         (* numbers to print                                       *)

(* Assumed of the constants; the modules that instantiate this one check it. *)
StringAssumption ==
  /\ SIZE \in Nat \ {0} /\ Chars \subseteq 1 .. 255
  /\ Counts \subseteq Nat /\ 0 \in Counts /\ Numbers \subseteq Int

VARIABLES
  mem, was,       (* the array, and what it was before the call               *)
  dest, src, n,   (* the arguments                                         *)
  call, out       (* the function that was called and what it returned        *)

vars == <<mem, was, dest, src, n, call, out>>

NUL == 0
At == 0 .. SIZE - 1

Init ==
  /\ mem \in {m \in [At -> Chars \union {NUL}] : m[SIZE - 1] = NUL}
  /\ was = mem
  /\ dest \in At /\ src \in At /\ n \in Counts
  /\ call = "none" /\ out = 0

(* Calls that return r, or leave the array as m.                             *)
Returns(f, r) ==
  /\ call' = f
  /\ out' = r
  /\ UNCHANGED <<mem, was, dest, src, n>>
Stores(f, m) ==
  /\ call' = f
  /\ mem' = m
  /\ UNCHANGED <<was, dest, src, n, out>>

strlen(s) == LET len[i \in 0 .. SIZE - 1 - s] == IF mem[s + i] = NUL THEN i ELSE len[i + 1] IN len[0]

(* Bytes i, i + 1, ... of the two texts are compared until they differ or end,   *)
(* which is before the array does.                                          *)
strcmp(s1, s2) ==
  LET from[i \in 0 .. SIZE - 1 - (IF s1 < s2 THEN s2 ELSE s1)] ==
        IF mem[s1 + i] # NUL /\ mem[s1 + i] = mem[s2 + i] THEN from[i + 1]
        ELSE mem[s1 + i] - mem[s2 + i]
  IN from[0]

strncmp(s1, s2, c) ==
  LET from[i \in 0 .. c] ==
        IF i = c THEN 0
        ELSE IF mem[s1 + i] # mem[s2 + i] THEN mem[s1 + i] - mem[s2 + i]
        ELSE IF mem[s1 + i] = NUL THEN 0 ELSE from[i + 1]
  IN from[0]

(* The byte b as the code's char, which is compared with an int.              *)
Char(b) == IF b > 127 THEN b - 256 ELSE b

NULL == -1
strchr(s, c) ==
  LET from[i \in s .. SIZE - 1] ==
        IF mem[i] = NUL THEN NULL ELSE IF Char(mem[i]) = c THEN i ELSE from[i + 1]
  IN from[s]

(* The last place of c in the first i bytes of the text.                       *)
strrchr(s, c) ==
  LET last[i \in 0 .. strlen(s)] ==
        IF i = 0 THEN NULL ELSE IF Char(mem[s + i - 1]) = c THEN s + i - 1 ELSE last[i - 1]
  IN last[strlen(s)]

strstr(s, t) ==
  LET from[i \in s .. SIZE - 1] ==
        IF mem[i] = NUL THEN NULL
        ELSE IF strncmp(i, t, strlen(t)) = 0 THEN i ELSE from[i + 1]
  IN from[s]

(* Mutant: memmove copies forward whatever the operands.                      *)
memmove_forward ==
  LET After[k \in 0 .. n] ==
        IF k = 0 THEN mem ELSE [After[k - 1] EXCEPT ![dest + k - 1] = After[k - 1][src + k - 1]]
  IN After[n]

(* The loops that copy c bytes of m from s on to d on, and that clear c bytes.   *)
Copy(m, d, s, c) ==
  LET After[k \in 0 .. c] ==
        IF k = 0 THEN m ELSE [After[k - 1] EXCEPT ![d + k - 1] = After[k - 1][s + k - 1]]
  IN After[c]
Clear(m, d, c) ==
  LET After[k \in 0 .. c] ==
        IF k = 0 THEN m ELSE [After[k - 1] EXCEPT ![d + k - 1] = NUL]
  IN After[c]

memcpy == Copy(mem, dest, src, n)

memmove ==
  LET After[k \in 0 .. n] ==
        IF k = 0 THEN mem
        ELSE LET i == IF dest < src THEN k - 1 ELSE n - k IN
             [After[k - 1] EXCEPT ![dest + i] = After[k - 1][src + i]]
  IN After[n]

(* The rounds of a loop that ends at the end of the text at s or after n.       *)
Rounds(s) == IF strlen(s) < n THEN strlen(s) ELSE n

strncpy ==
  Clear(Copy(mem, dest, src, Rounds(src)), dest + Rounds(src), n - Rounds(src))

(* strcpy copies the text and its NUL; strcat does so behind the text at dest.   *)
strcpy(d, s) == Copy(mem, d, s, strlen(s) + 1)
strcat == strcpy(dest + strlen(dest), src)

(* The byte that is cleared is the n-th, also when the text is shorter: what      *)
(* was in between is then part of the result.                                *)
strncat ==
  LET d == dest + strlen(dest)
  IN  [Copy(mem, d, src, Rounds(src)) EXCEPT ![d + n] = NUL]

(* print_unsigned: the digits are found from the last one on, and put out from     *)
(* the first.                                                              *)
print_unsigned(num, base) ==
  LET digits[m \in 0 .. num] ==
        IF m < base THEN <<m>> ELSE Append(digits[m \div base], m % base)
  IN digits[num]

print_signed(num, base) ==
  IF num < 0 THEN <<"-">> \o print_unsigned(-num, base) ELSE print_unsigned(num, base)

(* What C asks of the arguments: they lie in the array, and texts and copies do     *)
(* not overlap, but for memmove.                                            *)
Span(s, k) == s .. s + k - 1
Text(s) == Span(s, strlen(s) + 1)
Apart(a, b) == a \subseteq At /\ b \subseteq At /\ a \intersect b = {}

(* A character to look for is given as a char or as the byte.                   *)
Sought == Chars \union {Char(b) : b \in Chars}

Moves == dest + n <= SIZE /\ src + n <= SIZE

Next ==
  /\ call = "none"
  /\ \/ Returns("strcmp", strcmp(dest, src))
     \/ Returns("strncmp", strncmp(dest, src, n))
     \/ \E c \in Sought : Returns("strchr", <<c, strchr(src, c)>>)
     \/ \E c \in Sought : Returns("strrchr", <<c, strrchr(src, c)>>)
     \/ Returns("strstr", strstr(dest, src))
     \/ Moves /\ Stores("memmove", memmove)
     \/ Apart(Span(dest, n), Span(src, n)) /\ Stores("memcpy", memcpy)
     \/ Apart(Span(dest, n), Text(src)) /\ Stores("strncpy", strncpy)
     \/ Apart(Span(dest, strlen(dest) + strlen(src) + 1), Text(src)) /\ Stores("strcat", strcat)
     \/ /\ Apart(Span(dest, strlen(dest) + n + 1), Text(src))
        /\ Stores("strncat", strncat)
     \/ /\ mem = [i \in At |-> NUL]
        /\ \E num \in Numbers, base \in {10, 16} :
             Returns("print", <<num, base, print_signed(num, base)>>)

Spec == Init /\ [][Next]_vars
-----------------------------------------------------------------------------
TypeOK ==
  /\ mem \in [At -> Chars \union {NUL}] /\ was \in [At -> Chars \union {NUL}]
  /\ dest \in At /\ src \in At /\ n \in Counts

(* What each function promises, in terms of the texts that were in the array.    *)
String(m, s) ==
  LET end == CHOOSE e \in s .. SIZE - 1 : m[e] = NUL /\ \A i \in s .. e - 1 : m[i] # NUL
  IN [i \in 1 .. end - s |-> m[s + i - 1]]
First(s, k) == SubSeq(s, 1, IF Len(s) < k THEN Len(s) ELSE k)
Precedes(a, b) ==
  \E k \in 0 .. Len(a) :
    /\ k < Len(b) /\ First(a, k) = First(b, k)
    /\ k = Len(a) \/ a[k + 1] < b[k + 1]
Order(a, b, r) ==
  /\ r = 0 <=> a = b
  /\ r < 0 <=> Precedes(a, b)
Found(S, r, Best(_, _)) ==
  IF S = {} THEN r = NULL ELSE r \in S /\ \A i \in S : Best(r, i)

Value(digits, base) ==
  LET upto[k \in 0 .. Len(digits)] == IF k = 0 THEN 0 ELSE upto[k - 1] * base + digits[k]
  IN upto[Len(digits)]

Left == String(was, dest)
Right == String(was, src)
Unchanged(S) == \A i \in At \ S : mem[i] = was[i]
Places(c) == {src + i - 1 : i \in {j \in DOMAIN Right : Char(Right[j]) = c}}
Matches == {i \in Span(dest, Len(Left)) : First(String(was, i), Len(Right)) = Right}

(* The comparisons give the order of the texts, the searches the first or last     *)
(* place (but for an empty text in an empty one), the copies put the bytes where   *)
(* they belong and touch no others, also when memmove's operands overlap, and the  *)
(* digits printed have the value of the number, without a leading 0.  strncat        *)
(* keeps its promise when the text has n characters or more, and the searches       *)
(* find a byte above 127 when they are given it as a char, and never as the byte.   *)
PromiseKept ==
  CASE call = "strcmp" -> Order(Left, Right, out)
    [] call = "strncmp" -> Order(First(Left, n), First(Right, n), out)
    [] call = "strchr" -> Found(Places(out[1]), out[2], <=)
    [] call = "strrchr" -> Found(Places(out[1]), out[2], >=)
    [] call = "strstr" -> Found(Matches, out, <=)
    [] call \in {"memmove", "memcpy"} ->
         /\ \A i \in 0 .. n - 1 : mem[dest + i] = was[src + i]
         /\ Unchanged(Span(dest, n))
    [] call = "strncpy" ->
         /\ \A i \in 0 .. n - 1 :
              mem[dest + i] = IF i < Len(Right) THEN Right[i + 1] ELSE NUL
         /\ Unchanged(Span(dest, n))
    [] call = "strcat" ->
         /\ String(mem, dest) = Left \o Right
         /\ Unchanged(Span(dest, Len(Left) + Len(Right) + 1))
    [] call = "strncat" ->
         /\ Len(Right) >= n => String(mem, dest) = Left \o First(Right, n)
         /\ Unchanged(Span(dest, Len(Left) + n + 1))
    [] call = "print" ->
         LET num == out[1]  digits == out[3] IN
         IF num < 0 THEN digits[1] = "-" /\ Value(Tail(digits), out[2]) = -num
         ELSE Value(digits, out[2]) = num /\ (Len(digits) > 1 => digits[1] # 0)
    [] OTHER -> TRUE
=============================================================================
