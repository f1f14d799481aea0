------------------------------ MODULE Calculator ------------------------------
(***************************************************************************)
(* The calculator (src/System/apps.c): its buttons and its digit keys.  A value  *)
(* is written as what it was computed from, from left to right, so that two        *)
(* values are equal only when they were computed in the same way.  The library's  *)
(* sprintf copies its format, so a result is never displayed: the display shows    *)
(* "%g".  A number too long for display is written on over current_value; there   *)
(* the model ends.                                                          *)
(***************************************************************************)
EXTENDS Naturals, Sequences, FiniteSets

CONSTANTS
  Digits,         (* "0" among them; a point counts as a digit               *)
  Operators,
  DISPLAY_SIZE,   (* bytes of display with the one that ends it; 64 in the code   *)
  ErrorWidth,     (* bytes of the word for an error; 12 in the code            *)
  MaxTerm         (* bound: digits and operators of a value                   *)

(* Assumed of the constants; the modules that instantiate this one check it. *)
CalculatorAssumption ==
  /\ "0" \in Digits
  /\ Digits \subseteq {"0", "1", "2", "3", "4", "5", "6", "7", "8", "9", "."}
  /\ Operators \subseteq {"+", "-", "*", "/"}
  /\ DISPLAY_SIZE \in Nat /\ ErrorWidth \in 1 .. DISPLAY_SIZE - 1
  /\ DISPLAY_SIZE > 2 /\ MaxTerm \in Nat

VARIABLES
  display,        (* its characters; "%g" and the word for an error are one each *)
  current_value, memory, operator, new_number,
  overrun,        (* the end of display was written behind display           *)
  entered         (* history: digits and operators since the last clear or     *)
                  (* result; after a result "=" and what it is of; Lost when a    *)
                  (* number or an operator was left out or a memory button used  *)

vars == <<display, current_value, memory, operator, new_number, overrun, entered>>

NoOperator == "none"
Zero == <<"0">>
Format == <<"%g">>
Error == <<"error">>
Lost == <<"lost">>

Init ==
  /\ display = Zero /\ current_value = Zero /\ memory = Zero
  /\ operator = NoOperator /\ new_number = TRUE /\ overrun = FALSE
  /\ entered = <<>>

(* atof(display), 0 for what does not begin with a digit or a point; it reads as    *)
(* far as a second point.                                                   *)
Shown == IF display[1] \in Digits THEN display ELSE Zero
ReadAsFar(number) == {i \in DOMAIN number : Cardinality({j \in 1 .. i : number[j] = "."}) < 2}
IsZero(number) == \A i \in ReadAsFar(number) : number[i] \in {"0", "."}
Combined == current_value \o <<operator>> \o Shown
EndsWith(s, Chars) == s # <<>> /\ s[Len(s)] \in Chars

(* The bytes of a display.                                                  *)
Width(shown) ==
  Len(shown) - 1 + (CASE shown[1] = "%g" -> 2 [] shown[1] = "error" -> ErrorWidth [] OTHER -> 1)

(* A digit or the point, from a button or a key: strcat looks at no length.     *)
Digit(d) ==
  /\ display' = IF new_number THEN <<d>> ELSE Append(display, d)
  /\ overrun' = (Width(display') >= DISPLAY_SIZE)
  /\ new_number' = FALSE
  /\ entered' =
       IF entered = Lost \/ (~new_number /\ ~EndsWith(entered, Digits)) THEN Lost
       ELSE IF entered # <<>> /\ entered[1] = "=" THEN <<d>>
       ELSE IF new_number /\ EndsWith(entered, Digits) THEN Lost
       ELSE Append(entered, d)
  /\ UNCHANGED <<current_value, memory, operator>>

(* An operator button: the operation under way is carried out first, unless no   *)
(* number has been entered for it.                                          *)
Operator(o) ==
  /\ Len(current_value) < MaxTerm
  /\ IF operator # NoOperator /\ ~new_number
       THEN current_value' = Combined /\ display' = Format
       ELSE current_value' = Shown /\ UNCHANGED display
  /\ operator' = o /\ new_number' = TRUE
  /\ entered' = IF EndsWith(entered, Digits) /\ entered[1] # "=" /\ ~new_number
                THEN Append(entered, o) ELSE Lost
  /\ UNCHANGED <<memory, overrun>>

(* "=".  A division by 0 is seen here only; the word for an error stays until a   *)
(* digit follows it or another number replaces it.                           *)
Equals ==
  /\ Len(current_value) < MaxTerm
  /\ IF display = Error \/ (operator = "/" /\ IsZero(Shown))
       THEN /\ display' = Error /\ entered' = Lost
            /\ UNCHANGED <<current_value, operator, new_number>>
       ELSE /\ display' = Format
            /\ current_value' = IF operator = NoOperator THEN Shown ELSE Combined
            /\ operator' = NoOperator /\ new_number' = TRUE
            /\ entered' = IF EndsWith(entered, Digits) /\ entered[1] # "=" /\ ~new_number
                          THEN <<"=">> \o entered ELSE Lost
  /\ UNCHANGED <<memory, overrun>>

Clear ==
  /\ display' = Zero /\ current_value' = Zero /\ memory' = Zero
  /\ operator' = NoOperator /\ new_number' = TRUE
  /\ entered' = <<>>
  /\ UNCHANGED overrun

MemoryAdd ==
  /\ Len(memory) < MaxTerm
  /\ memory' = memory \o <<"+">> \o Shown
  /\ new_number' = TRUE /\ entered' = Lost
  /\ UNCHANGED <<display, current_value, operator, overrun>>

MemoryRecall ==
  /\ display' = Format /\ new_number' = FALSE /\ entered' = Lost
  /\ UNCHANGED <<current_value, memory, operator, overrun>>

MemoryClear ==
  /\ memory' = Zero
  /\ UNCHANGED <<display, current_value, operator, new_number, overrun, entered>>

Next ==
  /\ ~overrun
  /\ \/ \E d \in Digits : Digit(d)
     \/ \E o \in Operators : Operator(o)
     \/ Equals \/ Clear \/ MemoryAdd \/ MemoryRecall \/ MemoryClear

Spec == Init /\ [][Next]_vars
-----------------------------------------------------------------------------
TypeOK ==
  /\ display # <<>> /\ new_number \in BOOLEAN
  /\ operator \in Operators \union {NoOperator}

(* As long as numbers and operators take turns and no number was too long for     *)
(* display, the value held, the operator under way and the number on the display   *)
(* are together what was entered, evaluated from left to right; and "=" leaves the  *)
(* value of it all in current_value, while the display shows "%g" for it.        *)
EvaluatesEntered ==
  ~overrun /\ entered # Lost /\ entered # <<>> =>
    IF entered[1] = "="
      THEN current_value = Tail(entered) /\ operator = NoOperator /\ display = Format
      ELSE entered = (IF operator = NoOperator THEN <<>> ELSE Append(current_value, operator))
                     \o (IF new_number THEN <<>> ELSE display)
=============================================================================
