------------------------------- MODULE Format -------------------------------
(***************************************************************************)
(* k_vasfmt of src/kernel/k_string.c, which k_sys_TerminalPrintf calls: a  *)
(* format, the words of the variable arguments behind it, and a buffer.    *)
(* Each turn of the loop, a character or a directive, is one step.         *)
(*                                                                         *)
(* A format is a sequence of [kind, value]: the kind of the turn and the   *)
(* character, number or string that it is meant to print.  "other" is a    *)
(* directive that k_vasfmt does not know, "end" a percent sign at the end, *)
(* and the turns behind that are what lies behind the format's zero.       *)
(***************************************************************************)
EXTENDS Integers, Sequences, SequencesExt

CONSTANTS Formats,     \* the calls
          Behind,      \* the words that lie behind the arguments
          WordSize,    \* 2^32: numbers are kept modulo this
          WordNibbles, \* nibbles of a word: WordSize is Nibble^WordNibbles
          Nibble,      \* numbers that a hexadecimal digit stands for
          Decimals,    \* rows of k_itoa_masks
          Size,        \* buffer_size
          ArraySize    \* size of the caller's array, larger than buffer_size

VARIABLES fmt, in_index,
          args,      \* the words that va_arg has not read
          modifier,  \* the "l" or "ll" that was read last
          buffer, out_index

vars == <<fmt, in_index, args, modifier, buffer, out_index>>

Zero == "zero"
Stale == "stale"
k_nibble_lut == <<"0", "1", "2", "3", "4", "5", "6", "7", "8", "9">>
BufferLength == Size - 1

(* What the caller passes: an "ll" takes two words. *)
Words(d) == CASE d.kind \in {"char", "end"} -> <<>>
              [] d.kind \in {"lld", "llx"} -> <<d.value % WordSize, d.value \div WordSize>>
              [] d.kind \in {"d", "x", "lx", "other"} -> <<d.value % WordSize>>
              [] OTHER -> <<d.value>>

InitWith(f) ==
  /\ fmt = f /\ in_index = 1 /\ modifier = "none"
  /\ args = FlattenSeq([i \in DOMAIN f |-> Words(f[i])]) \o Behind
  /\ buffer = [i \in 0 .. ArraySize - 1 |-> Stale] /\ out_index = 0
Init == \E f \in Formats : InitWith(f)

(* in_index is 0 once the last zero is written. *)
More == in_index \in DOMAIN fmt /\ out_index < BufferLength
Remaining == BufferLength - out_index
Directive == fmt[in_index]

-----------------------------------------------------------------------------
(* The row of the highest place that is not larger than the number; row    *)
(* Decimals is that of the ones.                                           *)
Mask(row) == 10^(Decimals - row)
MaskIndex(n) ==
  CHOOSE row \in 1 .. Decimals :
    /\ row = Decimals \/ n >= Mask(row)
    /\ \A r \in 1 .. row - 1 : n < Mask(r)

(* k_itoa: nothing where the number and its zero do not fit. *)
ItoA(word, size) ==
  LET negative == word >= WordSize \div 2
      n == IF word > WordSize \div 2 THEN WordSize - word ELSE word
      rows == MaskIndex(n) .. Decimals
      digits == [i \in 1 .. Decimals - MaskIndex(n) + 1 |->
                   k_nibble_lut[((n \div Mask(MaskIndex(n) + i - 1)) % 10) + 1]]
      text == (IF negative THEN <<"-">> ELSE <<>>) \o digits
  IN IF size > 0 /\ Len(text) <= size - 1 THEN text ELSE <<>>

(* k_xtoa returns the length whether the digits fit or not. *)
XLength_NoZero(n) ==
  CHOOSE k \in 0 .. 2 * WordNibbles : n < Nibble^k /\ (k = 0 \/ n >= Nibble^(k - 1))
XLength(n) ==
  CHOOSE k \in 1 .. 2 * WordNibbles : n < Nibble^k /\ (k = 1 \/ n >= Nibble^(k - 1))
XtoA(n, size) ==
  [length |-> XLength(n),
   text |-> IF XLength(n) < size
            THEN [i \in 1 .. XLength(n) |->
                    k_nibble_lut[((n \div Nibble^(XLength(n) - i)) % Nibble) + 1]]
            ELSE <<>>]

(* k_strcat to an empty string; the length counts the zero, which the      *)
(* caller backs up over.                                                   *)
Fits_Any(str, size) == TRUE
Fits(str, size) == Len(str) + 1 < size
StrCat(str, size) == IF Fits(str, size) THEN str ELSE <<>>

-----------------------------------------------------------------------------
(* Every turn begins with a zero at out_index and ends behind the text; a  *)
(* text is followed by a zero of its own, or, a character, by none.        *)
Put(text, zero, length) ==
  /\ buffer' = [i \in DOMAIN buffer |->
       CASE i - out_index \in 0 .. Len(text) - 1 -> text[i - out_index + 1]
         [] i = out_index + Len(text) /\ (zero \/ text = <<>>) -> Zero
         [] OTHER -> buffer[i]]
  /\ out_index' = out_index + length
  /\ in_index' = in_index + 1
  /\ UNCHANGED fmt

Char ==
  /\ More /\ Directive.kind = "char"
  /\ Put(<<Directive.value>>, FALSE, 1) /\ UNCHANGED <<args, modifier>>

Modified == CASE Directive.kind = "lx" -> "long"
              [] Directive.kind \in {"lld", "llx"} -> "long long"
              [] OTHER -> modifier

Decimal ==
  /\ More /\ Directive.kind \in {"d", "lld"}
  /\ LET text == ItoA(Head(args), Remaining) IN Put(text, TRUE, Len(text))
  /\ args' = Tail(args) /\ modifier' = Modified

(* A modifier stays: an "x" behind an "llx" reads two words as well. *)
Hexadecimal ==
  /\ More /\ Directive.kind \in {"x", "lx", "llx"}
  /\ modifier' = Modified
  /\ LET long == modifier' = "long long"
         n == IF long THEN args[1] + WordSize * args[2] ELSE args[1]
         digits == XtoA(n, Remaining)
     IN /\ Put(digits.text, TRUE, digits.length)
        /\ args' = SubSeq(args, IF long THEN 3 ELSE 2, Len(args))

String ==
  /\ More /\ Directive.kind = "s"
  /\ LET text == StrCat(Head(args), Remaining) IN Put(text, TRUE, Len(text))
  /\ args' = Tail(args) /\ UNCHANGED modifier

Character ==
  /\ More /\ Directive.kind = "c"
  /\ Put(<<Head(args)>>, FALSE, 1)
  /\ args' = Tail(args) /\ UNCHANGED modifier

(* Nothing is printed and no word is read.  The step behind the percent    *)
(* sign at the end is the step over the format's zero.                     *)
Unknown ==
  /\ More /\ Directive.kind \in {"other", "end"}
  /\ Put(<<>>, FALSE, 0) /\ UNCHANGED <<args, modifier>>

(* The last zero, behind the loop. *)
Finish ==
  /\ ~More /\ in_index # 0
  /\ buffer' = [i \in DOMAIN buffer |-> IF i = out_index THEN Zero ELSE buffer[i]]
  /\ in_index' = 0 /\ UNCHANGED <<fmt, args, modifier, out_index>>

Next == Char \/ Decimal \/ Hexadecimal \/ String \/ Character \/ Unknown \/ Finish

-----------------------------------------------------------------------------
(* What a format means: each number in the digits of its base. *)
Numeral(n, base) ==
  LET places == CHOOSE k \in 1 .. 2 * WordNibbles :
                  n < base^k /\ \A j \in 1 .. k - 1 : n >= base^j
  IN [i \in 1 .. places |-> k_nibble_lut[((n \div base^(places - i)) % base) + 1]]
Meaning(d) ==
  CASE d.kind = "d" -> IF d.value < 0 THEN <<"-">> \o Numeral(-d.value, 10)
                                      ELSE Numeral(d.value, 10)
    [] d.kind \in {"x", "lx", "llx"} -> Numeral(d.value, Nibble)
    [] d.kind = "s" -> d.value
    [] OTHER -> <<d.value>>
Meant == FlattenSeq([i \in DOMAIN fmt |-> Meaning(fmt[i])])

(* The zero-terminated string that the caller prints. *)
End == CHOOSE i \in DOMAIN buffer : buffer[i] = Zero /\ \A j \in 0 .. i - 1 : buffer[j] # Zero
Printed == [i \in 1 .. End |-> buffer[i - 1]]

(* The formats that k_vasfmt reads as they are meant: of the directives it *)
(* knows, and with no "x" that an "llx" before it turns into another one,  *)
(* unless an "lx" stands between them.                                     *)
Understood ==
  /\ \A i \in DOMAIN fmt : fmt[i].kind \notin {"lld", "other", "end"}
  /\ \A i, j \in DOMAIN fmt :
       i < j /\ fmt[i].kind = "llx" /\ fmt[j].kind = "x" =>
         \E k \in i + 1 .. j - 1 : fmt[k].kind = "lx"

(* What fits is printed as it is meant, whatever stands before and behind  *)
(* it in a format that is understood: the smallest number, zero, the empty *)
(* string and numbers that use every digit included.                       *)
PrintedAsMeant ==
  in_index = 0 /\ Understood /\ Len(Meant) + 2 <= BufferLength => Printed = Meant

(* The last zero stays inside the array of the caller, whatever the format *)
(* is, though a number that does not fit moves out_index past the buffer:  *)
(* k_string.c:234 adds the length of a number that k_xtoa did not write    *)
(* (term.c:213: the array is larger than the size it passes).              *)
EndsInArray == out_index < ArraySize

\* A message has the text its arguments mean and no byte behind its array.
TextRight == PrintedAsMeant /\ EndsInArray
=============================================================================
