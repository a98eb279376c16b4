------------------------------- MODULE Printf -------------------------------
(***************************************************************************)
(* tfp_format, the printf of every lesson: it walks the format, parses a   *)
(* field width, converts numbers into the array bf and pads them.  The     *)
(* format's end, the array's size and the width of int are where it could  *)
(* go wrong.                                                               *)
(***************************************************************************)
EXTENDS Integers, Sequences, SequencesExt, FiniteSetsExt

CONSTANTS
  Bits,       (* Width of int and unsigned int: 32 on the board.           *)
  Alphabet,   (* Characters that formats are made of.                      *)
  MaxFormat,  (* Bound: the length of a format.                            *)
  Ints,       (* The int arguments passed.                                 *)
  Strings     (* The string arguments passed.                              *)

(* The powers of a number: Power(b)[n] is b^n.                             *)
Power(b) == LET power[n \in Nat] == IF n = 0 THEN 1 ELSE b * power[n - 1] IN power

ASSUME PrintfAssumption ==
  /\ Bits \in Nat \ {0} /\ MaxFormat \in Nat
  /\ Alphabet \subseteq STRING
  /\ Ints \subseteq -Power(2)[Bits - 1] .. Power(2)[Bits - 1] - 1
  /\ \A s \in Strings : s \in Seq(STRING)

(* A character is a string of length one; NUL ends every string.           *)
NUL == "NUL"
Hex == <<"0", "1", "2", "3", "4", "5", "6", "7", "8", "9",
         "a", "b", "c", "d", "e", "f">>
Upper == SubSeq(Hex, 1, 10) \o <<"A", "B", "C", "D", "E", "F">>

(* The conversions of numbers, and the base of each.                       *)
Numeric == {"u", "d", "x", "X"}
Base(conv) == IF conv \in {"x", "X"} THEN 16 ELSE 10

(* The decimal digits of the largest unsigned int.                         *)
DecimalDigits == Min({n \in 1 .. Bits : Power(10)[n] >= Power(2)[Bits]})

(* Mutant: no room for the sign.                                           *)
BufSizeUnsigned == DecimalDigits + 1
(* bf[12]: the digits of an unsigned int, a sign and the terminator.       *)
BufSize == DecimalDigits + 2

VARIABLES
  caller,  (* Who called tfp_format: tfp_printf or tfp_sprintf.            *)
  format,  (* The string at fmt.                                           *)
  fmt,     (* Place of the next character to read.                         *)
  pc,      (* Where tfp_format, or a function it calls, is.                *)
  ch,      (* ch.                                                          *)
  lz, w,   (* lz and w: zero padding and the field width.                  *)
  arg,     (* The argument of the conversion.                              *)
  num, d,  (* num and d of ui2a.                                           *)
  bf,      (* What has been written to bf.                                 *)
  out      (* What has been passed to putf.                                *)

vars == <<caller, format, fmt, pc, ch, lz, w, arg, num, d, bf, out>>

Init ==
  /\ caller \in {"tfp_printf", "tfp_sprintf"}
  /\ format \in UNION {[1 .. n -> Alphabet] : n \in 0 .. MaxFormat}
  /\ fmt = 1
  /\ pc = "format"
  /\ ch = NUL
  /\ lz = FALSE /\ w = 0
  /\ arg = 0 /\ num = 0 /\ d = 1 /\ bf = <<>>
  /\ out = <<>>

(* The character at place i; behind the terminator there is other text.    *)
CharAt(i) == IF i <= Len(format) THEN format[i] ELSE IF i = Len(format) + 1 THEN NUL ELSE "s"

(* Mutant: the switch has no case 0.                                       *)
StopsNever == FALSE
Stops == ch = NUL

(* Text outside conversions.                                               *)
Literal ==
  /\ pc = "format"
  /\ CharAt(fmt) \notin {"%", NUL}
  /\ out' = Append(out, CharAt(fmt))
  /\ ch' = CharAt(fmt)
  /\ fmt' = fmt + 1
  /\ UNCHANGED <<caller, format, pc, lz, w, arg, num, d, bf>>

EndOfFormat ==
  /\ pc = "format"
  /\ CharAt(fmt) = NUL
  /\ fmt' = fmt + 1
  /\ pc' = "done"
  /\ UNCHANGED <<caller, format, ch, lz, w, arg, num, d, bf, out>>

(* A conversion: the zero flag, then the first digit of a width or the     *)
(* conversion's letter.                                                    *)
Percent ==
  /\ pc = "format"
  /\ CharAt(fmt) = "%"
  /\ lz' = (CharAt(fmt + 1) = "0")
  /\ LET first == IF lz' THEN fmt + 2 ELSE fmt + 1
     IN  /\ ch' = CharAt(first)
         /\ fmt' = first + 1
  /\ w' = 0
  /\ pc' = IF ch' \in Range(SubSeq(Hex, 1, 10)) THEN "a2i" ELSE "switch"
  /\ UNCHANGED <<caller, format, arg, num, d, bf, out>>

(* a2d, and the loop of a2i: 'a' passes for a decimal digit, 10 > 10 being *)
(* false.                                                                  *)
a2d == IF ch \in Range(Hex) THEN (CHOOSE i \in 1 .. 16 : Hex[i] = ch) - 1
       ELSE IF ch \in Range(Upper) THEN (CHOOSE i \in 1 .. 16 : Upper[i] = ch) - 1
       ELSE -1

A2i ==
  /\ pc = "a2i"
  /\ IF a2d \in 0 .. 10
     THEN /\ w' = w * 10 + a2d
          /\ ch' = CharAt(fmt)
          /\ fmt' = fmt + 1
          /\ UNCHANGED pc
     ELSE pc' = "switch" /\ UNCHANGED <<w, ch, fmt>>
  /\ UNCHANGED <<caller, format, lz, arg, num, d, bf, out>>

(* The cases of the switch.                                                *)
Abort ==
  /\ pc = "switch" /\ Stops
  /\ pc' = "done"
  /\ UNCHANGED <<caller, format, fmt, ch, lz, w, arg, num, d, bf, out>>

(* i2a writes the sign and converts the negation; u and x take the same    *)
(* bits as an unsigned number.                                             *)
Unsigned(n) == n % Power(2)[Bits]

(* Mutant: the sign is written, but the number is not negated.             *)
MagnitudeKept(n) == Unsigned(n)
Magnitude(n) == Unsigned(IF ch = "d" /\ n < 0 THEN -n ELSE n)

Number ==
  /\ pc = "switch" /\ ch \in Numeric
  /\ \E n \in Ints :
       /\ arg' = n
       /\ num' = Magnitude(n)
       /\ bf' = IF ch = "d" /\ n < 0 THEN <<"-">> ELSE <<>>
  /\ d' = 1
  /\ pc' = "scale"
  /\ UNCHANGED <<caller, format, fmt, ch, lz, w, out>>

String ==
  /\ pc = "switch" /\ ch = "s"
  /\ \E s \in Strings : bf' = s
  /\ lz' = FALSE
  /\ pc' = "putchw"
  /\ UNCHANGED <<caller, format, fmt, ch, w, arg, num, d, out>>

(* %c, %% and the default, which prints nothing.                           *)
Other ==
  /\ pc = "switch" /\ ~Stops
  /\ ch \notin Numeric \cup {"s"}
  /\ out' = IF ch \in {"c", "%"} THEN Append(out, ch) ELSE out
  /\ pc' = "format"
  /\ UNCHANGED <<caller, format, fmt, ch, lz, w, arg, num, d, bf>>

(* ui2a: the largest power of the base that is not above num ...           *)
Scale ==
  /\ pc = "scale"
  /\ IF num \div d >= Base(ch)
     THEN d' = Unsigned(d * Base(ch)) /\ UNCHANGED pc
     ELSE pc' = "digits" /\ UNCHANGED d
  /\ UNCHANGED <<caller, format, fmt, ch, lz, w, arg, num, bf, out>>

DigitChar(n) == IF ch = "X" THEN Upper[n + 1] ELSE Hex[n + 1]

(* ... and a digit for it and for each smaller one.                        *)
Digit ==
  /\ pc = "digits"
  /\ d # 0
  /\ bf' = Append(bf, DigitChar(num \div d))
  /\ num' = num % d
  /\ d' = d \div Base(ch)
  /\ UNCHANGED <<caller, format, fmt, pc, ch, lz, w, arg, out>>

EndOfDigits ==
  /\ pc = "digits"
  /\ d = 0
  /\ pc' = "putchw"
  /\ UNCHANGED <<caller, format, fmt, ch, lz, w, arg, num, d, bf, out>>

(* tfp_sprintf, whose putf writes to memory, ends the string itself.       *)
Terminate ==
  /\ pc = "done" /\ caller = "tfp_sprintf"
  /\ out' = Append(out, NUL)
  /\ pc' = "return"
  /\ UNCHANGED <<caller, format, fmt, ch, lz, w, arg, num, d, bf>>

(* putchw: bf at the right end of the field.                               *)
Padding == [i \in 1 .. w - Len(bf) |-> IF lz THEN "0" ELSE " "]

Putchw ==
  /\ pc = "putchw"
  /\ out' = out \o Padding \o bf
  /\ pc' = "format"
  /\ UNCHANGED <<caller, format, fmt, ch, lz, w, arg, num, d, bf>>

Next ==
  \/ Literal \/ EndOfFormat \/ Percent \/ A2i
  \/ Abort \/ Number \/ String \/ Other
  \/ Scale \/ Digit \/ EndOfDigits \/ Putchw \/ Terminate

Spec == Init /\ [][Next]_vars

-----------------------------------------------------------------------------
(* Properties.                                                             *)

(* The shapes of the variables.                                            *)
TypeOK ==
  /\ format \in Seq(Alphabet) /\ fmt \in 1 .. MaxFormat + 3
  /\ pc \in {"format", "a2i", "switch", "scale", "digits", "putchw", "done", "return"}
  /\ caller \in {"tfp_printf", "tfp_sprintf"}
  /\ ch \in Alphabet \cup {NUL}
  /\ lz \in BOOLEAN /\ w \in Nat /\ arg \in Ints \cup {0}
  /\ num \in 0 .. Power(2)[Bits] - 1 /\ d \in 0 .. Power(2)[Bits] - 1
  /\ bf \in Seq(STRING) /\ out \in Seq(STRING)

(* tfp_format reads a format up to its terminator and no further, wherever *)
(* in a conversion the format ends.                                        *)
NeverPastEnd == fmt <= Len(format) + 2

(* The number that digits denote in a base.                                *)
DigitValue(c) == (CHOOSE i \in 1 .. 16 : c \in {Hex[i], Upper[i]}) - 1
Value(digits, base) ==
  LET value[n \in 0 .. Len(digits)] ==
        IF n = 0 THEN 0 ELSE value[n - 1] * base + DigitValue(digits[n])
  IN  value[Len(digits)]

(* ui2a and i2a: bf holds the argument's digits, a sign if it is below 0   *)
(* and printed as %d, the most negative int included, and no zero in front.*)
DigitsExact ==
  pc = "putchw" /\ ch \in Numeric =>
    LET negative == ch = "d" /\ arg < 0
        digits == IF negative THEN Tail(bf) ELSE bf
    IN  /\ negative <=> Head(bf) = "-"
        /\ Len(digits) > 1 => Head(digits) # "0"
        /\ Value(digits, Base(ch)) = IF negative THEN -arg ELSE Unsigned(arg)

(* bf has room for every number and its terminator.                        *)
BufferFits == pc \in {"digits", "putchw"} /\ ch \in Numeric => Len(bf) + 1 <= BufSize

=============================================================================
