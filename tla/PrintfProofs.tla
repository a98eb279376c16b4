--------------------------- MODULE PrintfProofs ---------------------------
(***************************************************************************)
(* For every width of int, every format and every argument: tfp_format     *)
(* stays within its format, converts numbers exactly and never fills bf.   *)
(* The recursive definitions of Printf, of powers and of the value of a    *)
(* string of digits, are shown to satisfy their equations first.           *)
(***************************************************************************)
EXTENDS Printf, SequenceTheorems, WellFoundedInduction, TLAPS

-----------------------------------------------------------------------------
(* Recursion over the natural numbers.                                     *)

LEMMA Least ==
  ASSUME NEW T \in SUBSET Nat, T # {}
  PROVE  \E x \in T : \A y \in T : x <= y
<1>. DEFINE R == OpToRel(<, Nat)
<1>1. PICK x \in T : \A y \in T : <<y, x>> \notin R
  <2>1. IsWellFoundedOn(R, Nat)
    BY NatLessThanWellFounded
  <2>. HIDE DEF R
  <2>. QED
    BY <2>1, WFMin
<1>2. \A y \in T : ~(y < x)
  BY <1>1 DEF OpToRel
<1>. QED
  BY <1>2

LEMMA Induction ==
  ASSUME NEW S \in SUBSET Nat, 0 \in S, \A n \in S : n + 1 \in S
  PROVE  S = Nat
<1>. SUFFICES ASSUME Nat \ S # {} PROVE FALSE
  OBVIOUS
<1>1. PICK x \in Nat \ S : \A y \in Nat \ S : x <= y
  BY Least
<1>2. x # 0 /\ x - 1 \in Nat
  BY <1>1
<1>3. x - 1 \in S
  BY <1>1, <1>2
<1>. QED
  BY <1>1, <1>2, <1>3

(* f computes, up to n, what starts with a and goes on with step.          *)
Computes(f, n, a, step) ==
  /\ DOMAIN f = 0 .. n
  /\ f[0] = a
  /\ \A i \in 1 .. n : f[i] = step[<<i, f[i - 1]>>]

LEMMA ComputesOnce ==
  ASSUME NEW a, NEW step, NEW n \in Nat, NEW m \in Nat, NEW f, NEW g,
         Computes(f, n, a, step), Computes(g, m, a, step)
  PROVE  \A i \in 0 .. n : i <= m => f[i] = g[i]
<1>. DEFINE S == {i \in Nat : i <= n /\ i <= m => f[i] = g[i]}
<1>1. 0 \in S
  BY DEF Computes
<1>2. ASSUME NEW i \in S PROVE i + 1 \in S
  <2>. SUFFICES ASSUME i + 1 <= n, i + 1 <= m PROVE f[i + 1] = g[i + 1]
    OBVIOUS
  <2>1. /\ f[i + 1] = step[<<i + 1, f[(i + 1) - 1]>>]
        /\ g[i + 1] = step[<<i + 1, g[(i + 1) - 1]>>]
    BY DEF Computes
  <2>2. (i + 1) - 1 = i /\ f[i] = g[i]
    OBVIOUS
  <2>. QED
    BY <2>1, <2>2
<1>3. S = Nat
  <2>1. S \in SUBSET Nat
    OBVIOUS
  <2>. HIDE DEF S
  <2>. QED
    BY <1>1, <1>2, <2>1, Induction
<1>. QED
  BY <1>3

LEMMA Computable ==
  ASSUME NEW V, NEW a \in V, NEW step \in [Nat \X V -> V]
  PROVE  \A n \in Nat : \E f \in [0 .. n -> V] : Computes(f, n, a, step)
<1>. DEFINE S == {n \in Nat : \E f \in [0 .. n -> V] : Computes(f, n, a, step)}
<1>1. 0 \in S
  <2>. DEFINE f == [i \in 0 .. 0 |-> a]
  <2>. f \in [0 .. 0 -> V] /\ Computes(f, 0, a, step)
    BY DEF Computes
  <2>. QED
    OBVIOUS
<1>2. ASSUME NEW n \in S PROVE n + 1 \in S
  <2>1. PICK f \in [0 .. n -> V] : Computes(f, n, a, step)
    OBVIOUS
  <2>. DEFINE g == [i \in 0 .. n + 1 |-> IF i = n + 1 THEN step[<<n + 1, f[n]>>] ELSE f[i]]
  <2>2. step[<<n + 1, f[n]>>] \in V
    <3>. f[n] \in V
      OBVIOUS
    <3>. QED
      OBVIOUS
  <2>3. g \in [0 .. n + 1 -> V]
    BY <2>2
  <2>4. Computes(g, n + 1, a, step)
    <3>1. DOMAIN g = 0 .. n + 1 /\ g[0] = a
      BY <2>1 DEF Computes
    <3>2. ASSUME NEW i \in 1 .. n + 1 PROVE g[i] = step[<<i, g[i - 1]>>]
      <4>1. CASE i = n + 1
        <5>1. i - 1 = n /\ n \in 0 .. n + 1 /\ n # n + 1
          BY <4>1
        <5>. QED
          BY <4>1, <5>1
      <4>2. CASE i # n + 1
        BY <2>1, <4>2 DEF Computes
      <4>. QED
        BY <4>1, <4>2
    <3>. HIDE DEF g
    <3>. QED
      BY <3>1, <3>2 DEF Computes
  <2>. HIDE DEF g
  <2>. QED
    BY <2>3, <2>4
<1>3. S = Nat
  <2>1. S \in SUBSET Nat
    OBVIOUS
  <2>. HIDE DEF S
  <2>. QED
    BY <1>1, <1>2, <2>1, Induction
<1>. QED
  BY <1>3

(* So a function with such an equation exists on all the natural numbers.  *)
Follows(f, a, step) ==
  \A n \in Nat : f[n] = IF n = 0 THEN a ELSE step[<<n, f[n - 1]>>]

LEMMA Recursion ==
  ASSUME NEW V, NEW a \in V, NEW step \in [Nat \X V -> V]
  PROVE  \E f \in [Nat -> V] : Follows(f, a, step)
<1>. DEFINE upTo(n) == CHOOSE f \in [0 .. n -> V] : Computes(f, n, a, step)
            f == [n \in Nat |-> upTo(n)[n]]
<1>1. \A n \in Nat : upTo(n) \in [0 .. n -> V] /\ Computes(upTo(n), n, a, step)
  <2>. TAKE n \in Nat
  <2>1. \E g \in [0 .. n -> V] : Computes(g, n, a, step)
    BY Computable
  <2>. QED
    BY <2>1
<1>. HIDE DEF upTo
<1>2. f \in [Nat -> V]
  BY <1>1
<1>3. ASSUME NEW n \in Nat PROVE f[n] = IF n = 0 THEN a ELSE step[<<n, f[n - 1]>>]
  <2>1. CASE n = 0
    BY <1>1, <2>1 DEF Computes
  <2>2. CASE n # 0
    <3>1. n - 1 \in Nat /\ n \in 1 .. n
      BY <2>2
    <3>2. upTo(n)[n - 1] = upTo(n - 1)[n - 1]
      BY <1>1, <3>1, ComputesOnce
    <3>3. upTo(n)[n] = step[<<n, upTo(n)[n - 1]>>]
      BY <1>1, <3>1 DEF Computes
    <3>4. f[n] = upTo(n)[n] /\ f[n - 1] = upTo(n - 1)[n - 1]
      BY <3>1
    <3>. QED
      BY <2>2, <3>2, <3>3, <3>4
  <2>. QED
    BY <2>1, <2>2
<1>4. Follows(f, a, step)
  <2>. HIDE DEF f
  <2>. QED
    BY <1>3 DEF Follows
<1>. HIDE DEF f
<1>. QED
  BY <1>2, <1>4

LEMMA PowerSteps ==
  ASSUME NEW b, b \in Nat
  PROVE  /\ Power(b) \in [Nat -> Nat]
         /\ Power(b)[0] = 1
         /\ \A n \in Nat : Power(b)[n + 1] = b * Power(b)[n]
<1>. DEFINE step == [x \in Nat \X Nat |-> b * x[2]]
            Fits(p) == p = [n \in Nat |-> IF n = 0 THEN 1 ELSE b * p[n - 1]]
<1>1. step \in [Nat \X Nat -> Nat]
  OBVIOUS
<1>2. \A n, x \in Nat : step[<<n, x>>] = b * x
  OBVIOUS
<1>. HIDE DEF step
<1>3. PICK f \in [Nat -> Nat] : Follows(f, 1, step)
  <2>1. 1 \in Nat
    OBVIOUS
  <2>. QED
    BY <1>1, <2>1, Recursion
<1>4. \A n \in Nat : f[n] = IF n = 0 THEN 1 ELSE step[<<n, f[n - 1]>>]
  BY <1>3 DEF Follows
<1>5. ASSUME NEW n \in Nat PROVE f[n] = IF n = 0 THEN 1 ELSE b * f[n - 1]
  <2>1. CASE n = 0
    BY <1>4, <2>1
  <2>2. CASE n # 0
    <3>1. n - 1 \in Nat
      BY <2>2
    <3>2. f[n] = step[<<n, f[n - 1]>>] /\ f[n - 1] \in Nat
      BY <1>4, <2>2, <3>1
    <3>. QED
      BY <1>2, <2>2, <3>2
  <2>. QED
    BY <2>1, <2>2
<1>6. Fits(f)
  BY <1>5
<1>7. Fits(CHOOSE p : Fits(p))
  <2>. HIDE DEF Fits
  <2>. QED
    BY <1>6
<1>8. Fits(Power(b))
  BY <1>7 DEF Power
<1>9. \A n \in Nat : Power(b)[n] = IF n = 0 THEN 1 ELSE b * Power(b)[n - 1]
  BY <1>8
<1>10. Power(b)[0] = 1
  BY <1>9
<1>11. ASSUME NEW n \in Nat PROVE Power(b)[n + 1] = b * Power(b)[n]
  <2>. (n + 1) - 1 = n /\ n + 1 # 0 /\ n + 1 \in Nat
    OBVIOUS
  <2>. QED
    BY <1>9
<1>12. Power(b) = [n \in Nat |-> Power(b)[n]]
  BY <1>8
<1>13. Power(b) \in [Nat -> Nat]
  <2>. DEFINE S == {n \in Nat : Power(b)[n] \in Nat}
  <2>1. S \in SUBSET Nat /\ 0 \in S
    BY <1>10
  <2>2. ASSUME NEW n \in S PROVE n + 1 \in S
    BY <1>11
  <2>3. S = Nat
    <3>. HIDE DEF S
    <3>. QED
      BY <2>1, <2>2, Induction
  <2>4. PICK p : p = Power(b)
    OBVIOUS
  <2>5. p = [n \in Nat |-> p[n]] /\ \A n \in Nat : p[n] \in Nat
    BY <1>12, <2>3, <2>4
  <2>6. p \in [Nat -> Nat]
    BY <2>5
  <2>. QED
    BY <2>4, <2>6
<1>. QED
  BY <1>10, <1>11, <1>13

-----------------------------------------------------------------------------
(* Digits, and the number they denote.                                     *)

DigitChars ==
  {"0", "1", "2", "3", "4", "5", "6", "7", "8", "9",
   "a", "b", "c", "d", "e", "f", "A", "B", "C", "D", "E", "F"}

LEMMA HexDigits ==
  /\ Len(Hex) = 16 /\ Hex \in Seq(DigitChars)
  /\ \A i, j \in 1 .. 16 : Hex[i] = Hex[j] => i = j
  /\ \A i \in 1 .. 16 : Hex[i] = "0" <=> i = 1
BY DEF Hex, DigitChars

LEMMA UpperDigits ==
  /\ \A i \in 1 .. 10 : Upper[i] = Hex[i]
  /\ Upper[11] = "A" /\ Upper[12] = "B" /\ Upper[13] = "C"
  /\ Upper[14] = "D" /\ Upper[15] = "E" /\ Upper[16] = "F"
BY DEF Upper, Hex

LEMMA DigitTypes ==
  \A i \in 1 .. 16 : Hex[i] \in DigitChars /\ Upper[i] \in DigitChars
<1>1. \A i \in 1 .. 16 : Hex[i] \in DigitChars
  BY DEF Hex, DigitChars
<1>2. \A i \in 1 .. 16 :
        i \in 1 .. 10 \/ i = 11 \/ i = 12 \/ i = 13 \/ i = 14 \/ i = 15 \/ i = 16
  OBVIOUS
<1>. QED
  BY <1>1, <1>2, UpperDigits DEF DigitChars

(* A digit stands at one place only, in one alphabet or in both.           *)
LEMMA UpperDiffer ==
  \A i, j \in 1 .. 16 : Upper[i] \in {Hex[j], Upper[j]} => i = j
<1>1. \A i \in 11 .. 16, j \in 1 .. 16 : Upper[i] # Hex[j]
  BY UpperDigits DEF Hex
<1>2. \A i \in 11 .. 16, j \in 11 .. 16 : Upper[i] = Upper[j] => i = j
  BY UpperDigits
<1>3. ASSUME NEW i \in 1 .. 16, NEW j \in 1 .. 16, Upper[i] = Hex[j] PROVE i = j
  <2>1. i \in 1 .. 10
    BY <1>1, <1>3
  <2>. QED
    BY <1>3, <2>1, UpperDigits, HexDigits
<1>4. ASSUME NEW i \in 1 .. 16, NEW j \in 1 .. 16, Upper[i] = Upper[j] PROVE i = j
  <2>1. CASE j \in 1 .. 10
    BY <1>3, <1>4, <2>1, UpperDigits
  <2>2. CASE i \in 1 .. 10
    BY <1>3, <1>4, <2>2, UpperDigits
  <2>3. CASE i \in 11 .. 16 /\ j \in 11 .. 16
    BY <1>2, <1>4, <2>3
  <2>. QED
    BY <2>1, <2>2, <2>3
<1>. QED
  BY <1>3, <1>4

LEMMA DigitValues ==
  ASSUME NEW i \in 1 .. 16, NEW c \in {Hex[i], Upper[i]}
  PROVE  DigitValue(c) = i - 1
<1>1. \A j \in 1 .. 16 : c \in {Hex[j], Upper[j]} => j = i
  BY UpperDiffer, HexDigits
<1>2. (CHOOSE j \in 1 .. 16 : c \in {Hex[j], Upper[j]}) = i
  BY <1>1
<1>. QED
  BY <1>2 DEF DigitValue

LEMMA DigitValueType == \A c \in DigitChars : DigitValue(c) \in 0 .. 15
<1>1. \A c \in DigitChars : \E i \in 1 .. 16 : c \in {Hex[i], Upper[i]}
  <2>1. \A c \in DigitChars : (\E i \in 1 .. 16 : c = Hex[i]) \/
                              c \in {"A", "B", "C", "D", "E", "F"}
    BY DEF DigitChars, Hex
  <2>. QED
    BY <2>1, UpperDigits
<1>. QED
  BY <1>1, DigitValues

(* The function that Value unfolds.                                        *)
Values(digits, base) ==
  CHOOSE value : value = [n \in 0 .. Len(digits) |->
    IF n = 0 THEN 0 ELSE value[n - 1] * base + DigitValue(digits[n])]

LEMMA ValuesSteps ==
  ASSUME NEW s \in Seq(DigitChars), NEW base \in Nat
  PROVE  /\ Value(s, base) = Values(s, base)[Len(s)]
         /\ Values(s, base)[0] = 0
         /\ \A n \in 1 .. Len(s) :
              Values(s, base)[n] = Values(s, base)[n - 1] * base + DigitValue(s[n])
<1>. DEFINE Fits(v) == v = [n \in 0 .. Len(s) |->
                              IF n = 0 THEN 0 ELSE v[n - 1] * base + DigitValue(s[n])]
            step == [x \in Nat \X Nat |->
                       IF x[1] \in 1 .. Len(s) THEN x[2] * base + DigitValue(s[x[1]])
                       ELSE 0]
<1>0. Len(s) \in Nat /\ \A n \in 1 .. Len(s) : DigitValue(s[n]) \in Nat
  BY DigitValueType
<1>1. step \in [Nat \X Nat -> Nat]
  BY <1>0
<1>2. \A n \in 1 .. Len(s), x \in Nat : step[<<n, x>>] = x * base + DigitValue(s[n])
  BY <1>0
<1>. HIDE DEF step
<1>3. PICK f \in [Nat -> Nat] : Follows(f, 0, step)
  <2>1. 0 \in Nat
    OBVIOUS
  <2>. QED
    BY <1>1, <2>1, Recursion
<1>. DEFINE g == [n \in 0 .. Len(s) |-> f[n]]
<1>4. ASSUME NEW n \in 0 .. Len(s)
      PROVE  g[n] = IF n = 0 THEN 0 ELSE g[n - 1] * base + DigitValue(s[n])
  <2>1. CASE n = 0
    BY <1>3, <2>1 DEF Follows
  <2>2. CASE n # 0
    <3>1. n \in 1 .. Len(s) /\ n \in Nat /\ n - 1 \in 0 .. Len(s) /\ n - 1 \in Nat
      BY <1>0, <2>2
    <3>2. f[n] = step[<<n, f[n - 1]>>] /\ f[n - 1] \in Nat
      BY <1>3, <2>2, <3>1 DEF Follows
    <3>3. g[n] = f[n] /\ g[n - 1] = f[n - 1]
      BY <3>1
    <3>. HIDE DEF g
    <3>. QED
      BY <1>2, <2>2, <3>1, <3>2, <3>3
  <2>. QED
    BY <2>1, <2>2
<1>5. g = [n \in 0 .. Len(s) |-> IF n = 0 THEN 0 ELSE g[n - 1] * base + DigitValue(s[n])]
  <2>1. g = [n \in 0 .. Len(s) |-> g[n]]
    OBVIOUS
  <2>. HIDE DEF g
  <2>. QED
    BY <1>4, <2>1
<1>6. Fits(CHOOSE v : Fits(v))
  <2>. HIDE DEF g
  <2>1. Fits(g)
    BY <1>5
  <2>. HIDE DEF Fits
  <2>. QED
    BY <2>1
<1>7. Fits(Values(s, base))
  BY <1>6 DEF Values
<1>8. \A n \in 0 .. Len(s) :
        Values(s, base)[n] =
          IF n = 0 THEN 0 ELSE Values(s, base)[n - 1] * base + DigitValue(s[n])
  BY <1>7
<1>9. Value(s, base) = Values(s, base)[Len(s)]
  BY DEF Value, Values
<1>. HIDE DEF g, Fits
<1>10. Values(s, base)[0] = 0
  BY <1>0, <1>8
<1>11. ASSUME NEW n \in 1 .. Len(s)
       PROVE  Values(s, base)[n] = Values(s, base)[n - 1] * base + DigitValue(s[n])
  <2>1. n \in 0 .. Len(s) /\ n # 0
    BY <1>0
  <2>. QED
    BY <1>8, <2>1
<1>. QED
  BY <1>9, <1>10, <1>11

LEMMA ValueAppend ==
  ASSUME NEW s \in Seq(DigitChars), NEW c \in DigitChars, NEW base \in Nat
  PROVE  Value(Append(s, c), base) = Value(s, base) * base + DigitValue(c)
<1>. DEFINE t == Append(s, c)
            S == {i \in Nat : i <= Len(s) => Values(t, base)[i] = Values(s, base)[i]}
<1>1. /\ t \in Seq(DigitChars) /\ Len(t) = Len(s) + 1 /\ Len(s) \in Nat
      /\ t[Len(s) + 1] = c /\ \A i \in 1 .. Len(s) : t[i] = s[i]
  OBVIOUS
<1>. HIDE DEF t
<1>2. S \in SUBSET Nat /\ 0 \in S
  BY <1>1, ValuesSteps
<1>3. ASSUME NEW i \in S PROVE i + 1 \in S
  <2>. SUFFICES ASSUME i + 1 <= Len(s)
                PROVE  Values(t, base)[i + 1] = Values(s, base)[i + 1]
    OBVIOUS
  <2>1. i + 1 \in 1 .. Len(s) /\ i + 1 \in 1 .. Len(t) /\ (i + 1) - 1 = i
    BY <1>1
  <2>2. /\ Values(t, base)[i + 1] = Values(t, base)[i] * base + DigitValue(t[i + 1])
        /\ Values(s, base)[i + 1] = Values(s, base)[i] * base + DigitValue(s[i + 1])
    BY <1>1, <2>1, ValuesSteps
  <2>. QED
    BY <1>1, <2>1, <2>2
<1>4. S = Nat
  <2>. HIDE DEF S
  <2>. QED
    BY <1>2, <1>3, Induction
<1>5. Values(t, base)[Len(s)] = Values(s, base)[Len(s)]
  BY <1>1, <1>4
<1>6. Len(s) + 1 \in 1 .. Len(t) /\ (Len(s) + 1) - 1 = Len(s)
  BY <1>1
<1>7. Values(t, base)[Len(s) + 1] = Values(t, base)[Len(s)] * base + DigitValue(c)
  BY <1>1, <1>6, ValuesSteps
<1>8. Value(t, base) = Values(t, base)[Len(s) + 1] /\ Value(s, base) = Values(s, base)[Len(s)]
  BY <1>1, ValuesSteps
<1>. QED
  BY <1>5, <1>7, <1>8 DEF t

LEMMA ValueType ==
  ASSUME NEW s \in Seq(DigitChars), NEW base \in Nat
  PROVE  Value(s, base) \in Nat
<1>. DEFINE S == {i \in Nat : i <= Len(s) => Values(s, base)[i] \in Nat}
<1>1. S \in SUBSET Nat /\ Len(s) \in Nat
  OBVIOUS
<1>2. 0 \in S
  BY ValuesSteps
<1>3. ASSUME NEW i \in S PROVE i + 1 \in S
  <2>. SUFFICES ASSUME i + 1 <= Len(s) PROVE Values(s, base)[i + 1] \in Nat
    OBVIOUS
  <2>1. i + 1 \in 1 .. Len(s) /\ (i + 1) - 1 = i /\ Values(s, base)[i] \in Nat
    BY <1>1
  <2>2. Values(s, base)[i + 1] = Values(s, base)[i] * base + DigitValue(s[i + 1])
    BY <2>1, ValuesSteps
  <2>3. DigitValue(s[i + 1]) \in Nat
    <3>1. s[i + 1] \in DigitChars
      BY <2>1
    <3>2. DigitValue(s[i + 1]) \in 0 .. 15
      BY <3>1, DigitValueType
    <3>. QED
      BY <3>2
  <2>. QED
    BY <2>1, <2>2, <2>3
<1>4. S = Nat
  <2>. HIDE DEF S
  <2>. QED
    BY <1>1, <1>2, <1>3, Induction
<1>. QED
  BY <1>1, <1>4, ValuesSteps

LEMMA ValueEmpty == \A base \in Nat : Value(<<>>, base) = 0
<1>1. <<>> \in Seq(DigitChars) /\ Len(<<>>) = 0
  OBVIOUS
<1>. QED
  BY <1>1, ValuesSteps

-----------------------------------------------------------------------------
(* Powers, and how many digits an unsigned int can have.                   *)

LEMMA Products ==
  /\ \A a, b \in Nat \ {0} : a * b \in Nat \ {0}
  /\ \A a, b, x, y \in Nat : a <= b /\ x <= y => a * x <= b * y
  /\ \A a \in Nat \ {0}, x \in Nat : x <= a * x
<1>1. \A a, b \in Nat \ {0} : a * b \in Nat \ {0}
  OBVIOUS
<1>2. ASSUME NEW a \in Nat, NEW b \in Nat, NEW x \in Nat, NEW y \in Nat,
             a <= b, x <= y
      PROVE  a * x <= b * y
  <2>1. a * x <= b * x
    BY <1>2
  <2>2. b * x <= b * y
    BY <1>2
  <2>. QED
    BY <2>1, <2>2
<1>3. ASSUME NEW a \in Nat \ {0}, NEW x \in Nat PROVE x <= a * x
  <2>1. 1 * x <= a * x
    BY <1>2
  <2>. QED
    BY <2>1
<1>. QED
  BY <1>1, <1>2, <1>3

LEMMA PowerStep ==
  ASSUME NEW b, b \in Nat, NEW n, n \in Nat
  PROVE  /\ Power(b)[0] = 1
         /\ Power(b)[n] \in Nat /\ Power(b)[n + 1] \in Nat
         /\ Power(b)[n + 1] = b * Power(b)[n]
<1>1. Power(b) \in [Nat -> Nat] /\ Power(b)[0] = 1
  BY PowerSteps
<1>2. Power(b)[n + 1] = b * Power(b)[n]
  BY PowerSteps
<1>3. n + 1 \in Nat
  OBVIOUS
<1>. QED
  BY <1>1, <1>2, <1>3

LEMMA PowerPositive ==
  ASSUME NEW b, b \in Nat \ {0}
  PROVE  \A n \in Nat : Power(b)[n] \in Nat \ {0}
<1>. DEFINE S == {n \in Nat : Power(b)[n] \in Nat \ {0}}
<1>1. S \in SUBSET Nat
  OBVIOUS
<1>2. 0 \in S
  <2>1. b \in Nat /\ 0 \in Nat
    OBVIOUS
  <2>2. Power(b)[0] = 1
    BY <2>1, PowerStep
  <2>. QED
    BY <2>2
<1>3. ASSUME NEW n \in S PROVE n + 1 \in S
  <2>1. b \in Nat /\ n \in Nat
    OBVIOUS
  <2>2. Power(b)[n + 1] = b * Power(b)[n]
    BY <2>1, PowerStep
  <2>. QED
    BY <2>1, <2>2, Products
<1>4. S = Nat
  <2>. HIDE DEF S
  <2>. QED
    BY <1>1, <1>2, <1>3, Induction
<1>. QED
  BY <1>4

LEMMA PowerGrows ==
  ASSUME NEW b, b \in Nat \ {0}, NEW m, m \in Nat
  PROVE  \A n \in Nat : m <= n => Power(b)[m] <= Power(b)[n]
<1>. DEFINE S == {n \in Nat : m <= n => Power(b)[m] <= Power(b)[n]}
<1>0. b \in Nat /\ Power(b)[m] \in Nat
  <2>1. b \in Nat
    OBVIOUS
  <2>. QED
    BY <2>1, PowerStep
<1>1. S \in SUBSET Nat
  OBVIOUS
<1>2. 0 \in S
  BY <1>0
<1>3. ASSUME NEW n \in S PROVE n + 1 \in S
  <2>1. n \in Nat /\ n + 1 \in Nat
    OBVIOUS
  <2>2. /\ Power(b)[n] \in Nat /\ Power(b)[n + 1] \in Nat
        /\ Power(b)[n + 1] = b * Power(b)[n]
    BY <1>0, <2>1, PowerStep
  <2>3. Power(b)[n] <= Power(b)[n + 1]
    BY <2>2, Products
  <2>4. CASE m <= n
    BY <1>0, <2>1, <2>2, <2>3, <2>4
  <2>5. CASE m > n
    BY <1>0, <2>1, <2>2, <2>5
  <2>. QED
    BY <2>1, <2>4, <2>5
<1>4. S = Nat
  <2>. HIDE DEF S
  <2>. QED
    BY <1>1, <1>2, <1>3, Induction
<1>. QED
  BY <1>4

LEMMA PowerBases ==
  ASSUME NEW a, NEW b, a \in Nat, b \in Nat, a <= b
  PROVE  \A n \in Nat : Power(a)[n] <= Power(b)[n]
<1>. DEFINE S == {n \in Nat : Power(a)[n] <= Power(b)[n]}
<1>1. S \in SUBSET Nat
  OBVIOUS
<1>2. 0 \in S
  <2>1. 0 \in Nat
    OBVIOUS
  <2>2. Power(a)[0] = 1 /\ Power(b)[0] = 1
    BY <2>1, PowerStep
  <2>. QED
    BY <2>2
<1>3. ASSUME NEW n \in S PROVE n + 1 \in S
  <2>1. n \in Nat /\ Power(a)[n] <= Power(b)[n]
    OBVIOUS
  <2>2. /\ Power(a)[n] \in Nat /\ Power(a)[n + 1] = a * Power(a)[n]
        /\ Power(b)[n] \in Nat /\ Power(b)[n + 1] = b * Power(b)[n]
    BY <2>1, PowerStep
  <2>3. a * Power(a)[n] <= b * Power(b)[n]
    BY <2>1, <2>2, Products
  <2>. QED
    BY <2>2, <2>3
<1>4. S = Nat
  <2>. HIDE DEF S
  <2>. QED
    BY <1>1, <1>2, <1>3, Induction
<1>. QED
  BY <1>4

Word == Power(2)[Bits]

LEMMA WordFacts ==
  /\ Bits \in Nat \ {0}
  /\ Power(2)[Bits - 1] \in Nat \ {0} /\ Word = 2 * Power(2)[Bits - 1]
  /\ Word \in Nat /\ Word > 1
<1>1. Bits \in Nat \ {0} /\ Bits - 1 \in Nat /\ (Bits - 1) + 1 = Bits
  BY PrintfAssumption
<1>2. Power(2)[Bits - 1] \in Nat \ {0}
  BY <1>1, PowerPositive
<1>3. Power(2)[(Bits - 1) + 1] = 2 * Power(2)[Bits - 1]
  BY <1>1, PowerSteps
<1>. QED
  BY <1>1, <1>2, <1>3 DEF Word

LEMMA DecimalDigitsSuffice ==
  /\ DecimalDigits \in 1 .. Bits
  /\ \A b \in {10, 16}, k \in Nat : Power(b)[k] < Word => k < DecimalDigits
<1>. DEFINE T == {n \in 1 .. Bits : Power(10)[n] >= Power(2)[Bits]}
<1>1. Bits \in T
  <2>1. Bits \in Nat /\ Bits \in 1 .. Bits
    BY WordFacts
  <2>2. 2 \in Nat /\ 10 \in Nat /\ 2 <= 10
    OBVIOUS
  <2>3. Power(2)[Bits] <= Power(10)[Bits]
    BY <2>1, <2>2, PowerBases
  <2>4. Power(2)[Bits] \in Nat /\ Power(10)[Bits] \in Nat
    BY <2>1, <2>2, PowerStep
  <2>. QED
    BY <2>1, <2>3, <2>4
<1>2. T \in SUBSET Nat
  BY WordFacts
<1>3. \E x \in T : \A y \in T : x <= y
  <2>. HIDE DEF T
  <2>. QED
    BY <1>1, <1>2, Least
<1>4. DecimalDigits \in T
  BY <1>3 DEF DecimalDigits, Min
<1>5. ASSUME NEW b \in {10, 16}, NEW k \in Nat, Power(b)[k] < Word, k >= DecimalDigits
      PROVE  FALSE
  <2>1. DecimalDigits \in Nat /\ Power(10)[DecimalDigits] >= Word
    BY <1>4, WordFacts DEF Word
  <2>2. Power(10)[DecimalDigits] <= Power(10)[k]
    BY <1>5, <2>1, PowerGrows
  <2>3. 10 \in Nat /\ b \in Nat /\ 10 <= b /\ k \in Nat
    OBVIOUS
  <2>4. Power(10)[k] <= Power(b)[k]
    BY <2>3, PowerBases
  <2>5. /\ Power(10)[k] \in Nat /\ Power(b)[k] \in Nat
        /\ Power(10)[DecimalDigits] \in Nat
    BY <2>1, <2>3, PowerStep
  <2>. QED
    BY <1>5, <2>1, <2>2, <2>4, <2>5, WordFacts
<1>6. DecimalDigits \in 1 .. Bits
  BY <1>4
<1>. QED
  BY <1>5, <1>6, WordFacts

LEMMA Division ==
  ASSUME NEW n \in Nat, NEW m \in Nat \ {0}
  PROVE  n = m * (n \div m) + (n % m) /\ n % m \in 0 .. m - 1 /\ n \div m \in Nat
OBVIOUS

LEMMA Quotients ==
  ASSUME NEW k \in Nat \ {0}, NEW q \in Int, NEW r \in Int, NEW n \in Int,
         n = k * q + r, 0 <= r, r < k
  PROVE  n \div k = q /\ n % k = r
<1>. DEFINE p == n \div k
            s == n % k
<1>1. p \in Int /\ s \in Int /\ 0 <= s /\ s < k /\ n = k * p + s
  OBVIOUS
<1>. HIDE DEF p, s
<1>2. k * (p - q) = r - s
  BY <1>1
<1>3. p = q
  <2>1. CASE p >= q + 1
    <3>1. k * (p - q) >= k * 1
      BY <1>1, <2>1
    <3>. QED
      BY <1>1, <1>2, <3>1
  <2>2. CASE p <= q - 1
    <3>1. k * (q - p) >= k * 1
      BY <1>1, <2>2
    <3>2. k * (q - p) = -(k * (p - q))
      BY <1>1
    <3>. QED
      BY <1>1, <1>2, <3>1, <3>2
  <2>. QED
    BY <1>1, <2>1, <2>2
<1>4. r = s
  BY <1>1, <1>3
<1>. QED
  BY <1>3, <1>4 DEF p, s

LEMMA Arguments ==
  /\ Ints \subseteq Int
  /\ \A n \in Int : Unsigned(n) \in 0 .. Word - 1
  /\ \A n \in 0 .. Word - 1 : Unsigned(n) = n
  /\ \A n \in Ints : n < 0 => Unsigned(-n) = -n
<1>1. \A n \in Int : Unsigned(n) \in 0 .. Word - 1
  BY WordFacts DEF Unsigned, Word
<1>2. ASSUME NEW n \in 0 .. Word - 1 PROVE Unsigned(n) = n
  <2>1. Word \in Nat \ {0} /\ 0 \in Int /\ n \in Int /\ n = Word * 0 + n
    BY WordFacts
  <2>2. n % Word = n
    BY <2>1, Quotients
  <2>. QED
    BY <2>2 DEF Unsigned, Word
<1>3. \A n \in Ints : n \in Int /\ (n < 0 => -n \in 0 .. Word - 1)
  BY WordFacts, PrintfAssumption
<1>. QED
  BY <1>1, <1>2, <1>3

-----------------------------------------------------------------------------
(* The invariant.                                                          *)

(* Where fmt is, and ch: no further than one past the terminator, and only *)
(* there if the terminator has been read into ch.                          *)
Reading ==
  /\ Len(format) \in Nat /\ fmt \in Nat /\ fmt <= Len(format) + 2
  /\ pc = "format" => fmt <= Len(format) + 1
  /\ pc \in {"a2i", "switch"} => fmt - 1 \in Nat /\ ch = CharAt(fmt - 1)
  /\ pc \in {"scale", "digits", "putchw"} => fmt <= Len(format) + 1

Places ==
  {"format", "a2i", "switch", "scale", "digits", "putchw", "done", "return"}

Negative == ch = "d" /\ arg < 0
Sign == IF Negative THEN <<"-">> ELSE <<>>
Amount == IF Negative THEN -arg ELSE Unsigned(arg)

(* The digits are written, and k more are to come.                         *)
Converted(digits, k) ==
  /\ bf = Sign \o digits
  /\ num < Power(Base(ch))[k]
  /\ d = IF k = 0 THEN 0 ELSE Power(Base(ch))[k - 1]
  /\ Value(digits, Base(ch)) * Power(Base(ch))[k] + num = Amount
  /\ Len(digits) + k \in 1 .. DecimalDigits
  /\ digits = <<>> /\ k > 1 => d <= num
  /\ digits # <<>> /\ Len(digits) + k > 1 => Head(digits) # "0"

Converting ==
  /\ num \in 0 .. Word - 1 /\ arg \in Int
  /\ pc \in {"scale", "digits"} => ch \in Numeric
  /\ pc = "scale" =>
       /\ bf = Sign /\ num = Amount
       /\ \E k \in Nat : d = Power(Base(ch))[k] /\ (k = 0 \/ d <= num)
  /\ pc = "digits" => \E k \in Nat, digits \in Seq(DigitChars) : Converted(digits, k)
  /\ pc = "putchw" /\ ch \in Numeric =>
       \E digits \in Seq(DigitChars) : Converted(digits, 0)

IInv == pc \in Places /\ Reading /\ Converting

LEMMA NoDigits ==
  /\ "NUL" \notin DigitChars /\ "-" \notin DigitChars
  /\ ch = NUL => a2d \notin 0 .. 10
<1>1. "NUL" \notin DigitChars /\ "-" \notin DigitChars
  BY DEF DigitChars
<1>2. DOMAIN Hex = 1 .. 16 /\ DOMAIN Upper = 1 .. 16
  BY DEF Upper, Hex
<1>3. \A c \in Range(Hex) : c \in DigitChars
  BY <1>2, DigitTypes DEF Range
<1>4. \A c \in Range(Upper) : c \in DigitChars
  BY <1>2, DigitTypes DEF Range
<1>. QED
  BY <1>1, <1>3, <1>4 DEF a2d, NUL

LEMMA CharsRead ==
  ASSUME Len(format) \in Nat
  PROVE  \A i \in Nat : i <= Len(format) + 1 /\ CharAt(i) # NUL => i <= Len(format)
BY DEF CharAt

(* The character at i was read, and is not behind the terminator.          *)
LEMMA ReadOn ==
  ASSUME Reading, NEW i \in Nat, i <= Len(format) + 1, format' = format,
         ch' = CharAt(i), fmt' = i + 1, pc' \in {"a2i", "switch"}
  PROVE  Reading'
<1>1. fmt' - 1 = i
  OBVIOUS
<1>2. (CharAt(fmt - 1))' = CharAt(i)
  BY <1>1 DEF CharAt
<1>. QED
  BY <1>1, <1>2 DEF Reading

LEMMA InitIInv == Init => IInv
<1>. SUFFICES ASSUME Init PROVE IInv
  OBVIOUS
<1>1. Len(format) \in Nat
  <2>1. PICK n \in Nat : format \in [1 .. n -> Alphabet]
    BY PrintfAssumption DEF Init
  <2>2. format \in Seq(Alphabet)
    BY <2>1
  <2>. QED
    BY <2>2
<1>2. Reading
  BY <1>1 DEF Init, Reading
<1>3. Converting
  BY WordFacts DEF Init, Converting
<1>. QED
  BY <1>2, <1>3 DEF Init, IInv, Places

LEMMA ReadingKept == IInv /\ [Next]_vars => Reading'
<1>. SUFFICES ASSUME IInv, [Next]_vars PROVE Reading'
  OBVIOUS
<1>. USE DEF IInv, Reading
<1>1. CASE Literal
  <2>1. CharAt(fmt) # NUL
    BY <1>1 DEF Literal
  <2>2. fmt <= Len(format)
    BY <1>1, <2>1, CharsRead DEF Literal
  <2>. QED
    BY <1>1, <2>2 DEF Literal
<1>2. CASE EndOfFormat
  BY <1>2 DEF EndOfFormat
<1>3. CASE Percent
  <2>. DEFINE first == IF lz' THEN fmt + 2 ELSE fmt + 1
  <2>1. /\ format' = format /\ pc = "format" /\ CharAt(fmt) = "%"
        /\ lz' = (CharAt(fmt + 1) = "0") /\ ch' = CharAt(first) /\ fmt' = first + 1
        /\ pc' \in {"a2i", "switch"}
    BY <1>3 DEF Percent
  <2>2. fmt <= Len(format)
    BY <2>1, CharsRead DEF NUL
  <2>3. CASE lz'
    <3>1. fmt + 1 <= Len(format)
      <4>1. CharAt(fmt + 1) = "0"
        BY <2>1, <2>3
      <4>. QED
        BY <2>2, <4>1, CharsRead DEF NUL
    <3>2. ch' = CharAt(fmt + 2) /\ fmt' = (fmt + 2) + 1
      BY <2>1, <2>3
    <3>. HIDE DEF first
    <3>. QED
      BY <2>1, <3>1, <3>2, ReadOn
  <2>4. CASE ~lz'
    <3>1. ch' = CharAt(fmt + 1) /\ fmt' = (fmt + 1) + 1
      BY <2>1, <2>4
    <3>. HIDE DEF first
    <3>. QED
      BY <2>1, <2>2, <3>1, ReadOn
  <2>. QED
    BY <2>3, <2>4
<1>4. CASE A2i
  <2>1. CASE a2d \in 0 .. 10
    <3>1. ch # NUL
      BY <2>1, NoDigits
    <3>2. /\ fmt - 1 \in Nat /\ ch = CharAt(fmt - 1) /\ pc' = "a2i"
          /\ format' = format /\ ch' = CharAt(fmt) /\ fmt' = fmt + 1
      BY <1>4, <2>1 DEF A2i
    <3>3. fmt - 1 <= Len(format)
      BY <3>1, <3>2, CharsRead
    <3>4. fmt <= Len(format) + 1
      BY <3>2, <3>3
    <3>. QED
      BY <3>2, <3>4, ReadOn
  <2>2. CASE a2d \notin 0 .. 10
    BY <1>4, <2>2 DEF A2i, CharAt
  <2>. QED
    BY <2>1, <2>2
<1>5. CASE Abort
  BY <1>5 DEF Abort
<1>6. CASE Number \/ String \/ Other
  <2>1. /\ fmt - 1 \in Nat /\ ch = CharAt(fmt - 1) /\ ch # NUL
        /\ format' = format /\ fmt' = fmt /\ ch' = ch
        /\ pc' \in {"scale", "putchw", "format"}
    BY <1>6 DEF Number, String, Other, Numeric, Stops, NUL
  <2>2. fmt - 1 <= Len(format)
    BY <2>1, CharsRead
  <2>. QED
    BY <2>1, <2>2
<1>7. CASE Scale \/ Digit \/ EndOfDigits
  BY <1>7 DEF Scale, Digit, EndOfDigits
<1>8. CASE Putchw
  BY <1>8 DEF Putchw
<1>9. CASE Terminate
  BY <1>9 DEF Terminate
<1>10. CASE UNCHANGED vars
  BY <1>10 DEF vars, CharAt
<1>. QED
  BY <1>1, <1>2, <1>3, <1>4, <1>5, <1>6, <1>7, <1>8, <1>9, <1>10 DEF Next

LEMMA Bases ==
  ASSUME ch \in Numeric
  PROVE  Base(ch) \in {10, 16} /\ (Base(ch) = 16 <=> ch \in {"x", "X"})
BY DEF Base, Numeric

LEMMA DigitCharFacts ==
  ASSUME ch \in Numeric, NEW q \in 0 .. Base(ch) - 1
  PROVE  /\ DigitChar(q) \in DigitChars
         /\ DigitValue(DigitChar(q)) = q
         /\ DigitChar(q) = "0" <=> q = 0
<1>1. q \in Nat /\ q + 1 \in 1 .. 16
  BY Bases
<1>2. DigitChar(q) \in {Hex[q + 1], Upper[q + 1]}
  BY DEF DigitChar
<1>3. DigitChar(q) \in DigitChars
  BY <1>1, <1>2, DigitTypes
<1>4. DigitValue(DigitChar(q)) = (q + 1) - 1
  BY <1>1, <1>2, DigitValues
<1>5. Hex[1] = "0" /\ Upper[1] = "0"
  BY UpperDigits DEF Hex
<1>6. DigitChar(q) = "0" => q = 0
  <2>. SUFFICES ASSUME DigitChar(q) = "0" PROVE q = 0
    OBVIOUS
  <2>1. 1 \in 1 .. 16 /\ "0" \in {Hex[1], Upper[1]}
    BY <1>5
  <2>2. DigitValue("0") = 1 - 1
    BY <2>1, DigitValues
  <2>. QED
    BY <1>1, <1>4, <2>2
<1>7. q = 0 => DigitChar(q) = "0"
  BY <1>5 DEF DigitChar
<1>. QED
  BY <1>1, <1>3, <1>4, <1>6, <1>7

LEMMA NumberKeeps == ASSUME IInv, Number PROVE Converting'
<1>1. PICK n \in Ints : /\ arg' = n /\ num' = Magnitude(n)
                        /\ bf' = IF ch = "d" /\ n < 0 THEN <<"-">> ELSE <<>>
  BY DEF Number
<1>2. d' = 1 /\ pc' = "scale" /\ ch' = ch /\ ch \in Numeric
  BY DEF Number
<1>3. n \in Int /\ n \in Ints \cup {0}
  BY Arguments
<1>4. Magnitude(n) = IF ch = "d" /\ n < 0 THEN -n ELSE Unsigned(n)
  <2>1. CASE ch = "d" /\ n < 0
    BY <2>1, Arguments DEF Magnitude
  <2>2. CASE ~(ch = "d" /\ n < 0)
    BY <2>2 DEF Magnitude
  <2>. QED
    BY <2>1, <2>2
<1>5. bf' = Sign' /\ num' = Amount'
  BY <1>1, <1>2, <1>4 DEF Sign, Amount, Negative, Unsigned
<1>6. num' \in 0 .. Word - 1
  <2>1. CASE ch = "d" /\ n < 0
    <3>1. Unsigned(-n) = -n /\ -n \in Int
      BY <1>3, <2>1, Arguments
    <3>. QED
      BY <1>1, <1>4, <2>1, <3>1, Arguments
  <2>2. CASE ~(ch = "d" /\ n < 0)
    BY <1>1, <1>3, <1>4, <2>2, Arguments
  <2>. QED
    BY <2>1, <2>2
<1>7. \E k \in Nat : d' = Power(Base(ch'))[k] /\ (k = 0 \/ d' <= num')
  <2>1. Base(ch) \in Nat /\ 0 \in Nat
    BY <1>2, Bases
  <2>2. Power(Base(ch))[0] = 1
    BY <2>1, PowerStep
  <2>. QED
    BY <1>2, <2>2
<1>. QED
  BY <1>1, <1>2, <1>3, <1>5, <1>6, <1>7 DEF Converting, Word

LEMMA ScaleKeeps == ASSUME IInv, Scale PROVE Converting'
<1>. DEFINE b == Base(ch)
<1>1. /\ pc = "scale" /\ ch \in Numeric /\ bf = Sign /\ num = Amount
      /\ num \in 0 .. Word - 1 /\ arg \in Int
  BY DEF Scale, IInv, Converting
<1>2. PICK k \in Nat : d = Power(b)[k] /\ (k = 0 \/ d <= num)
  BY <1>1 DEF IInv, Converting
<1>3. ch' = ch /\ arg' = arg /\ num' = num /\ bf' = bf
  BY DEF Scale
<1>4. Sign' = Sign /\ Amount' = Amount /\ Base(ch') = b
  BY <1>3 DEF Sign, Amount, Negative, Unsigned
<1>. HIDE DEF b
<1>5. b \in {10, 16} /\ b \in Nat \ {0} /\ b \in Nat
  BY <1>1, Bases DEF b
<1>6. /\ Power(b)[0] = 1 /\ Power(b)[k] \in Nat \ {0}
      /\ Power(b)[k + 1] = b * Power(b)[k] /\ Power(b)[k + 1] \in Nat
  BY <1>5, PowerStep, PowerPositive
<1>7. num \in Nat /\ d \in Nat \ {0} /\ Word \in Nat
  BY <1>1, <1>2, <1>6, WordFacts
<1>8. num = d * (num \div d) + (num % d) /\ num % d \in 0 .. d - 1 /\ num \div d \in Nat
  BY <1>7, Division
<1>9. CASE num \div d >= b
  <2>1. d * b <= d * (num \div d)
    BY <1>5, <1>7, <1>8, <1>9, Products
  <2>2. d * b \in Nat
    BY <1>5, <1>7
  <2>3. d * b <= num
    BY <1>7, <1>8, <2>1, <2>2
  <2>4. d * b \in 0 .. Word - 1
    BY <1>1, <1>7, <2>2, <2>3
  <2>5. d' = d * b /\ pc' = "scale"
    BY <1>1, <1>9, <2>4, Arguments DEF Scale, b
  <2>6. d' = Power(b)[k + 1] /\ d' <= num /\ k + 1 \in Nat
    BY <1>2, <1>5, <1>6, <2>3, <2>5
  <2>. QED
    BY <1>1, <1>3, <1>4, <2>5, <2>6 DEF Converting, Word
<1>10. CASE ~(num \div d >= b)
  <2>1. d' = d /\ pc' = "digits"
    BY <1>10 DEF Scale, b
  <2>2. num < Power(b)[k + 1]
    <3>1. (num \div d) + 1 <= b
      BY <1>5, <1>8, <1>10
    <3>2. d * ((num \div d) + 1) <= d * b
      BY <1>5, <1>7, <1>8, <3>1, Products
    <3>3. d * ((num \div d) + 1) = d * (num \div d) + d
      BY <1>7, <1>8
    <3>4. num < d * ((num \div d) + 1)
      BY <1>7, <1>8, <3>3
    <3>. QED
      BY <1>2, <1>5, <1>6, <1>7, <1>8, <3>2, <3>4
  <2>3. k + 1 \in 1 .. DecimalDigits
    <3>1. Power(b)[k] < Word
      BY <1>1, <1>2, <1>6, WordFacts
    <3>2. k < DecimalDigits
      BY <1>5, <3>1, DecimalDigitsSuffice
    <3>. QED
      BY <3>2, DecimalDigitsSuffice
  <2>4. Value(<<>>, b) = 0
    BY <1>5, ValueEmpty
  <2>5. Converted(<<>>, k + 1)'
    <3>1. <<>> \in Seq(DigitChars) /\ Sign \o <<>> = Sign /\ Len(<<>>) = 0
      BY DEF Sign
    <3>2. k + 1 # 0 /\ (k + 1) - 1 = k /\ 0 * Power(b)[k + 1] + num = num
      BY <1>6, <1>7
    <3>3. k + 1 > 1 => d <= num
      BY <1>2
    <3>. QED
      BY <1>1, <1>2, <1>3, <1>4, <2>1, <2>2, <2>3, <2>4, <3>1, <3>2, <3>3 DEF Converted
  <2>6. <<>> \in Seq(DigitChars) /\ k + 1 \in Nat
    BY <1>6
  <2>7. pc' = "digits" => \E m \in Nat, more \in Seq(DigitChars) : Converted(more, m)'
    BY <2>5, <2>6
  <2>. QED
    BY <1>1, <1>3, <1>4, <2>1, <2>7 DEF Converting, Word
<1>. QED
  BY <1>9, <1>10

LEMMA DigitKeeps == ASSUME IInv, Digit PROVE Converting'
<1>. DEFINE b == Base(ch)
            q == num \div d
<1>1. /\ pc = "digits" /\ ch \in Numeric /\ d # 0
      /\ num \in 0 .. Word - 1 /\ arg \in Int
  BY DEF Digit, IInv, Converting
<1>2. PICK k \in Nat, digits \in Seq(DigitChars) : Converted(digits, k)
  BY <1>1 DEF IInv, Converting
<1>3. /\ ch' = ch /\ arg' = arg /\ pc' = "digits"
      /\ bf' = Append(bf, DigitChar(q)) /\ num' = num % d /\ d' = d \div b
  BY <1>1 DEF Digit
<1>4. Sign' = Sign /\ Amount' = Amount /\ Base(ch') = b
  BY <1>3 DEF Sign, Amount, Negative, Unsigned
<1>5. b \in {10, 16} /\ b \in Nat \ {0} /\ b \in Nat
  BY <1>1, Bases
<1>6. /\ digits \in Seq(DigitChars) /\ bf = Sign \o digits
      /\ num < Power(b)[k] /\ k # 0 /\ d = Power(b)[k - 1]
      /\ Value(digits, b) * Power(b)[k] + num = Amount
      /\ Len(digits) + k \in 1 .. DecimalDigits
      /\ digits = <<>> /\ k > 1 => d <= num
      /\ digits # <<>> /\ Len(digits) + k > 1 => Head(digits) # "0"
  BY <1>1, <1>2 DEF Converted
<1>. HIDE DEF b, q
<1>7. k - 1 \in Nat /\ (k - 1) + 1 = k
  BY <1>6
<1>8. d \in Nat \ {0} /\ Power(b)[k] = b * d
  BY <1>5, <1>6, <1>7, PowerStep, PowerPositive
<1>9. /\ num \in Nat /\ num = d * q + (num % d) /\ num % d \in 0 .. d - 1 /\ q \in Nat
  <2>1. num \in Nat /\ d \in Nat \ {0}
    BY <1>1, <1>8, WordFacts
  <2>. QED
    BY <2>1, Division DEF q
<1>10. q \in 0 .. b - 1
  <2>. SUFFICES ASSUME q >= b PROVE FALSE
    BY <1>5, <1>9
  <2>1. d * b <= d * q
    BY <1>5, <1>8, <1>9, Products
  <2>2. d * b = b * d /\ d * b \in Nat /\ d * q \in Nat
    BY <1>5, <1>8, <1>9
  <2>3. num < b * d
    BY <1>6, <1>8
  <2>4. d * q <= num
    <3>1. num % d \in Nat /\ num = d * q + (num % d)
      BY <1>8, <1>9
    <3>. QED
      BY <2>2, <3>1
  <2>. QED
    BY <1>9, <2>1, <2>2, <2>3, <2>4
<1>11. PICK c \in DigitChars :
         c = DigitChar(q) /\ DigitValue(c) = q /\ (c = "0" <=> q = 0)
  BY <1>1, <1>10, DigitCharFacts DEF b
<1>. DEFINE more == Append(digits, c)
<1>12. /\ more \in Seq(DigitChars) /\ Len(more) = Len(digits) + 1 /\ more # <<>>
       /\ Len(digits) \in Nat
       /\ Head(more) = IF digits = <<>> THEN c ELSE Head(digits)
  <2>1. more \in Seq(DigitChars) /\ Len(more) = Len(digits) + 1 /\ more # <<>>
    BY <1>6
  <2>2. Head(more) = IF digits = <<>> THEN c ELSE Head(digits)
    BY <1>6, HeadTailAppend
  <2>. QED
    BY <1>6, <2>1, <2>2
<1>13. Value(more, b) = Value(digits, b) * b + q
  BY <1>5, <1>6, <1>11, ValueAppend
<1>14. Value(digits, b) \in Nat
  BY <1>5, <1>6, ValueType
<1>. HIDE DEF more
<1>15. bf' = Sign' \o more
  <2>1. PICK C : C = {"-"} \cup DigitChars
    OBVIOUS
  <2>2. Sign \in Seq(C)
    <3>1. "-" \in C
      BY <2>1
    <3>2. <<"-">> \in Seq(C) /\ <<>> \in Seq(C)
      BY <3>1
    <3>. QED
      BY <3>2 DEF Sign
  <2>3. digits \in Seq(C) /\ c \in C
    <3>1. DigitChars \subseteq C
      BY <2>1
    <3>. QED
      BY <1>6, <3>1
  <2>4. Append(Sign \o digits, c) = Sign \o Append(digits, c)
    <3>1. PICK sign : sign = Sign
      OBVIOUS
    <3>2. sign \in Seq(C)
      BY <2>2, <3>1
    <3>3. Append(sign \o digits, c) = sign \o Append(digits, c)
      BY <2>3, <3>2, SeqEqual
    <3>. QED
      BY <3>1, <3>3
  <2>. QED
    BY <1>3, <1>4, <1>6, <1>11, <2>4 DEF more
<1>16. num' < Power(b)[k - 1]
  BY <1>3, <1>6, <1>8, <1>9
<1>17. d' = IF k - 1 = 0 THEN 0 ELSE Power(b)[(k - 1) - 1]
  <2>1. CASE k - 1 = 0
    <3>1. d = 1
      BY <1>5, <1>6, <1>7, <2>1, PowerStep
    <3>2. 1 \div b = 0
      <4>1. 1 = b * 0 + 1 /\ 1 \in Int /\ 0 \in Int /\ 1 < b
        BY <1>5
      <4>. QED
        BY <1>5, <4>1, Quotients
    <3>. QED
      BY <1>3, <2>1, <3>1, <3>2
  <2>2. CASE k - 1 # 0
    <3>1. (k - 1) - 1 \in Nat /\ ((k - 1) - 1) + 1 = k - 1
      BY <1>7, <2>2
    <3>. DEFINE e == Power(b)[(k - 1) - 1]
    <3>2. d = b * e /\ e \in Nat
      BY <1>5, <1>6, <3>1, PowerStep
    <3>. HIDE DEF e
    <3>3. d = b * e + 0 /\ 0 < b /\ d \in Int /\ e \in Int /\ 0 \in Int
      BY <1>5, <1>8, <3>2
    <3>4. d \div b = e
      BY <1>5, <3>3, Quotients
    <3>. QED
      BY <1>3, <2>2, <3>4 DEF e
  <2>. QED
    BY <2>1, <2>2
<1>18. Value(more, b) * Power(b)[k - 1] + num' = Amount
  <2>. DEFINE v == Value(digits, b)
  <2>1. (v * b + q) * d = v * (b * d) + d * q
    BY <1>5, <1>8, <1>9, <1>14
  <2>2. v * (b * d) \in Nat /\ d * q \in Nat
    BY <1>5, <1>8, <1>9, <1>14
  <2>3. v * (b * d) + num = Amount
    BY <1>6, <1>8
  <2>. HIDE DEF v
  <2>4. Value(more, b) * Power(b)[k - 1] = v * (b * d) + d * q
    BY <1>6, <1>13, <2>1 DEF v
  <2>. QED
    BY <1>3, <1>9, <2>2, <2>3, <2>4
<1>19. Len(more) + (k - 1) \in 1 .. DecimalDigits
  BY <1>6, <1>7, <1>12, DecimalDigitsSuffice
<1>20. Len(more) + (k - 1) > 1 => Head(more) # "0"
  <2>. SUFFICES ASSUME Len(more) + (k - 1) > 1 PROVE Head(more) # "0"
    OBVIOUS
  <2>1. Len(digits) + k > 1
    BY <1>7, <1>12
  <2>2. CASE digits = <<>>
    <3>1. k > 1
      BY <2>1, <2>2
    <3>2. d <= num
      BY <1>6, <2>2, <3>1
    <3>3. q # 0
      <4>. SUFFICES ASSUME q = 0 PROVE FALSE
        OBVIOUS
      <4>1. d * q = 0
        BY <1>8
      <4>. QED
        BY <1>8, <1>9, <3>2, <4>1
    <3>. QED
      BY <1>11, <1>12, <2>2, <3>3
  <2>3. CASE digits # <<>>
    BY <1>6, <1>12, <2>1, <2>3
  <2>. QED
    BY <2>2, <2>3
<1>21. Converted(more, k - 1)'
  BY <1>3, <1>4, <1>12, <1>15, <1>16, <1>17, <1>18, <1>19, <1>20 DEF Converted
<1>22. num' \in 0 .. Word - 1
  <2>1. d * q \in Nat /\ num % d \in Nat
    BY <1>8, <1>9
  <2>2. num % d <= num
    BY <1>9, <2>1
  <2>. QED
    BY <1>1, <1>3, <2>1, <2>2, WordFacts
<1>23. \E m \in Nat, longer \in Seq(DigitChars) : Converted(longer, m)'
  BY <1>7, <1>12, <1>21
<1>. QED
  BY <1>1, <1>3, <1>22, <1>23 DEF Converting, Word

LEMMA ConvertingKept == IInv /\ [Next]_vars => Converting'
<1>. SUFFICES ASSUME IInv, [Next]_vars PROVE Converting'
  OBVIOUS
<1>1. num \in 0 .. Word - 1 /\ arg \in Int
  BY DEF IInv, Converting
<1>2. CASE Literal \/ EndOfFormat \/ Percent \/ A2i \/ Abort \/ String \/ Other
           \/ Putchw \/ Terminate
  <2>1. num' = num /\ arg' = arg /\ pc' \notin {"scale", "digits"}
    BY <1>2
    DEF Literal, EndOfFormat, Percent, A2i, Abort, String, Other, Putchw, Terminate
  <2>2. ~(pc' = "putchw" /\ ch' \in Numeric)
    BY <1>2
    DEF Literal, EndOfFormat, Percent, A2i, Abort, String, Other, Putchw, Terminate,
        Numeric
  <2>. QED
    BY <1>1, <2>1, <2>2 DEF Converting, Word
<1>3. CASE EndOfDigits
  <2>1. /\ pc = "digits" /\ d = 0 /\ pc' = "putchw" /\ ch \in Numeric
        /\ ch' = ch /\ arg' = arg /\ num' = num /\ bf' = bf /\ d' = d
    BY <1>3 DEF EndOfDigits, IInv, Converting
  <2>2. PICK k \in Nat, digits \in Seq(DigitChars) : Converted(digits, k)
    BY <2>1 DEF IInv, Converting
  <2>3. k = 0
    <3>. SUFFICES ASSUME k # 0 PROVE FALSE
      OBVIOUS
    <3>1. d = Power(Base(ch))[k - 1] /\ k - 1 \in Nat
      BY <2>2 DEF Converted
    <3>2. Base(ch) \in Nat \ {0}
      BY <2>1, Bases
    <3>3. Power(Base(ch))[k - 1] \in Nat \ {0}
      BY <3>1, <3>2, PowerPositive
    <3>. QED
      BY <2>1, <3>1, <3>3
  <2>4. Sign' = Sign /\ Amount' = Amount
    BY <2>1 DEF Sign, Amount, Negative, Unsigned
  <2>5. Converted(digits, 0)'
    BY <2>1, <2>2, <2>3, <2>4 DEF Converted
  <2>. QED
    BY <1>1, <2>1, <2>5 DEF Converting, Word
<1>4. CASE UNCHANGED vars
  <2>1. UNCHANGED <<pc, ch, arg, num, d, bf>>
    BY <1>4 DEF vars
  <2>2. Sign' = Sign /\ Amount' = Amount
    BY <2>1 DEF Sign, Amount, Negative, Unsigned
  <2>3. \A digits, k : Converted(digits, k)' = Converted(digits, k)
    BY <2>1, <2>2 DEF Converted
  <2>. QED
    BY <2>1, <2>2, <2>3 DEF IInv, Converting, Word
<1>. QED
  BY <1>2, <1>3, <1>4, NumberKeeps, ScaleKeeps, DigitKeeps DEF Next

LEMMA Inductive == Spec => []IInv
<1>1. IInv /\ [Next]_vars => (pc \in Places)'
  BY DEF IInv, Places, Next, vars, Literal, EndOfFormat, Percent, A2i, Abort, Number,
         String, Other, Scale, Digit, EndOfDigits, Putchw, Terminate
<1>2. IInv /\ [Next]_vars => IInv'
  BY <1>1, ReadingKept, ConvertingKept DEF IInv
<1>. QED
  BY <1>2, InitIInv, PTL DEF Spec

-----------------------------------------------------------------------------
(* tfp_format: it never reads behind the format's terminator, however long *)
(* the format is and wherever in a conversion it ends.                     *)
THEOREM FormatEndsInTime == Spec => []NeverPastEnd
<1>1. IInv => NeverPastEnd
  BY DEF IInv, Reading, NeverPastEnd
<1>. QED
  BY <1>1, Inductive, PTL

(* bf[12]: for an unsigned int of any width, an array with room for its    *)
(* decimal digits, a sign and the terminator holds every conversion.       *)
THEOREM NumbersFit == Spec => []BufferFits
<1>1. IInv => BufferFits
  <2>. SUFFICES ASSUME IInv, pc \in {"digits", "putchw"}, ch \in Numeric
                PROVE  Len(bf) + 1 <= BufSize
    BY DEF BufferFits
  <2>1. PICK k \in Nat, digits \in Seq(DigitChars) : Converted(digits, k)
    <3>1. CASE pc = "digits"
      BY <3>1 DEF IInv, Converting
    <3>2. CASE pc = "putchw"
      BY <3>2 DEF IInv, Converting
    <3>. QED
      BY <3>1, <3>2
  <2>2. Len(bf) <= 1 + Len(digits) /\ Len(bf) \in Nat /\ Len(digits) \in Nat
    <3>1. digits \in Seq(DigitChars) /\ bf = Sign \o digits
      BY <2>1 DEF Converted
    <3>2. CASE Negative
      BY <3>1, <3>2 DEF Sign
    <3>3. CASE ~Negative
      BY <3>1, <3>3 DEF Sign
    <3>. QED
      BY <3>2, <3>3
  <2>3. Len(digits) + k <= DecimalDigits /\ DecimalDigits \in Nat
    BY <2>1, WordFacts, DecimalDigitsSuffice DEF Converted
  <2>. QED
    BY <2>2, <2>3 DEF BufSize
<1>. QED
  BY <1>1, Inductive, PTL

(* ui2a and i2a: for an int of any width, the digits in bf denote the      *)
(* argument, which the loop over the powers of the base never overflows.   *)
THEOREM NumbersExact == Spec => []DigitsExact
<1>1. IInv => DigitsExact
  <2>. SUFFICES ASSUME IInv, pc = "putchw", ch \in Numeric PROVE DigitsExact
    BY DEF DigitsExact
  <2>1. PICK digits \in Seq(DigitChars) : Converted(digits, 0)
    BY DEF IInv, Converting
  <2>2. /\ digits \in Seq(DigitChars) /\ bf = Sign \o digits /\ num < Power(Base(ch))[0]
        /\ Value(digits, Base(ch)) * Power(Base(ch))[0] + num = Amount
        /\ Len(digits) \in Nat \ {0}
        /\ Len(digits) > 1 => Head(digits) # "0"
    BY <2>1 DEF Converted
  <2>3. Value(digits, Base(ch)) = Amount
    <3>1. Base(ch) \in Nat /\ num \in Nat
      BY Bases, WordFacts DEF IInv, Converting
    <3>2. Power(Base(ch))[0] = 1
      BY <3>1, PowerStep
    <3>3. Value(digits, Base(ch)) \in Nat
      BY <2>2, <3>1, ValueType
    <3>. QED
      BY <2>2, <3>1, <3>2, <3>3
  <2>4. Head(digits) # "-"
    BY <2>2, NoDigits
  <2>5. CASE Negative
    <3>1. Head(bf) = "-" /\ Tail(bf) = digits
      BY <2>2, <2>5 DEF Sign
    <3>. QED
      BY <2>2, <2>3, <2>5, <3>1 DEF DigitsExact, Negative, Amount
  <2>6. CASE ~Negative
    <3>1. bf = digits
      BY <2>2, <2>6 DEF Sign
    <3>. QED
      BY <2>2, <2>3, <2>4, <2>6, <3>1 DEF DigitsExact, Negative, Amount
  <2>. QED
    BY <2>5, <2>6
<1>. QED
  BY <1>1, Inductive, PTL

=============================================================================
