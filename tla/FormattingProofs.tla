-------------------------- MODULE FormattingProofs --------------------------
(***************************************************************************)
(* For texts of every length, every word of whole hexadecimal digits and   *)
(* every scale, the pod's conversions by words are conversions by digits.  *)
(* Value and WordText are first read as equations (ValueEquation,          *)
(* WordTextEquation); numerals side by side add up (ValueConcat) and a     *)
(* number has one canonical numeral (CanonicalUnique), so that printing and *)
(* parsing by words are what the digits say (PrintingByWords,              *)
(* ParsingByWords), and the texts of the two requests follow (HexIsRight,  *)
(* DepositIsRight).                                                        *)
(***************************************************************************)
EXTENDS Formatting, Recursion

(* The two radixes in use, and the numerals of each. *)
Radixes == {10, 16}
Numerals(radix) == {Digits[i] : i \in 1..radix}

(* Pow is the power of the schoolbook.                                     *)
LEMMA PowEquation ==
    ASSUME NEW b \in Nat \ {0}
    PROVE  /\ Pow(b, 0) = 1
           /\ \A n \in Nat : /\ Pow(b, n) \in Nat \ {0}
                             /\ Pow(b, n + 1) = b * Pow(b, n)
  <1> DEFINE p[k \in Nat] == IF k = 0 THEN 1 ELSE b * p[k - 1]
             d == [n \in Nat |-> 0]
  <1>1. \A n \in Nat : Pow(b, n) = p[n] BY DEF Pow
  <1>2. d \in [Nat -> Nat] /\ \A n \in Nat : d[n] = 0 OBVIOUS
  <1> HIDE DEF d
  <1>3. PICK f \in [Nat -> Nat] : Linear(f, 1, b, d) BY <1>2, LinearRecursion
  <1>4. \A n \in Nat : f[n] = IF n = 0 THEN 1 ELSE b * f[n - 1] BY <1>2, <1>3 DEF Linear
  <1>5. f = [k \in Nat |-> IF k = 0 THEN 1 ELSE b * f[k - 1]] BY <1>4
  <1>6. p = [k \in Nat |-> IF k = 0 THEN 1 ELSE b * p[k - 1]] BY <1>5
  <1> HIDE DEF p
  <1>7. \A k \in Nat : p[k] = IF k = 0 THEN 1 ELSE b * p[k - 1] BY <1>6
  <1> DEFINE S == {n \in Nat : p[n] \in Nat \ {0}}
  <1>8. 0 \in S BY <1>7
  <1>9. ASSUME NEW n \in Nat, n \in S PROVE n + 1 \in S
    BY <1>7, <1>9
  <1> HIDE DEF S
  <1>10. Nat \subseteq S BY <1>8, <1>9, Induction
  <1> QED BY <1>1, <1>7, <1>10 DEF S

(* The sixteen numerals differ.                                            *)
LEMMA DigitsDiffer == \A i, j \in 1..16 : Digits[i] = Digits[j] => i = j
  BY DEF Digits

(* Digit is the inverse of Digits.                                         *)
LEMMA DigitFacts ==
    ASSUME NEW radix \in Radixes
    PROVE  /\ \A i \in 1..radix : /\ Digits[i] \in Numerals(radix)
                                  /\ Digit(Digits[i]) = i - 1
           /\ \A c \in Numerals(radix) : /\ Digit(c) \in 0..(radix - 1)
                                         /\ Digits[Digit(c) + 1] = c
  <1>1. radix \in 1..16 BY DEF Radixes
  <1>2. ASSUME NEW i \in 1..radix PROVE Digit(Digits[i]) = i - 1
    <2> DEFINE j == CHOOSE j \in 1..16 : Digits[j] = Digits[i]
    <2>1. i \in 1..16 BY <1>1
    <2>2. j \in 1..16 /\ Digits[j] = Digits[i] BY <2>1
    <2> HIDE DEF j
    <2>3. j = i BY <2>1, <2>2, DigitsDiffer
    <2> QED BY <2>3 DEF Digit, j
  <1>3. \A i \in 1..radix : Digits[i] \in Numerals(radix) BY DEF Numerals
  <1>4. ASSUME NEW c \in Numerals(radix)
        PROVE  Digit(c) \in 0..(radix - 1) /\ Digits[Digit(c) + 1] = c
    <2>1. PICK i \in 1..radix : c = Digits[i] BY DEF Numerals
    <2>2. Digit(c) = i - 1 BY <1>2, <2>1
    <2> QED BY <1>1, <2>1, <2>2
  <1> QED BY <1>2, <1>3, <1>4

(* The values of the beginnings of s, as Value's definition computes them. *)
Prefixes(s, radix) ==
    CHOOSE v : v = [k \in 0..Len(s) |->
                      IF k = 0 THEN 0 ELSE v[k - 1] * radix + Digit(s[k])]

(* They are numbers, each from the one before. *)
LEMMA PrefixesEquation ==
    ASSUME NEW radix \in Radixes, NEW s \in Seq(Numerals(radix))
    PROVE  /\ Value(s, radix) = Prefixes(s, radix)[Len(s)]
           /\ \A k \in 0..Len(s) :
                 /\ Prefixes(s, radix)[k] \in Nat
                 /\ Prefixes(s, radix)[k] =
                       IF k = 0 THEN 0
                       ELSE Prefixes(s, radix)[k - 1] * radix + Digit(s[k])
  <1> DEFINE v == Prefixes(s, radix)
             d == [n \in Nat |-> IF n \in 1..Len(s) THEN Digit(s[n]) ELSE 0]
  <1>1. Value(s, radix) = v[Len(s)] BY DEF Value, Prefixes
  <1>2. radix \in Nat /\ Len(s) \in Nat BY DEF Radixes
  <1>3. d \in [Nat -> Nat] /\ \A n \in 1..Len(s) : d[n] = Digit(s[n])
    <2>1. \A n \in 1..Len(s) : s[n] \in Numerals(radix) OBVIOUS
    <2>2. \A n \in 1..Len(s) : Digit(s[n]) \in Nat BY <1>2, <2>1, DigitFacts
    <2> QED BY <1>2, <2>2
  <1> HIDE DEF d
  <1>4. PICK f \in [Nat -> Nat] : Linear(f, 0, radix, d)
    BY <1>2, <1>3, LinearRecursion
  <1> DEFINE g == [k \in 0..Len(s) |-> f[k]]
             Next1(w) == [k \in 0..Len(s) |->
                            IF k = 0 THEN 0 ELSE w[k - 1] * radix + Digit(s[k])]
  <1>5. g = Next1(g)
    <2>1. ASSUME NEW k \in 0..Len(s)
          PROVE  f[k] = IF k = 0 THEN 0 ELSE g[k - 1] * radix + Digit(s[k])
      <3>1. k \in Nat /\ f[k] = IF k = 0 THEN 0 ELSE f[k - 1] * radix + d[k]
        BY <1>2, <1>4 DEF Linear
      <3>2. k # 0 => g[k - 1] = f[k - 1] /\ d[k] = Digit(s[k]) BY <1>2, <1>3
      <3> HIDE DEF g
      <3> QED BY <3>1, <3>2
    <2> QED BY <2>1
  <1>6. v = Next1(v)
    <2> HIDE DEF g
    <2> QED BY <1>5 DEF Prefixes
  <1> HIDE DEF v, g
  <1>7. \A k \in 0..Len(s) :
           v[k] = IF k = 0 THEN 0 ELSE v[k - 1] * radix + Digit(s[k])
    BY <1>6
  <1> DEFINE S == {n \in Nat : n <= Len(s) => v[n] \in Nat}
  <1>8. 0 \in S
    <2>1. 0 \in 0..Len(s) BY <1>2
    <2>2. v[0] = 0 BY <1>7, <2>1, Zenon
    <2> QED BY <2>2
  <1>9. ASSUME NEW n \in Nat, n \in S PROVE n + 1 \in S
    <2> SUFFICES ASSUME n + 1 <= Len(s) PROVE v[n + 1] \in Nat OBVIOUS
    <2>1. v[n] \in Nat BY <1>2, <1>9
    <2>2. v[n + 1] = v[n] * radix + Digit(s[n + 1]) BY <1>2, <1>7
    <2>3. Digit(s[n + 1]) \in Nat BY <1>2, <1>3
    <2> QED BY <1>2, <2>1, <2>2, <2>3, NatClosed
  <1> HIDE DEF S
  <1>10. Nat \subseteq S BY <1>8, <1>9, Induction
  <1> QED BY <1>1, <1>2, <1>7, <1>10 DEF S, v

(* Value reads a numeral digit by digit, most significant first.           *)
LEMMA ValueEquation ==
    ASSUME NEW radix \in Radixes
    PROVE  /\ Value(<<>>, radix) = 0
           /\ \A s \in Seq(Numerals(radix)) : Value(s, radix) \in Nat
           /\ \A s \in Seq(Numerals(radix)), c \in Numerals(radix) :
                 Value(Append(s, c), radix) = Value(s, radix) * radix + Digit(c)
  <1>1. Value(<<>>, radix) = 0
    <2> DEFINE e == <<>>
    <2>1. e \in Seq(Numerals(radix)) /\ Len(e) = 0 /\ 0 \in 0..Len(e) OBVIOUS
    <2> HIDE DEF e
    <2>2. Value(e, radix) = Prefixes(e, radix)[0] BY <2>1, PrefixesEquation
    <2>3. Prefixes(e, radix)[0] = 0 BY <2>1, PrefixesEquation
    <2> QED BY <2>2, <2>3 DEF e
  <1>2. \A s \in Seq(Numerals(radix)) : Value(s, radix) \in Nat
    <2> TAKE s \in Seq(Numerals(radix))
    <2>1. Len(s) \in 0..Len(s) OBVIOUS
    <2> QED BY <2>1, PrefixesEquation
  <1>3. ASSUME NEW s \in Seq(Numerals(radix)), NEW c \in Numerals(radix)
        PROVE  Value(Append(s, c), radix) = Value(s, radix) * radix + Digit(c)
    <2> DEFINE sc == Append(s, c)
               v == Prefixes(s, radix)
               w == Prefixes(sc, radix)
               l == Len(s)
    <2>1. /\ sc \in Seq(Numerals(radix)) /\ Len(sc) = l + 1 /\ l \in Nat
          /\ sc[l + 1] = c /\ \A k \in 1..l : sc[k] = s[k]
      OBVIOUS
    <2> HIDE DEF sc
    <2>2. \A k \in 0..l : v[k] = IF k = 0 THEN 0 ELSE v[k - 1] * radix + Digit(s[k])
      BY PrefixesEquation
    <2>3. \A k \in 0..(l + 1) :
             w[k] = IF k = 0 THEN 0 ELSE w[k - 1] * radix + Digit(sc[k])
      BY <2>1, PrefixesEquation
    <2>4. Value(s, radix) = v[l] /\ Value(sc, radix) = w[l + 1]
      BY <2>1, PrefixesEquation
    <2> HIDE DEF v, w, l
    <2> DEFINE S == {k \in Nat : k <= l => w[k] = v[k]}
    <2>5. 0 \in S BY <2>1, <2>2, <2>3
    <2>6. ASSUME NEW k \in Nat, k \in S PROVE k + 1 \in S
      <3> SUFFICES ASSUME k + 1 <= l PROVE w[k + 1] = v[k + 1] OBVIOUS
      <3>1. w[k] = v[k] BY <2>1, <2>6
      <3>2. v[k + 1] = v[k] * radix + Digit(s[k + 1]) BY <2>1, <2>2
      <3>3. w[k + 1] = w[k] * radix + Digit(sc[k + 1]) BY <2>1, <2>3
      <3>4. sc[k + 1] = s[k + 1] BY <2>1
      <3> QED BY <3>1, <3>2, <3>3, <3>4
    <2> HIDE DEF S
    <2>7. Nat \subseteq S BY <2>5, <2>6, Induction
    <2>8. w[l] = v[l] BY <2>1, <2>7 DEF S
    <2>9. w[l + 1] = w[l] * radix + Digit(c) BY <2>1, <2>3
    <2> QED BY <2>4, <2>8, <2>9 DEF sc
  <1> QED BY <1>1, <1>2, <1>3

(* The value of two numerals side by side.                                 *)
LEMMA ValueConcat ==
    ASSUME NEW radix \in Radixes,
           NEW s \in Seq(Numerals(radix)), NEW t \in Seq(Numerals(radix))
    PROVE  Value(s \o t, radix) =
              Value(s, radix) * Pow(radix, Len(t)) + Value(t, radix)
  <1> DEFINE D == Numerals(radix)
             X == {u \in Seq(D) : Value(s \o u, radix) =
                      Value(s, radix) * Pow(radix, Len(u)) + Value(u, radix)}
  <1>1. radix \in Nat \ {0} BY DEF Radixes
  <1>2. <<>> \in X
    <2>1. s \o <<>> = s /\ Len(<<>>) = 0 /\ <<>> \in Seq(D) BY ConcatEmptySeq
    <2>2. Pow(radix, 0) = 1 BY <1>1, PowEquation
    <2> QED BY <2>1, <2>2, ValueEquation
  <1>3. ASSUME NEW u \in Seq(D), NEW c \in D, u \in X PROVE Append(u, c) \in X
    <2> DEFINE a == Value(s, radix)
               b == Value(u, radix)
               q == Pow(radix, Len(u))
    <2>1. /\ s \o Append(u, c) = Append(s \o u, c) /\ s \o u \in Seq(D)
          /\ Append(u, c) \in Seq(D) /\ Len(Append(u, c)) = Len(u) + 1 /\ Len(u) \in Nat
      OBVIOUS
    <2>2. Value(Append(u, c), radix) = b * radix + Digit(c) BY ValueEquation
    <2>3. Value(Append(s \o u, c), radix) = (a * q + b) * radix + Digit(c)
      BY <1>3, <2>1, ValueEquation
    <2>4. Pow(radix, Len(u) + 1) = radix * q /\ q \in Nat BY <1>1, <2>1, PowEquation
    <2>5. a \in Nat /\ b \in Nat BY ValueEquation
    <2>6. Digit(c) \in Nat BY DigitFacts, <1>1
    <2> HIDE DEF a, b, q
    <2>7. (a * q + b) * radix + Digit(c) = a * (radix * q) + (b * radix + Digit(c))
      BY <1>1, <2>4, <2>5, <2>6
    <2> QED BY <2>1, <2>2, <2>3, <2>4, <2>7 DEF a
  <1> HIDE DEF X
  <1>4. Seq(D) \subseteq X
    <2> HIDE DEF D
    <2> QED BY <1>2, <1>3, SeqInduction
  <1> QED BY <1>4 DEF X

(* A numeral of n digits is less than the n-th power of the radix.         *)
LEMMA ValueBound ==
    ASSUME NEW radix \in Radixes, NEW s \in Seq(Numerals(radix))
    PROVE  Value(s, radix) < Pow(radix, Len(s))
  <1> DEFINE D == Numerals(radix)
             X == {u \in Seq(D) : Value(u, radix) < Pow(radix, Len(u))}
  <1>1. radix \in Nat \ {0} BY DEF Radixes
  <1>2. <<>> \in X
    <2>1. Len(<<>>) = 0 /\ <<>> \in Seq(D) OBVIOUS
    <2>2. Pow(radix, 0) = 1 BY <1>1, PowEquation
    <2> QED BY <2>1, <2>2, ValueEquation
  <1>3. ASSUME NEW u \in Seq(D), NEW c \in D, u \in X PROVE Append(u, c) \in X
    <2> DEFINE b == Value(u, radix)
               q == Pow(radix, Len(u))
    <2>1. Append(u, c) \in Seq(D) /\ Len(Append(u, c)) = Len(u) + 1 /\ Len(u) \in Nat
      OBVIOUS
    <2>2. Value(Append(u, c), radix) = b * radix + Digit(c) BY ValueEquation
    <2>3. Pow(radix, Len(u) + 1) = radix * q /\ q \in Nat BY <1>1, <2>1, PowEquation
    <2>4. b \in Nat /\ b < q BY <1>3, ValueEquation
    <2>5. Digit(c) \in Nat /\ Digit(c) < radix BY DigitFacts, <1>1
    <2> HIDE DEF b, q
    <2>6. b * radix + Digit(c) < radix * q
      <3>1. b + 1 <= q BY <2>3, <2>4
      <3>2. (b + 1) * radix <= q * radix BY <1>1, <2>3, <2>4, <3>1
      <3> QED BY <1>1, <2>3, <2>4, <2>5, <3>2
    <2> QED BY <2>1, <2>2, <2>3, <2>6
  <1> HIDE DEF X
  <1>4. Seq(D) \subseteq X
    <2> HIDE DEF D
    <2> QED BY <1>2, <1>3, SeqInduction
  <1> QED BY <1>4 DEF X

(* WordText splits off the last digit.                                     *)
LEMMA WordTextEquation ==
    /\ \A n \in Nat : WordText(n) \in Seq(Numerals(10))
    /\ \A n \in Nat : n < 10 => WordText(n) = <<Digits[n + 1]>>
    /\ \A n \in Nat : n >= 10 =>
          WordText(n) = Append(WordText(n \div 10), Digits[(n % 10) + 1])
  <1> DEFINE t[m \in Nat] == IF m < 10 THEN <<Digits[m + 1]>>
                             ELSE Append(t[m \div 10], Digits[(m % 10) + 1])
             T == Seq(Numerals(10))
             stop == 0..9
             base == [n \in stop |-> <<Digits[n + 1]>>]
             h == [n \in Nat |-> n \div 10]
             step == [n \in Nat |-> [x \in T |-> Append(x, Digits[(n % 10) + 1])]]
  <1>1. \A n \in Nat : WordText(n) = t[n] BY DEF WordText
  <1>2. \A i \in 0..9 : Digits[i + 1] \in Numerals(10)
    <2>1. 10 \in Radixes BY DEF Radixes
    <2>2. \A i \in 0..9 : i + 1 \in 1..10 OBVIOUS
    <2> QED BY <2>1, <2>2, DigitFacts
  <1>3. \A n \in Nat : n % 10 \in 0..9 /\ n \div 10 \in Nat /\ (n >= 10 => n \div 10 < n)
    OBVIOUS
  <1>4. \A n \in Nat : \A x \in T : Append(x, Digits[(n % 10) + 1]) \in T
    BY <1>2, <1>3
  <1>5. Recurses(T, stop, base, h, step)
    <2>1. \A n \in stop : base[n] = <<Digits[n + 1]>> /\ base[n] \in T BY <1>2
    <2>2. h \in [Nat -> Nat] /\ \A n \in Nat : n \notin stop => h[n] < n BY <1>3
    <2>3. step \in [Nat -> [T -> T]]
      <3> HIDE DEF T
      <3> QED BY <1>4
    <2> HIDE DEF base, h, step, T
    <2> QED BY <2>1, <2>2, <2>3 DEF Recurses
  <1>6. PICK f \in [Nat -> T] : \A n \in Nat : f[n] = Rhs(f, n, stop, base, h, step)
    <2> HIDE DEF T, stop, base, h, step
    <2> QED BY <1>5, RecursionTheorem
  <1>7. ASSUME NEW n \in Nat
        PROVE  f[n] = IF n < 10 THEN <<Digits[n + 1]>>
                      ELSE Append(f[n \div 10], Digits[(n % 10) + 1])
    <2>1. f[n] = IF n \in stop THEN base[n] ELSE step[n][f[h[n]]] BY <1>6 DEF Rhs
    <2>2. \A x \in T : step[n][x] = Append(x, Digits[(n % 10) + 1]) OBVIOUS
    <2>3. h[n] = n \div 10 /\ f[h[n]] \in T BY <1>3
    <2>4. n \in stop <=> n < 10 OBVIOUS
    <2>5. n \in stop => base[n] = <<Digits[n + 1]>> OBVIOUS
    <2> HIDE DEF step, h, base, T, stop
    <2> QED BY <2>1, <2>2, <2>3, <2>4, <2>5
  <1> DEFINE Next1(w) == [m \in Nat |-> IF m < 10 THEN <<Digits[m + 1]>>
                                        ELSE Append(w[m \div 10], Digits[(m % 10) + 1])]
  <1>8. f = Next1(f) BY <1>7
  <1>9. t = Next1(t) BY <1>8
  <1> HIDE DEF t
  <1>10. ASSUME NEW m \in Nat
         PROVE  /\ m < 10 => t[m] = <<Digits[m + 1]>>
                /\ m >= 10 => t[m] = Append(t[m \div 10], Digits[(m % 10) + 1])
    <2>1. m >= 10 => ~(m < 10) OBVIOUS
    <2>2. t[m] = IF m < 10 THEN <<Digits[m + 1]>>
                 ELSE Append(t[m \div 10], Digits[(m % 10) + 1])
      BY <1>9, Zenon
    <2> QED BY <2>1, <2>2, Zenon
  <1> DEFINE S == {m \in Nat : t[m] \in T}
  <1>11. ASSUME NEW m \in Nat, \A k \in Nat : k < m => k \in S PROVE m \in S
    <2>1. CASE m < 10
      <3>1. m \in 0..9 BY <2>1
      <3>2. Digits[m + 1] \in Numerals(10) BY <1>2, <3>1, Zenon
      <3>3. <<Digits[m + 1]>> \in T BY <3>2
      <3>4. t[m] = <<Digits[m + 1]>> BY <1>10, <2>1, Zenon
      <3> QED BY <3>3, <3>4, Zenon
    <2>2. CASE m >= 10
      <3>1. t[m \div 10] \in T BY <1>3, <1>11, <2>2
      <3>2. t[m] = Append(t[m \div 10], Digits[(m % 10) + 1]) BY <1>10, <2>2, Zenon
      <3> QED BY <1>4, <3>1, <3>2
    <2> QED BY <2>1, <2>2
  <1> HIDE DEF S
  <1>12. Nat \subseteq S BY <1>11, StrongInduction
  <1>13. \A n \in Nat : t[n] \in T BY <1>12 DEF S
  <1> QED BY <1>1, <1>3, <1>10, <1>13, Zenon

(* A sequence of numerals is a numeral unless it is empty.                 *)
LEMMA NumeralFacts ==
    ASSUME NEW radix \in Radixes, NEW A, NEW s \in Seq(A)
    PROVE  IsNumeral(s, radix) <=> s # <<>> /\ s \in Seq(Numerals(radix))
  <1>1. \A c : IsDigit(c, radix) <=> c \in Numerals(radix) BY DEF IsDigit, Numerals
  <1>2. (\A i \in DOMAIN s : s[i] \in Numerals(radix)) <=> s \in Seq(Numerals(radix))
    <2>1. s \in [1..Len(s) -> A] /\ Len(s) \in Nat /\ DOMAIN s = 1..Len(s) OBVIOUS
    <2> QED BY <2>1
  <1> QED BY <1>1, <1>2 DEF IsNumeral

(* WordText writes the number, without zeros in front.                     *)
LEMMA WordTextFacts ==
    ASSUME NEW n \in Nat
    PROVE  /\ Len(WordText(n)) \in Nat \ {0}
           /\ Value(WordText(n), 10) = n
           /\ WordText(n)[1] = "0" => n = 0 /\ Len(WordText(n)) = 1
  <1> DEFINE P(m) == /\ Len(WordText(m)) \in Nat \ {0}
                     /\ Value(WordText(m), 10) = m
                     /\ WordText(m)[1] = "0" => m = 0 /\ Len(WordText(m)) = 1
             S == {m \in Nat : P(m)}
  <1>1. 10 \in Radixes BY DEF Radixes
  <1>2. ASSUME NEW m \in Nat, \A k \in Nat : k < m => k \in S PROVE P(m)
    <2>1. CASE m < 10
      <3> DEFINE c == Digits[m + 1]
      <3>1. m + 1 \in 1..10 BY <2>1
      <3>2. c \in Numerals(10) /\ Digit(c) = m
        <4>1. c \in Numerals(10) /\ Digit(c) = (m + 1) - 1
          BY <1>1, <3>1, DigitFacts
        <4> QED BY <4>1
      <3>3. c = "0" => m = 0
        <4>1. 1 \in 1..16 /\ m + 1 \in 1..16 /\ Digits[1] = "0" BY <3>1 DEF Digits
        <4>2. c = "0" => m + 1 = 1 BY <4>1, DigitsDiffer
        <4> QED BY <4>2
      <3>4. WordText(m) = <<c>> BY <2>1, WordTextEquation
      <3> HIDE DEF c
      <3>5. Value(<<c>>, 10) = m
        <4>1. <<c>> = Append(<<>>, c) /\ <<>> \in Seq(Numerals(10)) OBVIOUS
        <4>2. Value(Append(<<>>, c), 10) = Value(<<>>, 10) * 10 + Digit(c)
          BY <1>1, <3>2, <4>1, ValueEquation
        <4>3. Value(<<>>, 10) = 0 BY <1>1, ValueEquation
        <4> QED BY <3>2, <4>1, <4>2, <4>3
      <3>6. Len(<<c>>) = 1 /\ <<c>>[1] = c OBVIOUS
      <3> QED BY <3>3, <3>4, <3>5, <3>6
    <2>2. CASE m >= 10
      <3> DEFINE c == Digits[(m % 10) + 1]
                 q == m \div 10
                 s == WordText(q)
      <3>1. q \in Nat /\ q < m /\ q # 0 /\ m = q * 10 + (m % 10) /\ m % 10 \in 0..9
        BY <2>2
      <3>2. P(q) BY <1>2, <3>1
      <3>3. WordText(m) = Append(s, c) BY <2>2, WordTextEquation
      <3>4. c \in Numerals(10) /\ Digit(c) = m % 10
        <4>1. (m % 10) + 1 \in 1..10 BY <3>1
        <4>2. c \in Numerals(10) /\ Digit(c) = ((m % 10) + 1) - 1
          BY <1>1, <4>1, DigitFacts
        <4> QED BY <3>1, <4>2
      <3>5. s \in Seq(Numerals(10)) BY <3>1, WordTextEquation
      <3> HIDE DEF c, q, s
      <3>6. Value(Append(s, c), 10) = m
        <4>1. Value(Append(s, c), 10) = Value(s, 10) * 10 + Digit(c)
          BY <1>1, <3>4, <3>5, ValueEquation
        <4>2. Value(s, 10) = q BY <3>2 DEF s
        <4> QED BY <3>1, <3>4, <4>1, <4>2
      <3>7. Len(s) \in Nat \ {0} /\ s[1] # "0" BY <3>1, <3>2 DEF s
      <3>8. Len(Append(s, c)) = Len(s) + 1 /\ Append(s, c)[1] = s[1]
        BY <3>4, <3>5, <3>7
      <3> QED BY <3>3, <3>6, <3>7, <3>8
    <2> QED BY <2>1, <2>2
  <1>3. \A m \in Nat : (\A k \in Nat : k < m => k \in S) => m \in S BY <1>2
  <1> HIDE DEF S
  <1>4. Nat \subseteq S BY <1>3, StrongInduction
  <1> QED BY <1>4 DEF S

(* A number has one numeral without zeros in front: what WordText writes.  *)
LEMMA CanonicalUnique ==
    ASSUME NEW s \in Seq(Numerals(10)), Canonical(s)
    PROVE  s = WordText(Value(s, 10))
  <1> DEFINE D == Numerals(10)
             X == {u \in Seq(D) : u # <<>> /\ (u[1] = "0" => Len(u) = 1)
                                    => u = WordText(Value(u, 10))}
  <1>1. 10 \in Radixes BY DEF Radixes
  <1>2. <<>> \in X OBVIOUS
  <1>3. ASSUME NEW u \in Seq(D), NEW c \in D, u \in X PROVE Append(u, c) \in X
    <2> DEFINE uc == Append(u, c)
               v == Value(u, 10)
    <2>1. /\ uc \in Seq(D) /\ Len(uc) = Len(u) + 1 /\ Len(u) \in Nat
          /\ u # <<>> => Len(u) # 0 /\ uc[1] = u[1]
      OBVIOUS
    <2>2. Value(uc, 10) = v * 10 + Digit(c) /\ v \in Nat BY <1>1, ValueEquation
    <2>3. Digit(c) \in 0..9 /\ Digits[Digit(c) + 1] = c
      <3>1. Digit(c) \in 0..(10 - 1) /\ Digits[Digit(c) + 1] = c BY <1>1, DigitFacts
      <3> QED BY <3>1
    <2> SUFFICES ASSUME uc[1] = "0" => Len(uc) = 1 PROVE uc = WordText(Value(uc, 10))
      BY <2>1
    <2>4. CASE u = <<>>
      <3>1. v = 0 BY <1>1, <2>4, ValueEquation
      <3> HIDE DEF v, uc
      <3>2. Value(uc, 10) = Digit(c) BY <2>2, <2>3, <3>1
      <3>3. WordText(Digit(c)) = <<c>>
        <4>1. Digit(c) \in Nat /\ Digit(c) < 10 BY <2>3
        <4>2. WordText(Digit(c)) = <<Digits[Digit(c) + 1]>>
          BY <4>1, WordTextEquation, Zenon
        <4> QED BY <2>3, <4>2
      <3>4. uc = <<c>> BY <2>4 DEF uc
      <3> QED BY <3>2, <3>3, <3>4
    <2>5. CASE u # <<>>
      <3>1. u[1] # "0" BY <2>1, <2>5
      <3>2. u = WordText(v) BY <1>3, <2>5, <3>1
      <3>3. v # 0
        <4> HIDE DEF v
        <4> SUFFICES ASSUME v = 0 PROVE FALSE OBVIOUS
        <4>1. 0 \in Nat /\ 0 < 10 OBVIOUS
        <4>2. WordText(0) = <<Digits[0 + 1]>> BY <4>1, WordTextEquation, Zenon
        <4>3. <<Digits[0 + 1]>>[1] = "0" BY DEF Digits
        <4> QED BY <3>1, <3>2, <4>2, <4>3
      <3> DEFINE n == Value(uc, 10)
      <3> HIDE DEF v, uc
      <3>4. n \in Nat /\ n >= 10 /\ n \div 10 = v /\ n % 10 = Digit(c)
        <4> DEFINE d == Digit(c)
        <4>1. n = v * 10 + d /\ v \in Nat /\ d \in 0..9 BY <2>2, <2>3
        <4> HIDE DEF n, d
        <4>2. n \in Nat /\ n >= 10 /\ n \div 10 = v /\ n % 10 = d BY <3>3, <4>1
        <4> QED BY <4>2 DEF d
      <3>5. WordText(n) = Append(WordText(n \div 10), Digits[(n % 10) + 1])
        BY <3>4, WordTextEquation
      <3> HIDE DEF n
      <3>6. WordText(n) = Append(u, c) BY <2>3, <3>2, <3>4, <3>5
      <3> QED BY <3>6 DEF n, uc
    <2> QED BY <2>4, <2>5
  <1>4. s # <<>> /\ (s[1] = "0" => Len(s) = 1) BY DEF Canonical, IsNumeral
  <1> HIDE DEF X
  <1>5. Seq(D) \subseteq X
    <2> HIDE DEF D
    <2> QED BY <1>2, <1>3, SeqInduction
  <1> QED BY <1>4, <1>5 DEF X

(* A word holds at least one numeral, and any number of that many numerals. *)
LEMMA CharsPerWord ==
    ASSUME NEW radix \in Radixes
    PROVE  /\ charsPerWord(radix) \in Nat \ {0}
           /\ Power(radix) \in Nat \ {0}
           /\ Power(radix) <= Pow(2, WordBits)
           /\ Power(radix) >= 10
  <1> DEFINE W == WordBits
             Fits(n) == Pow(radix, n) <= Pow(2, W) /\ Pow(radix, n + 1) > Pow(2, W)
  <1>1. radix \in Nat \ {0} /\ radix >= 10 /\ radix <= 16 BY DEF Radixes
  <1>2. W \in Nat /\ W >= 4
    <2>1. W \in Nat \ {0} /\ W % 4 = 0 BY BoundAssumption, WordAssumption
    <2> QED BY <2>1
  <1>3. /\ \A n \in Nat : Pow(radix, n) \in Nat \ {0} /\ Pow(radix, n + 1) = radix * Pow(radix, n)
        /\ Pow(radix, 0) = 1
    BY <1>1, PowEquation
  <1>4. /\ \A n \in Nat : Pow(2, n) \in Nat \ {0} /\ Pow(2, n + 1) = 2 * Pow(2, n)
        /\ Pow(2, 0) = 1
    <2>1. 2 \in Nat \ {0} OBVIOUS
    <2> QED BY <2>1, PowEquation
  <1>5. \A n \in Nat : Pow(2, n) <= Pow(radix, n) /\ radix <= Pow(2, n + 4)
    <2> DEFINE S == {n \in Nat : Pow(2, n) <= Pow(radix, n) /\ radix <= Pow(2, n + 4)}
    <2>1. 0 \in S
      <3>1. Pow(2, 0 + 1) = 2 /\ Pow(2, 1 + 1) = 4 /\ Pow(2, 2 + 1) = 8 /\ Pow(2, 3 + 1) = 16
        <4>1. Pow(2, 0 + 1) = 2 BY <1>4
        <4>2. Pow(2, 1 + 1) = 4 BY <1>4, <4>1
        <4>3. Pow(2, 2 + 1) = 8 BY <1>4, <4>2
        <4>4. Pow(2, 3 + 1) = 16 BY <1>4, <4>3
        <4> QED BY <4>1, <4>2, <4>3, <4>4
      <3>2. Pow(2, 0) <= Pow(radix, 0) BY <1>3, <1>4
      <3>3. 0 + 4 = 3 + 1 /\ radix <= 16 BY <1>1
      <3>4. radix <= Pow(2, 0 + 4) BY <3>1, <3>3
      <3> QED BY <3>2, <3>4
    <2>2. ASSUME NEW n \in Nat, n \in S PROVE n + 1 \in S
      <3> DEFINE a == Pow(2, n)
                 b == Pow(radix, n)
      <3>1. a \in Nat /\ b \in Nat /\ a <= b BY <1>3, <1>4, <2>2
      <3>2. Pow(2, n + 1) = 2 * a /\ Pow(radix, n + 1) = radix * b BY <1>3, <1>4
      <3>3. Pow(2, (n + 4) + 1) = 2 * Pow(2, n + 4) /\ Pow(2, n + 4) \in Nat BY <1>4
      <3>4. (n + 4) + 1 = (n + 1) + 4 OBVIOUS
      <3> HIDE DEF a, b
      <3>5. 2 * a <= radix * b
        <4>1. 2 * b <= radix * b BY <1>1, <3>1
        <4> QED BY <1>1, <3>1, <4>1
      <3>6. radix <= Pow(2, (n + 1) + 4) BY <1>1, <2>2, <3>3, <3>4
      <3> QED BY <3>2, <3>5, <3>6
    <2> HIDE DEF S
    <2>3. Nat \subseteq S BY <2>1, <2>2, Induction
    <2> QED BY <2>3 DEF S
  <1>6. \E n \in 1..W : Fits(n)
    <2> DEFINE S == {n \in Nat : Pow(radix, n + 1) > Pow(2, W)}
    <2>1. W \in S
      <3> DEFINE a == Pow(2, W)
                 b == Pow(radix, W)
      <3>1. a \in Nat \ {0} /\ b \in Nat /\ a <= b BY <1>2, <1>3, <1>4, <1>5
      <3>2. Pow(radix, W + 1) = radix * b BY <1>2, <1>3
      <3> HIDE DEF a, b
      <3>3. radix * b >= 2 * b BY <1>1, <3>1
      <3>4. Pow(radix, W + 1) > a BY <1>1, <3>1, <3>2, <3>3
      <3> QED BY <1>2, <3>4 DEF a
    <2>2. PICK n \in S : \A m \in S : n <= m
      <3>1. S \subseteq Nat /\ S # {} BY <2>1
      <3> HIDE DEF S
      <3> QED BY <3>1, Least
    <2>3. n \in Nat /\ n <= W BY <2>1, <2>2
    <2>4. n # 0
      <3>1. Pow(radix, 0 + 1) = radix BY <1>1, <1>3
      <3>2. W - 4 \in Nat /\ (W - 4) + 4 = W BY <1>2
      <3>3. radix <= Pow(2, W) BY <1>5, <3>2
      <3>4. Pow(2, W) \in Nat BY <1>2, <1>4
      <3> QED BY <1>1, <2>2, <3>1, <3>3, <3>4
    <2>5. n - 1 \in Nat /\ (n - 1) + 1 = n BY <2>3, <2>4
    <2>6. ~(Pow(radix, (n - 1) + 1) > Pow(2, W)) BY <2>2, <2>3, <2>5
    <2>7. Pow(radix, n) <= Pow(2, W) BY <1>2, <1>3, <1>4, <2>3, <2>5, <2>6
    <2> QED BY <1>2, <2>2, <2>3, <2>4, <2>7
  <1>7. charsPerWord(radix) \in 1..W /\ Fits(charsPerWord(radix))
    BY <1>6 DEF charsPerWord
  <1> DEFINE c == charsPerWord(radix)
  <1>8. c \in Nat \ {0} /\ c - 1 \in Nat /\ (c - 1) + 1 = c BY <1>2, <1>7
  <1>9. Pow(radix, c) = radix * Pow(radix, c - 1) /\ Pow(radix, c - 1) \in Nat \ {0}
    BY <1>3, <1>8
  <1> HIDE DEF c
  <1>10. Pow(radix, c) >= 10 /\ Pow(radix, c) \in Nat \ {0}
    <2> DEFINE b == Pow(radix, c - 1)
    <2> HIDE DEF b
    <2>1. b \in Nat \ {0} /\ Pow(radix, c) = radix * b BY <1>9 DEF b
    <2>2. radix * b >= radix BY <1>1, <2>1
    <2> QED BY <1>1, <2>1, <2>2
  <1> QED BY <1>7, <1>8, <1>10 DEF Power, c

(* A number below the k-th power of ten has at most k digits.              *)
LEMMA WordTextWidth ==
    ASSUME NEW k \in Nat \ {0}, NEW n \in Nat, n < Pow(10, k)
    PROVE  Len(WordText(n)) <= k
  <1> DEFINE S == {j \in Nat : \A m \in Nat :
                     m < Pow(10, j + 1) => Len(WordText(m)) <= j + 1}
  <1>1. /\ \A j \in Nat : Pow(10, j) \in Nat \ {0} /\ Pow(10, j + 1) = 10 * Pow(10, j)
        /\ Pow(10, 0) = 1
    <2>1. 10 \in Nat \ {0} OBVIOUS
    <2> QED BY <2>1, PowEquation
  <1>2. \A m \in Nat : m < 10 => Len(WordText(m)) = 1
    <2> SUFFICES ASSUME NEW m \in Nat, m < 10 PROVE Len(WordText(m)) = 1 OBVIOUS
    <2>1. WordText(m) = <<Digits[m + 1]>> BY WordTextEquation, Zenon
    <2> QED BY <2>1
  <1>3. 0 \in S
    <2>1. Pow(10, 0 + 1) = 10 BY <1>1
    <2>2. ASSUME NEW m \in Nat, m < Pow(10, 0 + 1) PROVE Len(WordText(m)) <= 0 + 1
      <3>1. Len(WordText(m)) = 1 BY <1>2, <2>1, <2>2
      <3> QED BY <3>1
    <2> QED BY <2>2
  <1>4. ASSUME NEW j \in Nat, j \in S PROVE j + 1 \in S
    <2> SUFFICES ASSUME NEW m \in Nat, m < Pow(10, (j + 1) + 1)
                 PROVE  Len(WordText(m)) <= (j + 1) + 1
      OBVIOUS
    <2>1. CASE m < 10
      <3>1. Len(WordText(m)) = 1 BY <1>2, <2>1
      <3> QED BY <3>1
    <2>2. CASE m >= 10
      <3> DEFINE q == m \div 10
                 c == Digits[(m % 10) + 1]
      <3>1. Pow(10, (j + 1) + 1) = 10 * Pow(10, j + 1) /\ Pow(10, j + 1) \in Nat BY <1>1
      <3>2. q \in Nat /\ q < Pow(10, j + 1) BY <3>1
      <3>3. Len(WordText(q)) <= j + 1 BY <1>4, <3>2
      <3>4. WordText(m) = Append(WordText(q), c) BY <2>2, WordTextEquation, Zenon
      <3>5. WordText(q) \in Seq(Numerals(10)) BY <3>2, WordTextEquation, Zenon
      <3>6. Len(Append(WordText(q), c)) = Len(WordText(q)) + 1 /\ Len(WordText(q)) \in Nat
        BY <3>5
      <3> QED BY <3>3, <3>4, <3>6
    <2> QED BY <2>1, <2>2
  <1> HIDE DEF S
  <1>5. Nat \subseteq S BY <1>3, <1>4, Induction
  <1>6. k - 1 \in Nat /\ (k - 1) + 1 = k OBVIOUS
  <1>7. k - 1 \in S BY <1>5, <1>6
  <1> QED BY <1>6, <1>7 DEF S

(* A text of zeros counts nothing.                                         *)
LEMMA ZerosFacts ==
    ASSUME NEW n \in Nat
    PROVE  /\ [i \in 1..n |-> "0"] \in Seq(Numerals(10))
           /\ Len([i \in 1..n |-> "0"]) = n
           /\ Value([i \in 1..n |-> "0"], 10) = 0
  <1> DEFINE Z(m) == [i \in 1..m |-> "0"]
             S == {m \in Nat : Value(Z(m), 10) = 0}
  <1>1. 10 \in Radixes BY DEF Radixes
  <1>2. "0" \in Numerals(10) /\ Digit("0") = 0
    <2>1. Digits[1] = "0" /\ 1 \in 1..10 BY DEF Digits
    <2>2. Digits[1] \in Numerals(10) /\ Digit(Digits[1]) = 1 - 1
      BY <1>1, <2>1, DigitFacts
    <2> QED BY <2>1, <2>2
  <1>3. \A m \in Nat : Z(m) \in Seq(Numerals(10)) /\ Len(Z(m)) = m BY <1>2
  <1>4. 0 \in S
    <2>1. Z(0) = <<>> OBVIOUS
    <2> QED BY <1>1, <2>1, ValueEquation
  <1>5. ASSUME NEW m \in Nat, m \in S PROVE m + 1 \in S
    <2>1. Z(m + 1) = Append(Z(m), "0") OBVIOUS
    <2>2. Value(Z(m), 10) = 0 BY <1>5
    <2>3. Z(m) \in Seq(Numerals(10)) BY <1>3
    <2> HIDE DEF Z
    <2>4. Value(Append(Z(m), "0"), 10) = Value(Z(m), 10) * 10 + Digit("0")
      BY <1>1, <1>2, <2>3, ValueEquation
    <2>5. Value(Z(m + 1), 10) = 0 * 10 + 0 BY <1>2, <2>1, <2>2, <2>4, Zenon
    <2> QED BY <2>5
  <1> HIDE DEF S
  <1>6. Nat \subseteq S BY <1>4, <1>5, Induction
  <1> QED BY <1>3, <1>6 DEF S

(* A word behind others fills its width.                                   *)
LEMMA PartFacts ==
    ASSUME NEW word \in Nat, word < Power(10)
    PROVE  /\ Part(word) \in Seq(Numerals(10))
           /\ Len(Part(word)) = charsPerWord(10)
           /\ Value(Part(word), 10) = word
  <1> DEFINE w == WordText(word)
             c == charsPerWord(10)
             pad == [i \in 1..(c - Len(w)) |-> "0"]
  <1>1. 10 \in Radixes BY DEF Radixes
  <1>2. c \in Nat \ {0} BY <1>1, CharsPerWord
  <1>3. w \in Seq(Numerals(10)) BY WordTextEquation, Zenon
  <1>4. Len(w) \in Nat /\ Value(w, 10) = word BY WordTextFacts
  <1>5. Len(w) <= c BY <1>2, WordTextWidth DEF Power
  <1>6. Part(word) = pad \o w BY DEF Part
  <1> HIDE DEF w, c
  <1>7. c - Len(w) \in Nat BY <1>2, <1>4, <1>5
  <1>8. pad \in Seq(Numerals(10)) /\ Len(pad) = c - Len(w) /\ Value(pad, 10) = 0
    BY <1>7, ZerosFacts
  <1> HIDE DEF pad
  <1>9. Value(pad \o w, 10) = Value(pad, 10) * Pow(10, Len(w)) + Value(w, 10)
    BY <1>1, <1>3, <1>8, ValueConcat
  <1>10. pad \o w \in Seq(Numerals(10)) /\ Len(pad \o w) = Len(pad) + Len(w)
    BY <1>3, <1>8
  <1>11. Pow(10, Len(w)) \in Nat
    <2>1. 10 \in Nat \ {0} OBVIOUS
    <2> QED BY <1>4, <2>1, PowEquation
  <1>12. Value(pad \o w, 10) = word BY <1>4, <1>8, <1>9, <1>11
  <1> QED BY <1>2, <1>4, <1>6, <1>8, <1>10, <1>12 DEF c

(* MagnitudeText splits off the last word.                                 *)
LEMMA MagnitudeTextEquation ==
    /\ \A n \in Nat : MagnitudeText(n) \in Seq(Numerals(10))
    /\ \A n \in Nat : n < Power(10) => MagnitudeText(n) = WordText(n)
    /\ \A n \in Nat : n >= Power(10) =>
          MagnitudeText(n) = MagnitudeText(n \div Power(10)) \o Part(n % Power(10))
  <1> DEFINE P == Power(10)
             t[m \in Nat] == IF m < P THEN WordText(m) ELSE t[m \div P] \o Part(m % P)
             T == Seq(Numerals(10))
             stop == {n \in Nat : n < P}
             base == [n \in Nat |-> WordText(n)]
             h == [n \in Nat |-> n \div P]
             step == [n \in Nat |-> [x \in T |-> x \o Part(n % P)]]
  <1>1. \A n \in Nat : MagnitudeText(n) = t[n] BY DEF MagnitudeText
  <1>2. P \in Nat \ {0} /\ P >= 10
    <2>1. 10 \in Radixes BY DEF Radixes
    <2> QED BY <2>1, CharsPerWord
  <1>3. \A n \in Nat : n % P \in Nat /\ n % P < P /\ n \div P \in Nat /\ (n >= P => n \div P < n)
    <2> HIDE DEF P
    <2> QED BY <1>2
  <1>4. \A n \in Nat : Part(n % P) \in T BY <1>3, PartFacts
  <1>5. \A n \in Nat : WordText(n) \in T BY WordTextEquation, Zenon
  <1> HIDE DEF P
  <1>6. \A n \in Nat : \A x \in T : x \o Part(n % P) \in T BY <1>4
  <1>7. Recurses(T, stop, base, h, step)
    <2>1. \A n \in Nat : base[n] \in T BY <1>5
    <2>2. h \in [Nat -> Nat] /\ \A n \in Nat : n \notin stop => h[n] < n BY <1>2, <1>3
    <2>3. step \in [Nat -> [T -> T]]
      <3> HIDE DEF T
      <3> QED BY <1>6
    <2>4. 0 \in stop BY <1>2
    <2> HIDE DEF base, h, step, T, stop
    <2> QED BY <2>1, <2>2, <2>3, <2>4 DEF Recurses
  <1>8. PICK f \in [Nat -> T] : \A n \in Nat : f[n] = Rhs(f, n, stop, base, h, step)
    <2> HIDE DEF T, stop, base, h, step
    <2> QED BY <1>7, RecursionTheorem
  <1>9. ASSUME NEW n \in Nat
        PROVE  f[n] = IF n < P THEN WordText(n) ELSE f[n \div P] \o Part(n % P)
    <2>1. f[n] = IF n \in stop THEN base[n] ELSE step[n][f[h[n]]] BY <1>8 DEF Rhs
    <2>2. \A x \in T : step[n][x] = x \o Part(n % P) OBVIOUS
    <2>3. h[n] = n \div P /\ f[h[n]] \in T BY <1>3
    <2>4. n \in stop <=> n < P OBVIOUS
    <2>5. base[n] = WordText(n) OBVIOUS
    <2> HIDE DEF step, h, base, T, stop
    <2> QED BY <2>1, <2>2, <2>3, <2>4, <2>5
  <1> DEFINE Next1(w) == [m \in Nat |-> IF m < P THEN WordText(m)
                                        ELSE w[m \div P] \o Part(m % P)]
  <1>10. f = Next1(f) BY <1>9
  <1>11. t = Next1(t) BY <1>10
  <1> HIDE DEF t
  <1>12. ASSUME NEW m \in Nat
         PROVE  /\ m < P => t[m] = WordText(m)
                /\ m >= P => t[m] = t[m \div P] \o Part(m % P)
    <2>1. m >= P => ~(m < P) BY <1>2
    <2>2. t[m] = IF m < P THEN WordText(m) ELSE t[m \div P] \o Part(m % P)
      BY <1>11, Zenon
    <2> QED BY <2>1, <2>2, Zenon
  <1> DEFINE S == {m \in Nat : t[m] \in T}
  <1>13. ASSUME NEW m \in Nat, \A k \in Nat : k < m => k \in S PROVE m \in S
    <2>1. CASE m < P BY <1>5, <1>12, <2>1, Zenon
    <2>2. CASE m >= P
      <3>1. t[m \div P] \in T BY <1>3, <1>13, <2>2
      <3>2. t[m] = t[m \div P] \o Part(m % P) BY <1>12, <2>2, Zenon
      <3> QED BY <1>6, <3>1, <3>2
    <2> QED BY <1>2, <2>1, <2>2
  <1> HIDE DEF S
  <1>14. Nat \subseteq S BY <1>13, StrongInduction
  <1>15. \A n \in Nat : t[n] \in T BY <1>14 DEF S
  <1> QED BY <1>1, <1>3, <1>12, <1>15, Zenon DEF P

(* String(BigUInt), which prints word by word and fills the words in the   *)
(* middle with zeros, prints what a digit-by-digit conversion would.       *)
THEOREM PrintingByWords == \A n \in Nat : MagnitudeText(n) = WordText(n)
  <1> DEFINE P == Power(10)
             Good(m) == /\ Len(MagnitudeText(m)) \in Nat \ {0}
                        /\ Value(MagnitudeText(m), 10) = m
                        /\ MagnitudeText(m)[1] = "0" => m = 0 /\ Len(MagnitudeText(m)) = 1
             S == {m \in Nat : Good(m)}
  <1>1. 10 \in Radixes BY DEF Radixes
  <1>2. P \in Nat \ {0} BY <1>1, CharsPerWord
  <1>3. ASSUME NEW m \in Nat, \A k \in Nat : k < m => k \in S PROVE Good(m)
    <2>1. CASE m < P
      <3>1. MagnitudeText(m) = WordText(m) BY <2>1, MagnitudeTextEquation, Zenon
      <3> QED BY <3>1, WordTextFacts
    <2>2. CASE m >= P
      <3> DEFINE q == m \div P
                 r == m % P
                 s == MagnitudeText(q)
                 w == Part(r)
      <3>1. q \in Nat /\ r \in Nat /\ r < P /\ m = q * P + r /\ q < m /\ q # 0
        <4>1. P >= 10 BY <1>1, CharsPerWord
        <4> HIDE DEF P
        <4> QED BY <1>2, <2>2, <4>1
      <3>2. Good(q) BY <1>3, <3>1
      <3>3. MagnitudeText(m) = s \o w BY <2>2, MagnitudeTextEquation, Zenon
      <3>4. /\ w \in Seq(Numerals(10)) /\ Len(w) = charsPerWord(10)
            /\ Value(w, 10) = r
        BY <3>1, PartFacts
      <3>5. s \in Seq(Numerals(10)) BY <3>1, MagnitudeTextEquation, Zenon
      <3>6. Len(s) \in Nat \ {0} /\ Value(s, 10) = q /\ s[1] # "0" BY <3>1, <3>2
      <3> HIDE DEF q, r, s, w
      <3>7. Value(s \o w, 10) = Value(s, 10) * Pow(10, Len(w)) + Value(w, 10)
        BY <1>1, <3>4, <3>5, ValueConcat
      <3>8. Pow(10, Len(w)) = P BY <3>4 DEF Power
      <3>9. Len(s \o w) \in Nat \ {0} /\ (s \o w)[1] = s[1]
        <4>1. Len(s \o w) = Len(s) + Len(w) /\ Len(w) \in Nat BY <3>4, <3>5
        <4>2. (s \o w)[1] = s[1] BY <3>4, <3>5, <3>6
        <4> QED BY <3>6, <4>1, <4>2
      <3> QED BY <3>1, <3>3, <3>4, <3>6, <3>7, <3>8, <3>9
    <2> QED BY <1>2, <2>1, <2>2
  <1>4. \A m \in Nat : (\A k \in Nat : k < m => k \in S) => m \in S BY <1>3
  <1> HIDE DEF S
  <1>5. Nat \subseteq S BY <1>4, StrongInduction
  <1> TAKE n \in Nat
  <1> DEFINE s == MagnitudeText(n)
  <1>6. Good(n) BY <1>5 DEF S
  <1>7. s \in Seq(Numerals(10)) BY MagnitudeTextEquation, Zenon
  <1>8. Canonical(s)
    <2>1. Len(s) \in Nat \ {0} /\ (s[1] = "0" => Len(s) = 1) BY <1>6
    <2> HIDE DEF s
    <2>2. s # <<>> BY <2>1
    <2>3. IsNumeral(s, 10) BY <1>1, <1>7, <2>2, NumeralFacts
    <2> QED BY <2>1, <2>3 DEF Canonical
  <1>9. Value(s, 10) = n BY <1>6
  <1> HIDE DEF s
  <1>10. s = WordText(n) BY <1>7, <1>8, <1>9, CanonicalUnique
  <1> QED BY <1>10 DEF s

(* Powers grow with the exponent.                                          *)
LEMMA PowMonotone ==
    ASSUME NEW b \in Nat \ {0}, NEW m \in Nat, NEW n \in Nat, m <= n
    PROVE  Pow(b, m) <= Pow(b, n)
  <1> DEFINE S == {k \in Nat : Pow(b, m) <= Pow(b, m + k)}
  <1>1. \A k \in Nat : Pow(b, k) \in Nat \ {0} /\ Pow(b, k + 1) = b * Pow(b, k)
    BY PowEquation
  <1>2. 0 \in S
    <2>1. m + 0 = m /\ Pow(b, m) \in Nat BY <1>1
    <2>2. Pow(b, m) <= Pow(b, m + 0) BY <2>1
    <2> QED BY <2>2
  <1>3. ASSUME NEW k \in Nat, k \in S PROVE k + 1 \in S
    <2> DEFINE x == Pow(b, m)
               y == Pow(b, m + k)
    <2>1. m + k \in Nat /\ m + (k + 1) = (m + k) + 1 OBVIOUS
    <2>2. x \in Nat /\ y \in Nat /\ Pow(b, (m + k) + 1) = b * y BY <1>1, <2>1
    <2>3. x <= y BY <1>3
    <2> HIDE DEF x, y
    <2>4. y <= b * y BY <2>2
    <2>5. x <= b * y BY <2>2, <2>3, <2>4
    <2> QED BY <2>1, <2>2, <2>5 DEF x
  <1> HIDE DEF S
  <1>4. Nat \subseteq S BY <1>2, <1>3, Induction
  <1>5. n - m \in Nat /\ m + (n - m) = n OBVIOUS
  <1>6. n - m \in S BY <1>4, <1>5
  <1> QED BY <1>5, <1>6 DEF S

(* Swift reads a text without signs that fits a word.                      *)
LEMMA WordOfFacts ==
    ASSUME NEW radix \in Radixes, NEW A, NEW t \in Seq(A), Plain(t),
           Len(t) <= charsPerWord(radix)
    PROVE  WordOf(t, radix) = IF IsNumeral(t, radix) THEN {Value(t, radix)} ELSE {}
  <1>1. 1 \in DOMAIN t BY DEF Plain
  <1>2. t[1] \notin Signs /\ t[1] # "-" BY <1>1 DEF Plain, Signs
  <1>3. WordOf(t, radix) = IF IsNumeral(t, radix)
                             THEN {Value(t, radix)} \intersect 0..(Pow(2, WordBits) - 1)
                             ELSE {}
    BY <1>2 DEF WordOf
  <1>4. ASSUME IsNumeral(t, radix)
        PROVE  Value(t, radix) \in 0..(Pow(2, WordBits) - 1)
    <2>1. t \in Seq(Numerals(radix)) BY <1>4, NumeralFacts
    <2>2. Value(t, radix) \in Nat /\ Value(t, radix) < Pow(radix, Len(t))
      BY <2>1, ValueEquation, ValueBound
    <2>3. radix \in Nat \ {0} /\ Len(t) \in Nat BY DEF Radixes
    <2>4. charsPerWord(radix) \in Nat BY CharsPerWord
    <2>5. Pow(radix, Len(t)) <= Power(radix) BY <2>3, <2>4, PowMonotone DEF Power
    <2>6. Power(radix) \in Nat /\ Power(radix) <= Pow(2, WordBits) BY CharsPerWord
    <2>7. Pow(radix, Len(t)) \in Nat BY <2>3, PowEquation
    <2>8. Pow(2, WordBits) \in Nat
      <3>1. 2 \in Nat \ {0} /\ WordBits \in Nat BY BoundAssumption
      <3> QED BY <3>1, PowEquation
    <2> QED BY <2>2, <2>5, <2>6, <2>7, <2>8
  <1> QED BY <1>3, <1>4

(* Where the chunks of s lie: the k-th from the right ends (k - 1) * n     *)
(* before the end of s, each starts behind the next one to the left, and   *)
(* the last one starts s.                                                  *)
LastOf(s, n, k) == Len(s) - (k - 1) * n
FirstOf(s, n, k) == IF Len(s) - k * n + 1 < 1 THEN 1 ELSE Len(s) - k * n + 1
NumberOf(s, n) == (Len(s) + n - 1) \div n

LEMMA ChunkFacts ==
    ASSUME NEW A, NEW s \in Seq(A), s # <<>>, NEW n \in Nat \ {0}
    PROVE  /\ NumberOf(s, n) \in Nat \ {0}
           /\ Chunks(s, n) = [k \in 1..NumberOf(s, n) |->
                                SubSeq(s, FirstOf(s, n, k), LastOf(s, n, k))]
           /\ LastOf(s, n, 1) = Len(s)
           /\ FirstOf(s, n, NumberOf(s, n)) = 1
           /\ \A k \in 1..NumberOf(s, n) :
                 /\ FirstOf(s, n, k) \in 1..LastOf(s, n, k)
                 /\ LastOf(s, n, k) \in 1..Len(s)
                 /\ LastOf(s, n, k) - FirstOf(s, n, k) + 1 <= n
           /\ \A k \in 1..(NumberOf(s, n) - 1) :
                 /\ LastOf(s, n, k + 1) = FirstOf(s, n, k) - 1
                 /\ LastOf(s, n, k) - FirstOf(s, n, k) + 1 = n
  <1> DEFINE L == Len(s)
             K == NumberOf(s, n)
  <1>1. L \in Nat \ {0} BY EmptySeq
  <1>2. Chunks(s, n) = [k \in 1..K |-> SubSeq(s, FirstOf(s, n, k), LastOf(s, n, k))]
    BY DEF Chunks, FirstOf, LastOf, NumberOf
  <1>3. \A k \in Int : LastOf(s, n, k) = L - k * n + n /\ (k - 1) * n = k * n - n
    BY <1>1 DEF LastOf
  <1>4. K \in Nat \ {0} /\ K * n >= L /\ K * n - n < L
    <2> DEFINE x == L + n - 1
    <2>1. x \in Nat /\ x >= n BY <1>1
    <2>2. K = x \div n BY DEF NumberOf
    <2> HIDE DEF x, K
    <2>3. K \in Nat /\ x = n * K + (x % n) /\ x % n \in 0..(n - 1) BY <2>1, <2>2
    <2>4. K # 0 BY <2>1, <2>3
    <2>5. n * K = K * n /\ K * n \in Nat BY <2>3
    <2>6. L = x - n + 1 BY <1>1 DEF x
    <2> QED BY <1>1, <2>1, <2>3, <2>4, <2>5, <2>6
  <1> HIDE DEF K
  <1>5. \A k \in Nat : k <= K - 1 => k * n <= K * n - n
    <2> SUFFICES ASSUME NEW k \in Nat, k <= K - 1 PROVE k * n <= K * n - n OBVIOUS
    <2>1. K - 1 \in Nat /\ k * n <= (K - 1) * n BY <1>4
    <2>2. (K - 1) * n = K * n - n BY <1>3, <1>4
    <2> QED BY <2>1, <2>2
  <1>6. \A k \in Nat : k * n \in Nat OBVIOUS
  <1>7. ASSUME NEW k \in 1..K
        PROVE  /\ LastOf(s, n, k) \in 1..L
               /\ FirstOf(s, n, k) \in 1..LastOf(s, n, k)
               /\ LastOf(s, n, k) - FirstOf(s, n, k) + 1 <= n
    <2>1. k - 1 \in Nat /\ k \in Nat /\ k - 1 <= K - 1 BY <1>4
    <2>2. (k - 1) * n \in Nat /\ (k - 1) * n <= K * n - n /\ (k - 1) * n = k * n - n /\ k * n \in Nat
      BY <1>3, <1>5, <1>6, <2>1
    <2>3. LastOf(s, n, k) = L - (k - 1) * n BY DEF LastOf
    <2>4. FirstOf(s, n, k) = IF L - k * n + 1 < 1 THEN 1 ELSE L - k * n + 1
      BY DEF FirstOf
    <2> HIDE DEF L
    <2> QED BY <1>1, <1>4, <2>2, <2>3, <2>4
  <1>8. ASSUME NEW k \in 1..(K - 1)
        PROVE  /\ LastOf(s, n, k + 1) = FirstOf(s, n, k) - 1
               /\ LastOf(s, n, k) - FirstOf(s, n, k) + 1 = n
    <2>1. k \in Nat /\ k <= K - 1 /\ k + 1 \in Nat BY <1>4
    <2>2. k * n \in Nat /\ k * n < L BY <1>1, <1>4, <1>5, <1>6, <2>1
    <2>3. LastOf(s, n, k + 1) = L - k * n
      <3>1. (k + 1) - 1 = k BY <2>1
      <3> QED BY <3>1 DEF LastOf
    <2>4. LastOf(s, n, k) = L - k * n + n BY <1>3, <2>1
    <2>5. FirstOf(s, n, k) = IF L - k * n + 1 < 1 THEN 1 ELSE L - k * n + 1
      BY DEF FirstOf
    <2> HIDE DEF L
    <2>6. FirstOf(s, n, k) = L - k * n + 1 BY <1>1, <2>2, <2>5
    <2> QED BY <1>1, <2>2, <2>3, <2>4, <2>6
  <1>9. LastOf(s, n, 1) = L BY <1>1 DEF LastOf
  <1>10. FirstOf(s, n, K) = 1
    <2>1. K * n \in Nat BY <1>4, <1>6
    <2>2. FirstOf(s, n, K) = IF L - K * n + 1 < 1 THEN 1 ELSE L - K * n + 1
      BY DEF FirstOf
    <2> HIDE DEF L
    <2> QED BY <1>1, <1>4, <2>1, <2>2
  <1> QED BY <1>2, <1>4, <1>7, <1>8, <1>9, <1>10 DEF K

(* Every position of s lies in a chunk.                                    *)
LEMMA ChunksCover ==
    ASSUME NEW A, NEW s \in Seq(A), NEW n \in Nat \ {0}, NEW i \in 1..Len(s)
    PROVE  \E k \in 1..NumberOf(s, n) : i \in FirstOf(s, n, k)..LastOf(s, n, k)
  <1> DEFINE K == NumberOf(s, n)
             First(k) == FirstOf(s, n, k)
             Last(k) == LastOf(s, n, k)
             S == {k \in 1..K : First(k) <= i}
  <1>1. s # <<>> /\ Len(s) \in Nat OBVIOUS
  <1>2. /\ K \in Nat \ {0} /\ Last(1) = Len(s) /\ First(K) = 1
        /\ \A k \in 1..K : First(k) \in 1..Last(k) /\ Last(k) \in 1..Len(s)
        /\ \A k \in 1..(K - 1) : Last(k + 1) = First(k) - 1
    BY <1>1, ChunkFacts
  <1> HIDE DEF K, First, Last
  <1>3. S \subseteq Nat /\ K \in S BY <1>2
  <1>4. PICK k \in S : \A m \in S : k <= m
    <2> HIDE DEF S
    <2> QED BY <1>3, Least
  <1>5. k \in 1..K /\ First(k) <= i /\ Last(k) \in Nat /\ First(k) \in Nat
    BY <1>1, <1>2, <1>4
  <1>6. i <= Last(k)
    <2>1. CASE k = 1 BY <1>1, <1>2, <2>1
    <2>2. CASE k # 1
      <3>1. k - 1 \in 1..(K - 1) /\ k - 1 \in 1..K /\ (k - 1) + 1 = k BY <1>2, <1>5, <2>2
      <3>2. k - 1 \notin S BY <1>2, <1>4, <1>5
      <3>3. First(k - 1) \in Nat /\ ~(First(k - 1) <= i) BY <1>1, <1>2, <3>1, <3>2
      <3>4. Last(k) = First(k - 1) - 1 BY <1>2, <3>1
      <3> QED BY <1>1, <3>3, <3>4
    <2> QED BY <2>1, <2>2
  <1> QED BY <1>5, <1>6 DEF K, First, Last

(* BigUInt(text, radix:), which reads word by word, gives the value of a   *)
(* numeral, and nil for any other text without signs.                      *)
THEOREM ParsingByWords ==
    ASSUME NEW radix \in Radixes, NEW A, NEW s \in Seq(A), Plain(s)
    PROVE  BigUInt(s, radix) = IF IsNumeral(s, radix) THEN {Value(s, radix)} ELSE {}
  <1> DEFINE c == charsPerWord(radix)
             chunks == Chunks(s, c)
             words == [k \in DOMAIN chunks |-> WordOf(chunks[k], radix)]
             Word(k) == CHOOSE w \in words[k] : TRUE
             number[k \in 0..Len(words)] ==
                IF k = 0 THEN 0
                ELSE number[k - 1] * Power(radix) + Word(Len(words) - k + 1)
             K == NumberOf(s, c)
             First(k) == FirstOf(s, c, k)
             Last(k) == LastOf(s, c, k)
             L == Len(s)
  <1>1. BigUInt(s, radix) = IF \E k \in DOMAIN words : words[k] = {}
                              THEN {} ELSE {number[Len(words)]}
    BY DEF BigUInt
  <1>2. c \in Nat \ {0} BY CharsPerWord
  <1>3. s # <<>> /\ L \in Nat /\ \A i \in 1..L : s[i] \in A /\ s[i] \notin Signs
    BY DEF Plain
  <1>4. /\ K \in Nat \ {0} /\ Last(1) = L /\ First(K) = 1
        /\ chunks = [k \in 1..K |-> SubSeq(s, First(k), Last(k))]
        /\ \A k \in 1..K : /\ First(k) \in 1..Last(k) /\ Last(k) \in 1..L
                           /\ Last(k) - First(k) + 1 <= c
        /\ \A k \in 1..(K - 1) : /\ Last(k + 1) = First(k) - 1
                                 /\ Last(k) - First(k) + 1 = c
    <2> HIDE DEF c
    <2> QED BY <1>2, <1>3, ChunkFacts
  <1> HIDE DEF c, chunks, K, First, Last
  <1>4a. K \in Nat \ {0} BY <1>4
  <1>4b. \A k \in 1..K : /\ First(k) \in 1..Last(k) /\ Last(k) \in 1..L
                         /\ Last(k) - First(k) + 1 <= c
    BY <1>4
  <1>5. DOMAIN words = 1..K /\ Len(words) = K /\ \A k \in 1..K : words[k] = WordOf(chunks[k], radix)
    BY <1>4
  <1> HIDE DEF words
  <1>6. ASSUME NEW k \in 1..K
        PROVE  /\ chunks[k] = SubSeq(s, First(k), Last(k))
               /\ chunks[k] \in Seq(A) /\ Len(chunks[k]) = Last(k) - First(k) + 1
               /\ \A i \in 1..(Last(k) - First(k) + 1) : chunks[k][i] = s[First(k) + i - 1]
               /\ First(k) \in Nat \ {0} /\ Last(k) \in Nat
               /\ First(k) <= Last(k) /\ Last(k) <= L
               /\ Len(chunks[k]) <= c
    <2>1. /\ First(k) \in Nat \ {0} /\ Last(k) \in Nat
          /\ First(k) <= Last(k) /\ Last(k) <= L /\ Last(k) - First(k) + 1 <= c
      BY <1>2, <1>3, <1>4a, <1>4b
    <2>2. chunks[k] = SubSeq(s, First(k), Last(k)) BY <1>4
    <2>3. \A i \in First(k)..Last(k) : s[i] \in A BY <1>3, <2>1
    <2> DEFINE f == First(k)
               l == Last(k)
    <2>4. f \in Int /\ l \in Int /\ f <= l BY <2>1
    <2> HIDE DEF f, l
    <2>5. /\ SubSeq(s, f, l) \in Seq(A)
          /\ Len(SubSeq(s, f, l)) = l - f + 1
          /\ \A i \in 1..(l - f + 1) : SubSeq(s, f, l)[i] = s[f + i - 1]
      BY <2>3, <2>4, SubSeqProperties DEF f, l
    <2> QED BY <2>1, <2>2, <2>5 DEF f, l
  <1>7. ASSUME NEW k \in 1..K
        PROVE  words[k] = IF IsNumeral(chunks[k], radix)
                            THEN {Value(chunks[k], radix)} ELSE {}
    <2>1. Plain(chunks[k])
      <3> DEFINE d == chunks[k]
      <3>1. d \in Seq(A) /\ Len(d) \in Nat \ {0} BY <1>6
      <3>2. \A i \in 1..Len(d) : d[i] \notin Signs
        <4> TAKE i \in 1..Len(d)
        <4>1. d[i] = s[First(k) + i - 1] BY <1>6
        <4>2. First(k) + i - 1 \in 1..L BY <1>3, <1>6
        <4> QED BY <1>3, <4>1, <4>2
      <3> HIDE DEF d
      <3>3. d # <<>> /\ DOMAIN d = 1..Len(d) BY <3>1
      <3>4. Plain(d) BY <3>2, <3>3 DEF Plain
      <3> QED BY <3>4 DEF d
    <2>2. WordOf(chunks[k], radix) = IF IsNumeral(chunks[k], radix)
                                       THEN {Value(chunks[k], radix)} ELSE {}
      BY <1>6, <2>1, WordOfFacts DEF c
    <2> QED BY <1>5, <2>2
  <1>8. CASE ~IsNumeral(s, radix)
    <2>1. PICK i \in 1..L : ~IsDigit(s[i], radix) BY <1>3, <1>8 DEF IsNumeral
    <2>2. PICK k \in 1..K : i \in First(k)..Last(k)
      BY <1>2, ChunksCover DEF K, First, Last
    <2> DEFINE j == i - First(k) + 1
    <2>3. j \in 1..(Last(k) - First(k) + 1) /\ First(k) + j - 1 = i BY <1>6, <2>2
    <2> HIDE DEF j
    <2>4. chunks[k][j] = s[i] /\ j \in DOMAIN chunks[k]
      <3>1. chunks[k][j] = s[First(k) + j - 1] BY <1>6, <2>3
      <3>2. chunks[k] \in Seq(A) /\ j \in 1..Len(chunks[k]) BY <1>6, <2>3
      <3>3. j \in DOMAIN chunks[k] BY <3>2
      <3> QED BY <2>3, <3>1, <3>3
    <2>5. ~IsNumeral(chunks[k], radix) BY <2>1, <2>4 DEF IsNumeral
    <2>6. words[k] = {} BY <1>7, <2>5
    <2> QED BY <1>1, <1>5, <1>8, <2>6
  <1>9. CASE IsNumeral(s, radix)
    <2> DEFINE D == Numerals(radix)
               V(t) == Value(t, radix)
               P == Power(radix)
    <2>1. s \in Seq(D) BY <1>9, NumeralFacts
    <2>2. ASSUME NEW k \in 1..K
          PROVE  /\ chunks[k] \in Seq(D)
                 /\ words[k] = {V(chunks[k])} /\ Word(k) = V(chunks[k])
                 /\ V(chunks[k]) \in Nat
      <3>1. chunks[k] \in Seq(D)
        <4>1. \A i \in First(k)..Last(k) : s[i] \in D BY <1>6, <2>1
        <4>2. First(k) \in Int /\ Last(k) \in Int BY <1>6
        <4>3. SubSeq(s, First(k), Last(k)) \in Seq(D) BY <4>1, <4>2, SubSeqProperties
        <4> QED BY <1>6, <4>3
      <3>2. chunks[k] # <<>> BY <1>6
      <3>3. IsNumeral(chunks[k], radix) BY <3>1, <3>2, NumeralFacts
      <3>4. words[k] = {V(chunks[k])} BY <1>7, <3>3
      <3>5. Word(k) = V(chunks[k]) BY <3>4
      <3> QED BY <3>1, <3>4, <3>5, ValueEquation
    <2> HIDE DEF Word
    <2>3. P \in Nat BY CharsPerWord
    <2> HIDE DEF P
    <2>4. \A k \in 0..K : number[k] = IF k = 0 THEN 0 ELSE number[k - 1] * P + Word(K - k + 1)
      <3> DEFINE d == [n \in Nat |-> IF n \in 1..K THEN Word(K - n + 1) ELSE 0]
                 Next1(f) == [k \in 0..K |-> IF k = 0 THEN 0
                                             ELSE f[k - 1] * P + Word(K - k + 1)]
      <3>1. d \in [Nat -> Nat] /\ \A n \in 1..K : d[n] = Word(K - n + 1)
        <4>1. ASSUME NEW n \in 1..K PROVE Word(K - n + 1) \in Nat
          <5>1. K - n + 1 \in 1..K BY <1>4a
          <5> QED BY <2>2, <5>1
        <4> QED BY <1>4a, <4>1
      <3> HIDE DEF d
      <3>2. PICK f \in [Nat -> Nat] : Linear(f, 0, P, d) BY <2>3, <3>1, LinearRecursion
      <3> DEFINE g == [k \in 0..K |-> f[k]]
      <3>3. g = Next1(g)
        <4>1. ASSUME NEW k \in 0..K
              PROVE  f[k] = IF k = 0 THEN 0 ELSE g[k - 1] * P + Word(K - k + 1)
          <5>1. k \in Nat /\ f[k] = IF k = 0 THEN 0 ELSE f[k - 1] * P + d[k]
            BY <1>4a, <3>2 DEF Linear
          <5>2. k # 0 => k \in 1..K /\ k - 1 \in 0..K BY <1>4a
          <5>3. k # 0 => g[k - 1] = f[k - 1] /\ d[k] = Word(K - k + 1) BY <3>1, <5>2
          <5> HIDE DEF g
          <5> QED BY <5>1, <5>3
        <4> QED BY <4>1
      <3>4. number = Next1(number)
        <4> HIDE DEF g
        <4> QED BY <1>5, <3>3 DEF P
      <3> HIDE DEF number
      <3> QED BY <3>4
    <2> HIDE DEF number
    <2> DEFINE S == {j \in Nat : j <= K =>
                       number[j] = IF j = 0 THEN 0 ELSE V(SubSeq(s, 1, Last(K - j + 1)))}
    <2>5. 0 \in S
      <3>1. 0 \in 0..K BY <1>4a
      <3>2. number[0] = 0 BY <2>4, <3>1
      <3> QED BY <3>2
    <2>6. ASSUME NEW j \in Nat, j \in S PROVE j + 1 \in S
      <3> SUFFICES ASSUME j + 1 <= K
                   PROVE  number[j + 1] = V(SubSeq(s, 1, Last(K - (j + 1) + 1)))
        OBVIOUS
      <3> DEFINE k == K - j
      <3>1. /\ k \in 1..K /\ K - (j + 1) + 1 = k /\ j + 1 \in 0..K /\ (j + 1) - 1 = j
            /\ K - j + 1 = k + 1
        BY <1>4
      <3>2. number[j + 1] = number[j] * P + V(chunks[k])
        <4>1. number[j + 1] = number[j] * P + Word(k) BY <2>4, <3>1
        <4> QED BY <2>2, <3>1, <4>1
      <3>3. CASE j = 0
        <4>1. number[j] = 0 BY <2>4, <3>3, <1>4a
        <4>2. k = K BY <1>4, <3>3
        <4>3. chunks[k] = SubSeq(s, 1, Last(k)) BY <1>4, <1>6, <3>1, <4>2
        <4>4. V(chunks[k]) \in Nat BY <2>2, <3>1
        <4>5. number[j + 1] = V(chunks[k]) BY <2>3, <3>2, <4>1, <4>4
        <4> QED BY <3>1, <4>3, <4>5
      <3>4. CASE j # 0
        <4> DEFINE a == SubSeq(s, 1, First(k) - 1)
        <4>1. k \in 1..(K - 1) BY <1>4, <3>1, <3>4
        <4>2. Last(k + 1) = First(k) - 1 /\ Len(chunks[k]) = c BY <1>4, <1>6, <3>1, <4>1
        <4>3. number[j] = V(a)
          <5>1. number[j] = V(SubSeq(s, 1, Last(K - j + 1))) BY <1>4, <2>6, <3>4
          <5> QED BY <3>1, <4>2, <5>1
        <4>4. a \in Seq(D)
          <5>1. \A i \in 1..(First(k) - 1) : s[i] \in D BY <1>6, <2>1, <3>1
          <5>2. 1 \in Int /\ First(k) - 1 \in Int BY <1>6, <3>1
          <5> QED BY <5>1, <5>2, SubSeqProperties
        <4>5. a \o chunks[k] = SubSeq(s, 1, Last(k))
          <5>1. /\ 1 \in 1..(Len(s) + 1) /\ First(k) - 1 \in (1 - 1)..Len(s)
                /\ Last(k) \in (First(k) - 1)..Len(s) /\ (First(k) - 1) + 1 = First(k)
            BY <1>3, <1>6, <3>1
          <5>2. SubSeq(s, 1, First(k) - 1) \o SubSeq(s, (First(k) - 1) + 1, Last(k))
                  = SubSeq(s, 1, Last(k))
            BY <5>1, ConcatAdjacentSubSeq
          <5> QED BY <1>6, <3>1, <5>1, <5>2
        <4> HIDE DEF a
        <4>6. V(a \o chunks[k]) = V(a) * Pow(radix, Len(chunks[k])) + V(chunks[k])
          BY <2>2, <3>1, <4>4, ValueConcat
        <4>7. Pow(radix, Len(chunks[k])) = P BY <4>2 DEF Power, P, c
        <4> QED BY <3>1, <3>2, <4>3, <4>5, <4>6, <4>7
      <3> QED BY <3>3, <3>4
    <2> HIDE DEF S
    <2>7. Nat \subseteq S BY <2>5, <2>6, Induction
    <2>8. number[K] = V(s)
      <3>1. K \in S BY <1>4, <2>7
      <3>2. K # 0 /\ K <= K /\ K - K + 1 = 1 BY <1>4
      <3>3. number[K] = V(SubSeq(s, 1, Last(1))) BY <3>1, <3>2 DEF S
      <3>4. SubSeq(s, 1, Last(1)) = s BY <1>4, SubSeqFull
      <3> QED BY <3>3, <3>4
    <2>9. \A k \in 1..K : words[k] # {} BY <2>2
    <2> QED BY <1>1, <1>5, <1>9, <2>8, <2>9
  <1> QED BY <1>8, <1>9

(* BigInt takes a sign off and leaves the rest to BigUInt.                 *)
LEMMA BigIntFacts ==
    ASSUME NEW radix \in Radixes, NEW A, NEW s \in Seq(A), Plain(Body(s))
    PROVE  /\ Body(s) \in Seq(A)
           /\ BigInt(s, radix) =
                 IF IsNumeral(Body(s), radix)
                   THEN {[minus |-> HasSign(s) /\ s[1] = "-",
                          magnitude |-> Value(Body(s), radix)]}
                   ELSE {}
  <1>1. Body(s) \in Seq(A) BY DEF Body, HasSign
  <1>2. BigInt(s, radix) = {[minus |-> HasSign(s) /\ s[1] = "-", magnitude |-> m] :
                              m \in BigUInt(Body(s), radix)}
    BY DEF BigInt, HasSign, Body
  <1>3. BigUInt(Body(s), radix) =
           IF IsNumeral(Body(s), radix) THEN {Value(Body(s), radix)} ELSE {}
    BY <1>1, ParsingByWords
  <1>4. CASE IsNumeral(Body(s), radix) BY <1>1, <1>2, <1>3, <1>4
  <1>5. CASE ~IsNumeral(Body(s), radix) BY <1>1, <1>2, <1>3, <1>5
  <1> QED BY <1>4, <1>5

(* What WordText writes is canonical.                                      *)
LEMMA WordTextCanonical == \A n \in Nat : Canonical(WordText(n))
  <1> TAKE n \in Nat
  <1> DEFINE s == WordText(n)
  <1>1. 10 \in Radixes BY DEF Radixes
  <1>2. s \in Seq(Numerals(10)) BY WordTextEquation, Zenon
  <1>3. Len(s) \in Nat \ {0} /\ (s[1] = "0" => Len(s) = 1) BY WordTextFacts
  <1> HIDE DEF s
  <1>4. s # <<>> BY <1>3
  <1>5. IsNumeral(s, 10) BY <1>1, <1>2, <1>4, NumeralFacts
  <1>6. Canonical(s) BY <1>3, <1>5 DEF Canonical
  <1> QED BY <1>6 DEF s

(* A minus in front can be taken off again.                                *)
LEMMA BehindMinus ==
    ASSUME NEW A, NEW s, NEW w \in Seq(A)
    PROVE  SubSeq(Minus(s) \o w, Len(Minus(s)) + 1, Len(Minus(s) \o w)) = w
  <1> DEFINE B == A \union {"-"}
             m == Minus(s)
  <1>1. m \in Seq(B)
    <2>1. <<>> \in Seq(B) /\ <<"-">> \in Seq(B) OBVIOUS
    <2>2. m = <<>> \/ m = <<"-">> BY DEF Minus
    <2> HIDE DEF B, m
    <2> QED BY <2>1, <2>2
  <1>2. w \in Seq(B) BY SeqMonotonic
  <1> HIDE DEF m, B
  <1> DEFINE mw == m \o w
             t == SubSeq(mw, Len(m) + 1, Len(mw))
  <1>3. /\ mw \in Seq(B) /\ Len(mw) = Len(m) + Len(w) /\ Len(m) \in Nat /\ Len(w) \in Nat
        /\ \A i \in 1..Len(w) : mw[Len(m) + i] = w[i]
    BY <1>1, <1>2
  <1> HIDE DEF mw
  <1>4. \A i \in (Len(m) + 1)..Len(mw) : mw[i] \in B BY <1>3
  <1>5. /\ t \in Seq(B) /\ Len(t) = Len(w)
        /\ \A i \in 1..Len(w) : t[i] = mw[Len(m) + i]
    <2> DEFINE f == Len(m) + 1
               l == Len(mw)
    <2>1. f \in Int /\ l \in Int /\ l - f + 1 = Len(w) /\ (f <= l <=> Len(w) # 0) BY <1>3
    <2>2. \A i \in Nat : f + i - 1 = Len(m) + i BY <1>3
    <2> HIDE DEF f, l
    <2>3. /\ SubSeq(mw, f, l) \in Seq(B)
          /\ Len(SubSeq(mw, f, l)) = IF f <= l THEN l - f + 1 ELSE 0
          /\ \A i \in 1..(l - f + 1) : SubSeq(mw, f, l)[i] = mw[f + i - 1]
      BY <1>4, <2>1, SubSeqProperties DEF f, l
    <2>4. Len(SubSeq(mw, f, l)) = Len(w) BY <1>3, <2>1, <2>3
    <2>5. ASSUME NEW i \in 1..Len(w) PROVE SubSeq(mw, f, l)[i] = mw[Len(m) + i]
      <3>1. i \in 1..(l - f + 1) /\ f + i - 1 = Len(m) + i BY <1>3, <2>1, <2>2
      <3> QED BY <2>3, <3>1
    <2> QED BY <2>3, <2>4, <2>5 DEF f, l
  <1> HIDE DEF t
  <1>6. t = w BY <1>2, <1>3, <1>5, SeqEqual
  <1> QED BY <1>6 DEF t, mw, m

(* hexStringToDecimalString agrees with the reference on every text.       *)
LEMMA HexOfText == ASSUME text \in Seq(Chars) PROVE HexAgrees
  <1> DEFINE hex == WithoutPrefix(text)
             body == Body(hex)
             result == hexStringToDecimalString(text)
             v == [minus |-> HasSign(hex) /\ hex[1] = "-", magnitude |-> Value(body, 16)]
             w == WordText(Value(body, 16))
             s == Minus(hex) \o w
  <1>1. 16 \in Radixes /\ 10 \in Radixes BY DEF Radixes
  <1>2. hex \in Seq(Chars)
    <2>1. CASE Len(text) >= 2 /\ text[1] = "0" /\ text[2] = "x"
      <3>1. hex = SubSeq(text, 3, Len(text)) BY <2>1 DEF WithoutPrefix
      <3>2. \A i \in 3..Len(text) : text[i] \in Chars OBVIOUS
      <3>3. 3 \in Int /\ Len(text) \in Int OBVIOUS
      <3> QED BY <3>1, <3>2, <3>3, SubSeqProperties
    <2>2. CASE ~(Len(text) >= 2 /\ text[1] = "0" /\ text[2] = "x")
      BY <2>2 DEF WithoutPrefix
    <2> QED BY <2>1, <2>2
  <1>3. result = {DecimalText(x) : x \in BigInt(hex, 16)} BY DEF hexStringToDecimalString
  <1> HIDE DEF hex
  <1> SUFFICES ASSUME Plain(body)
               PROVE  IF IsNumeral(body, 16)
                        THEN \E x \in result :
                                \E n \in {SubSeq(x, Len(Minus(hex)) + 1, Len(x))} :
                                    /\ x = Minus(hex) \o n
                                    /\ Canonical(n)
                                    /\ Value(n, 10) = Value(body, 16)
                        ELSE result = {}
    BY DEF HexAgrees, hex
  <1>4. body \in Seq(Chars) /\ BigInt(hex, 16) = IF IsNumeral(body, 16) THEN {v} ELSE {}
    BY <1>1, <1>2, BigIntFacts
  <1>5. CASE ~IsNumeral(body, 16) BY <1>3, <1>4, <1>5
  <1>6. CASE IsNumeral(body, 16)
    <2>1. Value(body, 16) \in Nat
      <3>1. body \in Seq(Numerals(16)) BY <1>1, <1>4, <1>6, NumeralFacts
      <3> QED BY <1>1, <3>1, ValueEquation
    <2>2. DecimalText(v) = s
      <3>1. MagnitudeText(Value(body, 16)) = w BY <2>1, PrintingByWords
      <3> QED BY <3>1 DEF DecimalText, Minus
    <2>3. result = {s} BY <1>3, <1>4, <1>6, <2>2
    <2>4. w \in Seq(Numerals(10)) BY <2>1, WordTextEquation, Zenon
    <2>5. Canonical(w) /\ Value(w, 10) = Value(body, 16)
      BY <2>1, WordTextCanonical, WordTextFacts
    <2>6. SubSeq(s, Len(Minus(hex)) + 1, Len(s)) = w BY <2>4, BehindMinus
    <2> HIDE DEF result, w
    <2> QED BY <1>6, <2>3, <2>5, <2>6
  <1> QED BY <1>5, <1>6

(* Without its leading zeros a numeral has the same value and is canonical. *)
LEMMA LeadingZeros ==
    ASSUME NEW s \in Seq(Numerals(10)), Value(s, 10) # 0
    PROVE  \E k \in 1..Len(s) :
              /\ s[k] # "0" /\ \A i \in 1..(k - 1) : s[i] = "0"
              /\ SubSeq(s, k, Len(s)) \in Seq(Numerals(10))
              /\ Len(SubSeq(s, k, Len(s))) \in Nat \ {0}
              /\ SubSeq(s, k, Len(s))[1] = s[k]
              /\ Value(SubSeq(s, k, Len(s)), 10) = Value(s, 10)
  <1> DEFINE D == Numerals(10)
             L == Len(s)
             Z(n) == [i \in 1..n |-> "0"]
             S == {k \in 1..L : s[k] # "0"}
  <1>1. 10 \in Radixes /\ L \in Nat BY DEF Radixes
  <1>2. S # {}
    <2> SUFFICES ASSUME S = {} PROVE FALSE OBVIOUS
    <2>1. Z(L) \in Seq(D) /\ Len(Z(L)) = L /\ Value(Z(L), 10) = 0 BY <1>1, ZerosFacts
    <2>2. \A i \in 1..L : Z(L)[i] = "0" /\ s[i] = "0" OBVIOUS
    <2> HIDE DEF Z
    <2>3. s = Z(L) BY <2>1, <2>2, SeqEqual
    <2> QED BY <2>1, <2>3
  <1>3. PICK k \in S : \A m \in S : k <= m
    <2>1. S \subseteq Nat OBVIOUS
    <2> HIDE DEF S
    <2> QED BY <1>2, <2>1, Least
  <1>4. k \in 1..L /\ s[k] # "0" BY <1>3
  <1>5. \A i \in 1..(k - 1) : s[i] = "0"
    <2> TAKE i \in 1..(k - 1)
    <2>1. i \in 1..L /\ ~(k <= i) BY <1>1, <1>4
    <2> QED BY <1>3, <2>1
  <1> DEFINE a == SubSeq(s, 1, k - 1)
             b == SubSeq(s, k, L)
  <1>6. /\ b \in Seq(D) /\ Len(b) = L - k + 1 /\ b[1] = s[k]
    <2>1. \A i \in k..L : s[i] \in D BY <1>1, <1>4
    <2>2. k \in Int /\ L \in Int /\ k <= L /\ 1 \in 1..(L - k + 1) /\ k + 1 - 1 = k
      BY <1>1, <1>4
    <2> HIDE DEF L
    <2>3. /\ b \in Seq(D) /\ Len(b) = IF k <= L THEN L - k + 1 ELSE 0
          /\ \A i \in 1..(L - k + 1) : b[i] = s[k + i - 1]
      BY <2>1, <2>2, SubSeqProperties
    <2> QED BY <2>2, <2>3
  <1>7. a = Z(k - 1)
    <2>1. k - 1 \in Nat BY <1>4
    <2>2. Z(k - 1) \in Seq(D) /\ Len(Z(k - 1)) = k - 1 BY <2>1, ZerosFacts
    <2>3. \A i \in 1..(k - 1) : s[i] \in D BY <1>1, <1>4
    <2>4. /\ a \in Seq(D) /\ Len(a) = k - 1
          /\ \A i \in 1..(k - 1) : a[i] = s[i]
      <3>1. 1 \in Int /\ k - 1 \in Int /\ (k - 1) - 1 + 1 = k - 1 BY <2>1
      <3>2. /\ a \in Seq(D) /\ Len(a) = IF 1 <= k - 1 THEN (k - 1) - 1 + 1 ELSE 0
            /\ \A i \in 1..((k - 1) - 1 + 1) : a[i] = s[1 + i - 1]
        BY <2>3, <3>1, SubSeqProperties
      <3>3. \A i \in Int : 1 + i - 1 = i OBVIOUS
      <3> HIDE DEF a
      <3>4. Len(a) = k - 1 BY <2>1, <3>1, <3>2
      <3> QED BY <3>1, <3>2, <3>3, <3>4
    <2>5. \A i \in 1..(k - 1) : Z(k - 1)[i] = "0" OBVIOUS
    <2> HIDE DEF a, Z
    <2> QED BY <1>5, <2>1, <2>2, <2>4, <2>5, SeqEqual
  <1>8. Value(a, 10) = 0 /\ a \in Seq(D)
    <2>1. k - 1 \in Nat BY <1>4
    <2> QED BY <1>7, <2>1, ZerosFacts
  <1>9. a \o b = s
    <2>1. /\ 1 \in 1..(Len(s) + 1) /\ k - 1 \in (1 - 1)..Len(s)
          /\ Len(s) \in (k - 1)..Len(s) /\ (k - 1) + 1 = k
      BY <1>1, <1>4
    <2>2. SubSeq(s, 1, k - 1) \o SubSeq(s, (k - 1) + 1, Len(s)) = SubSeq(s, 1, Len(s))
      BY <2>1, ConcatAdjacentSubSeq
    <2>3. SubSeq(s, 1, Len(s)) = s BY SubSeqFull
    <2> QED BY <2>1, <2>2, <2>3
  <1> HIDE DEF a, b
  <1>10. Value(a \o b, 10) = Value(a, 10) * Pow(10, Len(b)) + Value(b, 10)
    BY <1>1, <1>6, <1>8, ValueConcat
  <1>11. Len(b) \in Nat \ {0} BY <1>1, <1>4, <1>6
  <1>12. Pow(10, Len(b)) \in Nat /\ Value(b, 10) \in Nat
    <2>1. 10 \in Nat \ {0} OBVIOUS
    <2> QED BY <1>1, <1>6, <1>11, <2>1, PowEquation, ValueEquation
  <1>13. Value(b, 10) = Value(s, 10) BY <1>8, <1>9, <1>10, <1>12
  <1> QED BY <1>4, <1>5, <1>6, <1>11, <1>13 DEF b

(* The parameter of a deposit agrees with the reference on every text.     *)
LEMMA DepositOfText == ASSUME text \in Seq(Chars) PROVE DepositAgrees
  <1> DEFINE body == Body(text)
             result == DepositParameter(text)
             sign == HasSign(text) /\ text[1] = "-"
             value == Value(body, 10)
             zeros == [i \in 1..Zeros |-> "0"]
             Scaled(v) == [minus |-> v.minus /\ v.magnitude # 0,
                           magnitude |-> v.magnitude * Pow(10, Zeros)]
             v0 == [minus |-> sign, magnitude |-> value]
  <1>1. 10 \in Radixes BY DEF Radixes
  <1>2. result = {DecimalText(Scaled(v)) : v \in BigInt(text, 10)} BY DEF DepositParameter
  <1> SUFFICES ASSUME Plain(body)
               PROVE  IF IsNumeral(body, 10)
                        THEN \/ value = 0 /\ result = {<<"0">>}
                             \/ \E k \in DOMAIN body :
                                   /\ body[k] # "0" /\ \A i \in 1..(k - 1) : body[i] = "0"
                                   /\ result = {Minus(text) \o (SubSeq(body, k, Len(body))
                                                  \o zeros)}
                        ELSE result = {}
    BY DEF DepositAgrees
  <1>3. body \in Seq(Chars) /\ BigInt(text, 10) = IF IsNumeral(body, 10) THEN {v0} ELSE {}
    BY <1>1, BigIntFacts
  <1>4. CASE ~IsNumeral(body, 10) BY <1>2, <1>3, <1>4
  <1>5. CASE IsNumeral(body, 10)
    <2>1. body \in Seq(Numerals(10)) BY <1>1, <1>3, <1>5, NumeralFacts
    <2>2. value \in Nat BY <1>1, <2>1, ValueEquation
    <2>3. Zeros \in Nat \ {0} BY BoundAssumption
    <2>4. Pow(10, Zeros) \in Nat \ {0}
      <3>1. 10 \in Nat \ {0} OBVIOUS
      <3> QED BY <2>3, <3>1, PowEquation
    <2>5. result = {DecimalText(Scaled(v0))}
      <3>1. BigInt(text, 10) = {v0} BY <1>3, <1>5
      <3> HIDE DEF result, Scaled, v0
      <3> QED BY <1>2, <3>1
    <2> DEFINE n == value * Pow(10, Zeros)
               w == WordText(n)
    <2>6. n \in Nat BY <2>2, <2>4, NatClosed
    <2>7. DecimalText(Scaled(v0)) =
             (IF sign /\ value # 0 THEN <<"-">> ELSE <<>>) \o w
      <3>1. MagnitudeText(n) = w BY <2>6, PrintingByWords
      <3>2. Scaled(v0).minus = (sign /\ value # 0) /\ Scaled(v0).magnitude = n OBVIOUS
      <3> HIDE DEF Scaled, v0, n, w
      <3> QED BY <3>1, <3>2 DEF DecimalText
    <2>8. CASE value = 0
      <3>1. n = 0 BY <2>4, <2>8
      <3>2. WordText(0) = <<"0">>
        <4>1. 0 \in Nat /\ 0 < 10 OBVIOUS
        <4>2. WordText(0) = <<Digits[0 + 1]>> BY <4>1, WordTextEquation, Zenon
        <4>3. Digits[0 + 1] = "0" BY DEF Digits
        <4> QED BY <4>2, <4>3
      <3>3. <<>> \o <<"0">> = <<"0">> OBVIOUS
      <3>4. w = <<"0">> BY <3>1, <3>2
      <3> HIDE DEF w, n, result, value
      <3>5. result = {<<"0">>} BY <2>5, <2>7, <2>8, <3>3, <3>4
      <3> QED BY <1>5, <2>8, <3>5
    <2>9. CASE value # 0
      <3>1. PICK k \in 1..Len(body) :
               /\ body[k] # "0" /\ \A i \in 1..(k - 1) : body[i] = "0"
               /\ SubSeq(body, k, Len(body)) \in Seq(Numerals(10))
               /\ Len(SubSeq(body, k, Len(body))) \in Nat \ {0}
               /\ SubSeq(body, k, Len(body))[1] = body[k]
               /\ Value(SubSeq(body, k, Len(body)), 10) = value
        BY <2>1, <2>9, LeadingZeros
      <3> DEFINE b == SubSeq(body, k, Len(body))
                 bz == b \o zeros
      <3>2. zeros \in Seq(Numerals(10)) /\ Len(zeros) = Zeros /\ Value(zeros, 10) = 0
        BY <2>3, ZerosFacts
      <3> HIDE DEF b, zeros
      <3>3. b \in Seq(Numerals(10)) /\ Len(b) \in Nat \ {0} /\ b[1] # "0" /\ Value(b, 10) = value
        BY <3>1 DEF b
      <3>4. Value(bz, 10) = Value(b, 10) * Pow(10, Len(zeros)) + Value(zeros, 10)
        BY <1>1, <3>2, <3>3, ValueConcat
      <3>5. Value(bz, 10) = n BY <2>6, <3>2, <3>3, <3>4
      <3>6. bz \in Seq(Numerals(10)) /\ Len(bz) \in Nat \ {0} /\ bz[1] = b[1]
        <4>1. bz \in Seq(Numerals(10)) /\ Len(bz) = Len(b) + Len(zeros) BY <3>2, <3>3
        <4>2. bz[1] = b[1] BY <3>2, <3>3
        <4> QED BY <2>3, <3>2, <3>3, <4>1, <4>2
      <3> HIDE DEF bz
      <3>7. Canonical(bz)
        <4>1. bz # <<>> BY <3>6
        <4>2. IsNumeral(bz, 10) BY <1>1, <3>6, <4>1, NumeralFacts
        <4> QED BY <3>3, <3>6, <4>2 DEF Canonical
      <3>8. w = bz BY <3>5, <3>6, <3>7, CanonicalUnique
      <3>9. DecimalText(Scaled(v0)) = Minus(text) \o bz BY <2>7, <2>9, <3>8 DEF Minus
      <3>10. DecimalText(Scaled(v0)) = Minus(text) \o (b \o zeros) BY <3>9, Zenon DEF bz
      <3>11. k \in DOMAIN body BY <2>1
      <3>12. result = {Minus(text) \o (SubSeq(body, k, Len(body)) \o zeros)}
        BY <2>5, <3>10, Zenon DEF b
      <3> HIDE DEF result, body
      <3> QED BY <1>5, <3>1, <3>11, <3>12
    <2> QED BY <2>8, <2>9
  <1> QED BY <1>4, <1>5

(* The type of the variable; texts may have any length. *)
TextOK == text \in Seq(Chars)

(* Typing and erasing keep it. *)
LEMMA TextTypes == Spec => []TextOK
  <1>1. Init => TextOK BY DEF Init, TextOK
  <1>2. TextOK /\ [Next]_vars => TextOK'
    <2> SUFFICES ASSUME TextOK, [Next]_vars PROVE TextOK' OBVIOUS
    <2>1. ASSUME NEW c \in Chars, Type(c) PROVE TextOK'
      BY <2>1 DEF Type, TextOK
    <2>2. CASE Erase
      <3>1. \A i \in 1..(Len(text) - 1) : text[i] \in Chars BY DEF TextOK
      <3>2. 1 \in Int /\ Len(text) - 1 \in Int BY DEF TextOK
      <3>3. SubSeq(text, 1, Len(text) - 1) \in Seq(Chars) BY <3>1, <3>2, SubSeqProperties
      <3> QED BY <2>2, <3>3 DEF Erase, TextOK
    <2>3. CASE UNCHANGED vars BY <2>3 DEF vars, TextOK
    <2> QED BY <2>1, <2>2, <2>3 DEF Next
  <1> QED BY <1>1, <1>2, PTL DEF Spec

(* What hexStringToDecimalString makes of a merkle root or a nullifier     *)
(* hash, with the BigInt pod under it, is right: for texts of any length   *)
(* and words of any whole number of hexadecimal digits.                    *)
THEOREM HexIsRight == Spec => []HexAgrees
  <1>1. TextOK => HexAgrees BY HexOfText DEF TextOK
  <1> QED BY <1>1, TextTypes, PTL

(* So is the parameter of a deposit, the amount parsed and scaled, for any *)
(* scale.                                                                  *)
THEOREM DepositIsRight == Spec => []DepositAgrees
  <1>1. TextOK => DepositAgrees BY DepositOfText DEF TextOK
  <1> QED BY <1>1, TextTypes, PTL
=============================================================================
