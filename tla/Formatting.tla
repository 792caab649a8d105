----------------------------- MODULE Formatting -----------------------------
(***************************************************************************)
(* The conversions between texts and big integers on which two requests    *)
(* depend: hexStringToDecimalString, for the merkle root and the nullifier *)
(* hash of a mint, and the amount of a deposit, parsed and scaled.  Both   *)
(* rest on the BigInt pod, which reads and writes numerals one machine     *)
(* word at a time; its chunks and the zeros between them are modelled for  *)
(* words of any width.                                                     *)
(*                                                                         *)
(* A text is a sequence of characters.  A result that may be nil is a set  *)
(* of at most one element.                                                 *)
(***************************************************************************)
EXTENDS Integers, Sequences

CONSTANTS
    Chars,      \* the characters texts are made of
    MaxLen,     \* bound: the length of a text
    WordBits,   \* the width of UInt, 64 on the device
    Zeros       \* the scale of a deposit is 10^Zeros, 10^17 in the code

ASSUME BoundAssumption == {MaxLen, WordBits, Zeros} \subseteq Nat \ {0}
(* A word holds whole hexadecimal digits; the pod's count is one too many   *)
(* where 16^n skips 2^WordBits.                                            *)
ASSUME WordAssumption == WordBits % 4 = 0

VARIABLE text
vars == <<text>>

(* Capital letters read like small ones and are left out. *)
Digits == <<"0", "1", "2", "3", "4", "5", "6", "7", "8", "9",
            "a", "b", "c", "d", "e", "f">>
Signs == {"+", "-"}

IsDigit(c, radix) == \E i \in 1..radix : Digits[i] = c
Digit(c) == (CHOOSE i \in 1..16 : Digits[i] = c) - 1

IsNumeral(s, radix) == s # <<>> /\ \A i \in DOMAIN s : IsDigit(s[i], radix)
Value(s, radix) ==
    LET v[k \in 0..Len(s)] ==
            IF k = 0 THEN 0 ELSE v[k - 1] * radix + Digit(s[k])
    IN v[Len(s)]

Pow(b, n) == LET p[k \in Nat] == IF k = 0 THEN 1 ELSE b * p[k - 1] IN p[n]

-----------------------------------------------------------------------------
(* Swift's own conversions, of a word and back.  A sign is accepted, and a *)
(* minus only before zero.                                                 *)
WordOf(s, radix) ==
    LET body == IF s[1] \in Signs THEN Tail(s) ELSE s IN
    IF IsNumeral(body, radix) /\ (s[1] = "-" => Value(body, radix) = 0)
      THEN {Value(body, radix)} \intersect 0..(Pow(2, WordBits) - 1)
      ELSE {}

WordText(n) ==
    LET t[m \in Nat] ==
            IF m < 10 THEN <<Digits[m + 1]>>
                      ELSE Append(t[m \div 10], Digits[(m % 10) + 1])
    IN t[n]

(* How many numerals fit a word, and what a chunk of as many counts: the   *)
(* pod's power, where 0 stands for 2^WordBits.                             *)
charsPerWord(radix) ==
    CHOOSE n \in 1..WordBits :
        /\ Pow(radix, n) <= Pow(2, WordBits)
        /\ Pow(radix, n + 1) > Pow(2, WordBits)
Power(radix) == Pow(radix, charsPerWord(radix))

(* Mutant: what is left of the last whole chunk is forgotten. *)
MutChunks(s, n) ==
    [k \in 1..(Len(s) \div n) |->
        SubSeq(s, Len(s) - k * n + 1, Len(s) - (k - 1) * n)]

(* Chunks of n characters from the right; the leftmost may be shorter. *)
Chunks(s, n) ==
    [k \in 1..((Len(s) + n - 1) \div n) |->
        LET first == Len(s) - k * n + 1 IN
        SubSeq(s, IF first < 1 THEN 1 ELSE first, Len(s) - (k - 1) * n)]

(* BigUInt(text, radix:).  No chunk, no nil: an empty text is zero. *)
BigUInt(s, radix) ==
    LET chunks == Chunks(s, charsPerWord(radix))
        words == [k \in DOMAIN chunks |-> WordOf(chunks[k], radix)]
        Word(k) == CHOOSE w \in words[k] : TRUE
        number[k \in 0..Len(words)] ==
            IF k = 0 THEN 0
            ELSE number[k - 1] * Power(radix) + Word(Len(words) - k + 1)
    IN IF \E k \in DOMAIN words : words[k] = {}
         THEN {} ELSE {number[Len(words)]}

(* BigInt(text, radix:): a sign in front of a BigUInt, kept for a zero. *)
BigInt(s, radix) ==
    LET signed == s # <<>> /\ s[1] \in Signs IN
    {[minus |-> signed /\ s[1] = "-", magnitude |-> m] :
        m \in BigUInt(IF signed THEN Tail(s) ELSE s, radix)}

(* Mutant: the parts are joined as they are. *)
MutPart(word) == WordText(word)

(* A word behind others, with the zeros that bring it to its width. *)
Part(word) ==
    [i \in 1..(charsPerWord(10) - Len(WordText(word))) |-> "0"] \o WordText(word)

(* String(BigUInt): words are split off until nothing is left in front. *)
MagnitudeText(n) ==
    LET t[m \in Nat] ==
            IF m < Power(10) THEN WordText(m)
            ELSE t[m \div Power(10)] \o Part(m % Power(10))
    IN t[n]

(* String(BigInt) *)
DecimalText(v) == (IF v.minus THEN <<"-">> ELSE <<>>) \o MagnitudeText(v.magnitude)

-----------------------------------------------------------------------------
WithoutPrefix(s) ==
    IF Len(s) >= 2 /\ s[1] = "0" /\ s[2] = "x" THEN SubSeq(s, 3, Len(s)) ELSE s

hexStringToDecimalString(s) ==
    {DecimalText(v) : v \in BigInt(WithoutPrefix(s), 16)}

(* BigInt(depositAmount)! times the scale; the product of a zero has no    *)
(* sign.                                                                   *)
DepositParameter(s) ==
    {DecimalText([minus |-> v.minus /\ v.magnitude # 0,
                  magnitude |-> v.magnitude * Pow(10, Zeros)]) : v \in BigInt(s, 10)}

-----------------------------------------------------------------------------
(* Every text, one character at a time. *)
Init == text = <<>>

Type(c) == Len(text) < MaxLen /\ text' = Append(text, c)

Erase == text # <<>> /\ text' = SubSeq(text, 1, Len(text) - 1)

Next == (\E c \in Chars : Type(c)) \/ Erase

Spec == Init /\ [][Next]_vars

-----------------------------------------------------------------------------
(***************************************************************************)
(* Properties.  The reference: a text is a sign or none and a body, and a  *)
(* number has one canonical numeral, without leading zeros.                *)
(***************************************************************************)
HasSign(s) == s # <<>> /\ s[1] \in Signs
Body(s) == IF HasSign(s) THEN Tail(s) ELSE s
Minus(s) == IF HasSign(s) /\ s[1] = "-" THEN <<"-">> ELSE <<>>
Plain(s) == s # <<>> /\ \A i \in DOMAIN s : s[i] \notin Signs
Canonical(s) == IsNumeral(s, 10) /\ (s[1] = "0" => Len(s) = 1)

(* Of an optional "0x", an optional sign and a body that is not empty and  *)
(* holds no more signs, hexStringToDecimalString gives the sign and the    *)
(* canonical decimal numeral of the same number, and nil exactly when a    *)
(* character of the body is no hexadecimal digit, wherever the words and   *)
(* their zeros fall.                                                       *)
HexAgrees ==
    LET hex == WithoutPrefix(text)
        result == hexStringToDecimalString(text)
    IN Plain(Body(hex)) =>
        IF IsNumeral(Body(hex), 16)
          THEN \E s \in result :
                  \E n \in {SubSeq(s, Len(Minus(hex)) + 1, Len(s))} :
                      /\ s = Minus(hex) \o n
                      /\ Canonical(n)
                      /\ Value(n, 10) = Value(Body(hex), 16)
          ELSE result = {}

(* The parameter of a deposit is the amount in the field, with its minus   *)
(* and without its leading zeros, followed by the zeros of the scale, or 0 *)
(* for no amount; a body with a character that is no digit is not parsed.  *)
DepositAgrees ==
    LET body == Body(text)
        result == DepositParameter(text)
    IN Plain(body) =>
        IF IsNumeral(body, 10)
          THEN \/ Value(body, 10) = 0 /\ result = {<<"0">>}
               \/ \E k \in DOMAIN body :
                     /\ body[k] # "0" /\ \A i \in 1..(k - 1) : body[i] = "0"
                     /\ result = {Minus(text) \o (SubSeq(body, k, Len(body))
                                    \o [i \in 1..Zeros |-> "0"])}
          ELSE result = {}
=============================================================================
