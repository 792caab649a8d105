\* Texts over decimal and hexadecimal digits, the x of the prefix (no digit) and
\* both signs; words of 8 bits hold two characters of either radix.
SPECIFICATION Spec
CONSTANTS
    Chars = {"0", "1", "9", "f", "x", "+", "-"}
    MaxLen = 6
    WordBits = 8
    Zeros = 2
INVARIANTS
    HexAgrees
    DepositAgrees
