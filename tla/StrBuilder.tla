----------------------------- MODULE StrBuilder -----------------------------
(***************************************************************************)
(* StrBuilder (base/str_builder.h) and the conversions that append to it   *)
(* (base/str_build_types): a buffer that never grows. Text is cut off at   *)
(* its end, a number is left out unless there is room for the longest one. *)
(* A finite double is its sign, its integer part or leading digit, the     *)
(* digits after the point and, when it is written in scientific notation,  *)
(* an exponent; the arithmetic that yields those is the machine's.         *)
(***************************************************************************)
EXTENDS Integers, Sequences, SequencesExt

CONSTANTS
    UseSize,        \* Size - 1
    IntRoom,        \* 24, what an integer demands
    HexRoom,        \* 32, what a hexadecimal number or a pointer demands
    Width,          \* bits of the integers, 64
    Ints,           \* integers that are appended
    Texts,          \* lengths of text that is appended
    Fractions,      \* digits after the point, as many as the precision
    Exponents,      \* exponents of doubles in scientific notation
    MaxAppends      \* bound: values appended before the next Clear

ASSUME BuilderAssumption ==
    /\ {UseSize, IntRoom, HexRoom, Width} \subseteq Nat \ {0}
    /\ Ints \subseteq -(2 ^ (Width - 1)) .. 2 ^ Width - 1
    /\ Texts \subseteq Nat

VARIABLES
    text,       \* buf_ up to offset_
    last        \* what was appended last, and the text before it

builderVars == <<text, last>>

Digits == <<"0", "1", "2", "3", "4", "5", "6", "7", "8", "9",
            "a", "b", "c", "d", "e", "f">>

Digit(d) == Digits[d + 1]

BuilderInit == text = <<>> /\ last = [kind |-> "none", before |-> <<>>, count |-> 0]

-----------------------------------------------------------------------------
Room(t) == UseSize - Len(t)

Write(t, needed, chars) == IF Room(t) < needed THEN t ELSE t \o chars

BestEffortWrite(t, chars) ==
    t \o SubSeq(chars, 1, IF Len(chars) < Room(t) THEN Len(chars) ELSE Room(t))

(* XYAssert(num <= offset_): SubSeq of less than nothing is nothing.       *)
Rollback(t, num) == SubSeq(t, 1, Len(t) - num)

CountDigits(value, base) ==
    CHOOSE n \in 1 .. Width : base ^ (n - 1) <= value /\ value < base ^ n

(* StrBuildUIntToStr and the loop of StrBuildUIntToHex: digit i from the   *)
(* left is what remains after the lower ones were divided off.             *)
UIntToStr(value, base) ==
    IF value = 0 THEN <<Digit(0)>>
    ELSE LET n == CountDigits(value, base)
         IN  [i \in 1 .. n |-> Digit((value \div base ^ (n - i)) % base)]

(* (uint64_t)-value: in two's complement the least integer is its own      *)
(* negation.                                                               *)
IntToStr(value) ==
    IF value < 0 THEN <<"-">> \o UIntToStr((-value) % 2 ^ Width, 10)
                 ELSE UIntToStr(value, 10)

HexToStr(value, add0x) ==
    (IF add0x THEN <<"0", "x">> ELSE <<>>) \o UIntToStr(value, 16)

-----------------------------------------------------------------------------
(* Fault: the first zero ends the number.                                  *)
LastNonZeroFirst(digits) ==
    LET zero == {i \in DOMAIN digits : digits[i] = 0}
    IN  IF zero = {} THEN Len(digits) - 1
        ELSE LET first == CHOOSE i \in zero : \A k \in zero : i <= k
             IN  IF first = 1 THEN 0 ELSE first - 2

(* j of the loop over the fraction: the last digit that is not 0, counted  *)
(* from 0, and 0 when there is none.                                       *)
LastNonZero(digits) ==
    LET nonzero == {i \in DOMAIN digits : digits[i] # 0}
    IN  IF nonzero = {} THEN 0
        ELSE (CHOOSE i \in nonzero : \A k \in nonzero : i >= k) - 1

WriteChar(t, c) == Write(t, 1, <<c>>)

(* The fraction, digit by digit, and the removal of its trailing zeros.    *)
WriteFraction(t, digits) ==
    Rollback(FoldLeft(LAMBDA u, d : WriteChar(u, Digit(d)), t, digits),
             Len(digits) - 1 - LastNonZero(digits))

WriteDouble(t, v) ==
    LET signed == IF v.negative THEN WriteChar(t, "-") ELSE t
    IN  IF v.exponent = "none"
        THEN WriteFraction(WriteChar(Write(signed, IntRoom, UIntToStr(v.high, 10)), "."),
                           v.digits)
        ELSE Write(WriteChar(WriteFraction(
                       WriteChar(WriteChar(signed, Digit(v.high % 10)), "."), v.digits), "e"),
                   IntRoom, IntToStr(v.power))

Doubles ==
    [negative : BOOLEAN, high : {i \in Ints : i >= 0}, digits : Fractions,
     exponent : {"none"}, power : {0}]
    \cup [negative : BOOLEAN, high : {i \in Ints : i \in 1 .. 9}, digits : Fractions,
          exponent : {"some"}, power : Exponents]

(* Room for everything WriteDouble may write of v.                         *)
DoubleFits(t, v) == Room(t) >= 4 + Len(v.digits) + IntRoom

-----------------------------------------------------------------------------
Appended(kind, value, t) ==
    /\ last.count < MaxAppends
    /\ text' = t
    /\ last' = [kind |-> kind, value |-> value, before |-> text, count |-> last.count + 1]

AppendChar == Appended("char", 0, WriteChar(text, "Y"))

AppendText(n) == Appended("text", n, BestEffortWrite(text, [i \in 1 .. n |-> "c"]))

AppendInt(value) == Appended("int", value, Write(text, IntRoom, IntToStr(value)))

AppendHex(value, add0x) ==
    Appended("hex", <<value, add0x>>, Write(text, HexRoom, HexToStr(value, add0x)))

(* StrHiPrecision: snprintf is asked for the length first.                 *)
AppendHiPrecision(n) ==
    Appended("hi", n, Write(text, n + 1, [i \in 1 .. n |-> "g"]))

(* nan, inf and -inf.                                                      *)
AppendNotFinite(chars) == Appended("notfinite", chars, Write(text, Len(chars), chars))

AppendDouble(v) == Appended("double", v, WriteDouble(text, v))

Clear == text' = <<>> /\ last' = [kind |-> "none", before |-> <<>>, count |-> 0]

BuilderNext ==
    \/ AppendChar
    \/ \E n \in Texts : AppendText(n) \/ AppendHiPrecision(n)
    \/ \E i \in Ints : AppendInt(i)
    \/ \E i \in {k \in Ints : k >= 0}, add0x \in BOOLEAN : AppendHex(i, add0x)
    \/ \E v \in Doubles : AppendDouble(v)
    \/ \E chars \in {<<"n", "a", "n">>, <<"-", "i", "n", "f">>} : AppendNotFinite(chars)
    \/ Clear

BuilderSpec == BuilderInit /\ [][BuilderNext]_builderVars

-----------------------------------------------------------------------------
(* The text always leaves room for the terminating zero of MakeCStr.       *)
BuilderTypeOK == Len(text) <= UseSize

Added == SubSeq(text, Len(last.before) + 1, Len(text))

ValueOf(chars, base) ==
    FoldLeft(LAMBDA n, c : n * base + SelectInSeq(Digits, LAMBDA d : d = c) - 1, 0, chars)

Canonical(chars) == chars # <<>> /\ (chars[1] = "0" => Len(chars) = 1)

(* An integer that is written reads back as itself, in decimal with its    *)
(* sign or in hexadecimal, without leading zeros: the least integer, whose *)
(* negation is not representable, too.                                     *)
IntsReadBack ==
    last.kind \in {"int", "hex"} /\ Added # <<>> =>
        LET negative == last.kind = "int" /\ last.value < 0
            skipped == IF negative THEN 1
                       ELSE IF last.kind = "hex" /\ last.value[2] THEN 2 ELSE 0
            numeral == SubSeq(Added, skipped + 1, Len(Added))
        IN  /\ Canonical(numeral)
            /\ ValueOf(numeral, IF last.kind = "hex" THEN 16 ELSE 10)
                  = IF last.kind = "hex" THEN last.value[1]
                    ELSE IF negative THEN -last.value ELSE last.value

(* A double that has room reads back as itself: the fraction is there down *)
(* to the last digit that counts, and ends with it unless it is 0.         *)
DoublesReadBack ==
    last.kind = "double" /\ DoubleFits(last.before, last.value) =>
        LET v == last.value
            point == SelectInSeq(Added, LAMBDA c : c = ".")
            exponent == SelectInSeq(Added, LAMBDA c : c = "e")
            end == IF exponent = 0 THEN Len(Added) ELSE exponent - 1
            from == IF v.negative THEN 2 ELSE 1
            shown == end - point
        IN  /\ ValueOf(SubSeq(Added, from, point - 1), 10) = v.high
            /\ shown \in 1 .. Len(v.digits)
            /\ \A i \in 1 .. shown : Added[point + i] = Digit(v.digits[i])
            /\ \A i \in shown + 1 .. Len(v.digits) : v.digits[i] = 0
            /\ shown > 1 => v.digits[shown] # 0
            /\ v.exponent = "some" =>
                  IntToStr(v.power) = SubSeq(Added, exponent + 1, Len(Added))

(* Appending leaves the text that is there alone. The rollback of a double *)
(* without room for its digits takes characters of it away: those that     *)
(* were dropped are counted among the trailing zeros.                      *)
EarlierTextKept ==
    (last.kind = "double" => DoubleFits(last.before, last.value)) =>
        IsPrefix(last.before, text)

(* What is in the buffer can be read back, and stays.                      *)
TextInv == BuilderTypeOK /\ IntsReadBack /\ DoublesReadBack /\ EarlierTextKept
=============================================================================
