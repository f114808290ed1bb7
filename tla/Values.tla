------------------------------- MODULE Values -------------------------------
(***************************************************************************)
(* Numbers on their way through Slang: the arithmetic functions            *)
(* (slang/math_funcs.cc) over typed arguments (slang/call.h), the          *)
(* conversion to the type of a field when an object is written             *)
(* (storage/object_writer.cc), and the reading of the field when it is     *)
(* printed (json/json_serializer.cc). Integers have scaled-down widths. A  *)
(* double is a fraction <<n, d>>, d > 0, <<1, 0>>, <<-1, 0>> or <<0, 0>>,  *)
(* the last for nan; the rounding of doubles is left out.                  *)
(***************************************************************************)
EXTENDS Integers, Sequences, SequencesExt

CONSTANTS
    Bits,           \* per name of an integer type without sign: its bits
    IntArgs,        \* int64 arguments: integers in the program's text
    DoubleArgs,     \* double arguments
    MaxArgs         \* bound: arguments of a call

(* The widths grow with the names of the types.                            *)
ASSUME ValuesAssumption ==
    /\ Bits["8"] \in Nat \ {0}
    /\ Bits["8"] < Bits["16"] /\ Bits["16"] < Bits["32"] /\ Bits["32"] < Bits["64"]
    /\ MaxArgs \in Nat

VARIABLES
    phase,      \* "call", "write", "read" and "shown", in turn, or "failed"
    call,       \* the function and its arguments
    computed,     \* what it pushed on the stack, or NoValue
    field,      \* type and content of the field that result was written to
    shown       \* the number that is printed for the field

valuesVars == <<phase, call, computed, field, shown>>

Names == {"8", "16", "32", "64"}

IntTypes == [kind : {"signed", "unsigned"}, name : Names]

Double == [kind |-> "floating", name |-> "double"]

FieldTypes == IntTypes \cup {Double, [kind |-> "floating", name |-> "float"]}

Signed(name) == [kind |-> "signed", name |-> name]

Text == [kind |-> "text", name |-> "StrSpan"]

Typed(type, value) == [type |-> type, value |-> value]

NoValue == Typed(Text, 0)

(* Literals, and what enclosed calls returned.                             *)
Arguments ==
    {Typed(Signed("64"), i) : i \in IntArgs}
        \cup {Typed(Double, d) : d \in DoubleArgs}
        \cup {NoValue}

ValuesInit ==
    /\ phase = "call"
    /\ call = [func |-> "+", args |-> <<>>]
    /\ computed = NoValue
    /\ field = NoValue
    /\ shown = <<0, 1>>

-----------------------------------------------------------------------------
RangeOf(name) == 2 ^ Bits[name]

(* static_cast to an integer type of another width: modulo, and with sign. *)
Cast(kind, name, i) ==
    LET u == i % RangeOf(name)
    IN  IF kind = "signed" /\ u >= RangeOf(name) \div 2 THEN u - RangeOf(name) ELSE u

Negated(d) == <<-d[1], d[2]>>

(* static_cast of a double to uint64_t: without the digits after the       *)
(* point; undefined for what does not fit.                                 *)
Truncated(d) ==
    LET whole == IF d[1] >= 0 THEN d[1] \div d[2] ELSE -((-d[1]) \div d[2])
        range == 0 .. RangeOf("64") - 1
    IN  IF d[2] # 0 /\ whole \in range THEN {whole} ELSE range

AsDouble(v) == IF v.type.kind = "floating" THEN v.value ELSE <<v.value, 1>>

Sign(n) == IF n > 0 THEN 1 ELSE IF n < 0 THEN -1 ELSE 0

Plus(a, b) ==
    IF a[2] # 0 /\ b[2] # 0 THEN <<a[1] * b[2] + b[1] * a[2], a[2] * b[2]>>
    ELSE IF a[2] # 0 THEN b
    ELSE IF b[2] # 0 \/ a = b THEN a ELSE <<0, 0>>

Times(a, b) ==
    IF a[2] # 0 /\ b[2] # 0 THEN <<a[1] * b[1], a[2] * b[2]>>
    ELSE <<Sign(a[1]) * Sign(b[1]), 0>>

(* A zero is taken to be positive: 1 / 0 is inf, 0 / 0 is nan.             *)
Over(a, b) ==
    CASE a[2] = 0 /\ b[2] = 0 -> <<0, 0>>
      [] a[2] = 0 /\ b[2] # 0 -> <<Sign(a[1]) * (IF b[1] < 0 THEN -1 ELSE 1), 0>>
      [] a[2] # 0 /\ b[2] = 0 -> IF b[1] = 0 THEN <<0, 0>> ELSE <<0, 1>>
      [] a[2] # 0 /\ b[2] # 0 ->
            IF b[1] = 0 THEN <<Sign(a[1]), 0>>
            ELSE <<Sign(b[1]) * a[1] * b[2], Sign(b[1]) * b[1] * a[2]>>

-----------------------------------------------------------------------------
(* sum, sub and mul over integers of a width: every argument is converted  *)
(* to it, and so is every intermediate result. The overflow of an int64_t  *)
(* is undefined; the build wraps it around.                                *)
FoldInts(op(_, _), name, base, args) ==
    FoldLeft(LAMBDA r, v : Cast("signed", name, op(r, Cast("signed", name, v.value))),
             base, args)

FoldDoubles(op(_, _), base, args) ==
    FoldLeft(LAMBDA r, v : op(r, AsDouble(v)), base, args)

SumInts(args) == FoldInts(LAMBDA a, b : a + b, "64", 0, args)

MulInts(args) == FoldInts(LAMBDA a, b : a * b, "16", 1, args)

Sub(args) ==
    IF args = <<>> THEN 0
    ELSE FoldInts(LAMBDA a, b : a - b, "16", Cast("signed", "16", Head(args).value), Tail(args))

Div(args) ==
    IF args = <<>> THEN <<0, 0>>
    ELSE IF Len(args) = 1 THEN Over(<<1, 1>>, AsDouble(args[1]))
    ELSE Over(AsDouble(args[1]), FoldDoubles(Times, <<1, 1>>, Tail(args)))

CheckOperationType(args) ==
    IF \E i \in DOMAIN args : args[i].type.kind = "text" THEN "Invalid"
    ELSE IF \E i \in DOMAIN args : args[i].type.kind = "floating" THEN "Double"
    ELSE "SignedInt"

(* What is pushed for each function: sums of integers are int64, their     *)
(* differences and products int16.                                         *)
Evaluate(func, args) ==
    IF func = "/" THEN Typed(Double, Div(args))
    ELSE IF CheckOperationType(args) = "Double"
    THEN Typed(Double,
               CASE func = "+" -> FoldDoubles(Plus, <<0, 1>>, args)
                 [] func = "-" -> FoldDoubles(LAMBDA a, b : Plus(a, Negated(b)),
                                              AsDouble(Head(args)), Tail(args))
                 [] func = "*" -> FoldDoubles(Times, <<1, 1>>, args))
    ELSE CASE func = "+" -> Typed(Signed("64"), SumInts(args))
           [] func = "-" -> Typed(Signed("16"), Sub(args))
           [] func = "*" -> Typed(Signed("16"), MulInts(args))

Call(func, args) ==
    /\ phase = "call"
    /\ call' = [func |-> func, args |-> args]
    /\ IF CheckOperationType(args) = "Invalid"
       THEN computed' = NoValue /\ phase' = "failed"
       ELSE computed' = Evaluate(func, args) /\ phase' = "write"
    /\ UNCHANGED <<field, shown>>

-----------------------------------------------------------------------------
(* ValueToUInt64: a double is converted to uint64_t, a negative one with   *)
(* undefined outcome.                                                      *)
ValueToUInt64(v) ==
    IF v.type = Double THEN Truncated(v.value) ELSE {v.value % RangeOf("64")}

(* WriteBasicValue of ObjectWriter: the bytes an integer field gets are    *)
(* the low ones, whatever its sign.                                        *)
Stored(v, type) ==
    IF type.kind = "floating" THEN {AsDouble(v)}
    ELSE {u % RangeOf(type.name) : u \in ValueToUInt64(v)}

WriteTyped(type) ==
    /\ phase = "write"
    /\ \E bytes \in Stored(computed, type) : field' = Typed(type, bytes)
    /\ phase' = "read"
    /\ UNCHANGED <<call, computed, shown>>

(* Fault: every integer field is read as unsigned.                         *)
LoadedUnsigned(f) ==
    IF f.type.kind = "floating" THEN f.value ELSE <<f.value, 1>>

(* WriteBasicValue of JsonSerializer: widened by the sign of the field.    *)
Loaded(f) ==
    IF f.type.kind = "floating" THEN f.value
    ELSE <<Cast(f.type.kind, f.type.name, f.value), 1>>

Serialize ==
    /\ phase = "read"
    /\ shown' = Loaded(field)
    /\ phase' = "shown"
    /\ UNCHANGED <<call, computed, field>>

(* The next request; nothing of the last one is looked at again.           *)
Again ==
    /\ phase \in {"shown", "failed"}
    /\ phase' = "call"
    /\ call' = [func |-> "+", args |-> <<>>]
    /\ computed' = NoValue
    /\ field' = NoValue
    /\ shown' = <<0, 1>>

ValuesNext ==
    \/ \E func \in {"+", "-", "*", "/"}, args \in SeqOf(Arguments, MaxArgs) : Call(func, args)
    \/ \E type \in FieldTypes : WriteTyped(type)
    \/ Serialize
    \/ Again

ValuesSpec == ValuesInit /\ [][ValuesNext]_valuesVars

-----------------------------------------------------------------------------
Same(a, b) ==
    \/ a = b
    \/ a[2] # 0 /\ b[2] # 0 /\ a[1] * b[2] = b[1] * a[2]

(* The result in unbounded numbers, as fractions.                          *)
Exact(func, args) ==
    LET ds == [i \in DOMAIN args |-> AsDouble(args[i])]
        Rest(op(_, _), base, from) == FoldLeft(op, base, SubSeq(ds, from, Len(ds)))
    IN  CASE func = "+" -> Rest(Plus, <<0, 1>>, 1)
          [] func = "*" -> Rest(Times, <<1, 1>>, 1)
          [] func = "-" -> IF ds = <<>> THEN <<0, 1>>
                           ELSE Plus(ds[1], Negated(Rest(Plus, <<0, 1>>, 2)))

(* The value a call pushes has the range of the type it is pushed with,    *)
(* and that type is double as soon as one argument is.                     *)
ValuesTypeOK ==
    phase \notin {"call", "failed"} =>
        IF call.func = "/" \/ \E i \in DOMAIN call.args : call.args[i].type = Double
        THEN computed.type = Double /\ computed.value[2] >= 0
        ELSE /\ computed.type \in IntTypes
             /\ Cast("signed", computed.type.name, computed.value) = computed.value

(* Sums are exact modulo the range of int64 and, though every step is cut  *)
(* down to 16 bits, differences and products of integers are exact modulo  *)
(* the range of int16; with a double among the arguments nothing is cut.   *)
ArithmeticIsModular ==
    phase \notin {"call", "failed"} /\ call.func # "/" =>
        LET exact == Exact(call.func, call.args)
        IN  IF computed.type = Double THEN Same(computed.value, exact)
            ELSE (computed.value - exact[1]) % RangeOf(computed.type.name) = 0

(* A number that the type of the field can hold is printed as it was       *)
(* written, a fraction without its digits after the point when the field   *)
(* is an integer. Negative doubles in integer fields are not promised.     *)
FieldKeepsNumber ==
    phase = "shown" =>
        LET number == AsDouble(computed)
            whole == number[1] \div number[2]
        IN  IF field.type.kind = "floating" THEN Same(shown, number)
            ELSE number[2] # 0 /\ (computed.type # Double \/ number[1] >= 0)
                    /\ Cast(field.type.kind, field.type.name, whole) = whole
                 => shown = <<whole, 1>>

(* Numbers go through calls and fields as the widths of the types allow.   *)
NumbersInv == ValuesTypeOK /\ ArithmeticIsModular /\ FieldKeepsNumber
=============================================================================
