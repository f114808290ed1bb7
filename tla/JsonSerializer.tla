--------------------------- MODULE JsonSerializer ---------------------------
(***************************************************************************)
(* JsonSerializer (json/json_serializer.cc): the pieces of text that a     *)
(* reply of slang::Execute is written in. Error texts stand for            *)
(* themselves, and objects are left to SchemaLayout.                       *)
(***************************************************************************)
EXTENDS Program

(* What replies are made of.                                               *)
ReplyChars ==
    Chars \cup {"quote", "slash", "nl", "nul", "n", "u", "0", "[", "]", "{", "}",
                ",", " ", "syntax", "failed"}

(* Write of a literal takes it for an array: its zero is written too.      *)
Literal(t) == Append(t, "nul")

(* The cases of WriteEscapedString.                                        *)
Escaped(c) ==
    IF c \in {"quote", "slash"} THEN Literal(<<"slash", "quote">>)
    ELSE IF c = "nl" THEN Literal(<<"slash", "n">>)
    ELSE IF c = "nul" THEN <<"slash", "u", "0", "0", "0", "0">>
    ELSE <<c>>

WriteEscapedString(t) ==
    <<<<"quote">>>> \o [i \in 1 .. Len(t) |-> Escaped(t[i])] \o <<<<"quote">>>>

(* WriteBasicValue, or WriteObject for a field, whose type is not basic    *)
(* and has no fields. Nothing is written for a barrier.                    *)
WriteValue(v) ==
    IF v.kind = "str" THEN WriteEscapedString(v.arg)
    ELSE IF v.kind = "num" THEN <<v.arg>>
    ELSE IF v.kind = "field" THEN <<<<"{">>, <<"}">>>>
    ELSE <<>>

SerializeValues(values) ==
    <<<<"[">>>>
        \o FlattenSeq([i \in 1 .. Len(values) |->
               WriteValue(values[i])
                   \o IF i < Len(values) THEN <<Literal(<<",", " ">>)>> ELSE <<>>])
        \o <<<<"]">>>>

(* Serialize and the end of line of FinalizeWrite.                         *)
Serialize(r) ==
    (IF r[1] = "values" THEN SerializeValues(r[2]) ELSE WriteEscapedString(r))
        \o <<<<"nl">>>>
=============================================================================
