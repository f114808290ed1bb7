------------------------------- MODULE Lexer --------------------------------
(***************************************************************************)
(* The slang lexer (slang/lexer.h, lexer.cc) with the compiler as its      *)
(* handler (slang/compiler.cc). It reads one s-expression, character by    *)
(* character, out of a StreamReader. A term (an operation's name, a value, *)
(* a string) is a pointer into the reader's buffer, and what of it lay in  *)
(* earlier chunks is saved in term_buf_.                                   *)
(***************************************************************************)
EXTENDS StreamReader, SequencesExt

CONSTANTS
    Functions,      \* names of the operations in Env::functions_
    Digits          \* the characters that are digits

VARIABLES
    pc,             \* where slang::Execute is
    depth,          \* op_depth_
    termType,       \* term_type_
    termBegin,      \* term_begin_: index in chunk, 0 for nullptr
    termBuf,        \* term_buf_
    escaped,        \* is_escaped_
    wasEscaped,     \* was_escaped_
    tokenSize,      \* characters of a payload's tag
    code,           \* code_ of the program being built
    reply,          \* what the serializer was given last
    first,          \* history: Len(seen) when this expression began,
    start           \* and when the current term began

stateVars == <<depth, termType, termBegin, termBuf, escaped, wasEscaped,
               tokenSize, code, first, start>>
lexerVars == <<pc, stateVars, reply>>

Reading == {"lex", "comment", "tag", "close"}

Instruction(kind, arg) == [kind |-> kind, arg |-> arg]
Barrier == Instruction("barrier", <<>>)

Instructions == [kind : {"call", "num", "str", "field", "barrier"},
                 arg : Seq(Chars)]

LexerTypeOK ==
    /\ pc \in Reading \cup {"built", "exec", "reply", "write", "send",
                         "answered", "closed"}
    /\ depth \in Nat
    /\ termType \in {"op", "value", "str"}
    /\ termBegin \in 0 .. Len(chunk) + 1
    /\ termBuf \in Seq(Chars)
    /\ escaped \in BOOLEAN
    /\ wasEscaped \in BOOLEAN
    /\ tokenSize \in 0 .. 4
    /\ code \in Seq(Instructions)
    /\ first \in 0 .. Len(seen)
    /\ start \in 0 .. Len(seen)

(* A new LexerState and an empty program.                                  *)
LexerInit ==
    /\ pc = "lex"
    /\ depth = 0
    /\ termType = "value"
    /\ termBegin = 0
    /\ termBuf = <<>>
    /\ escaped = FALSE
    /\ wasEscaped = FALSE
    /\ tokenSize = 0
    /\ code = <<>>
    /\ reply = <<"none">>
    /\ first = 0
    /\ start = 0

-----------------------------------------------------------------------------
(* Operators on terms.                                                     *)

Brackets == {"(", ")", "[", "]", "quote", ";", ":"}
White == {" ", "nl"}

IsOpChar(c) == c \notin Digits \cup Brackets \cup White \cup {"nul"}

LexerCheckOpName(t) ==
    /\ IsOpChar(t[1])
    /\ \A i \in 1 .. Len(t) : IsOpChar(t[i]) \/ t[i] \in Digits

(* LexerParseInt64 or LexerParseDouble succeed: digits, which may have a   *)
(* sign. Fractions and exponents are other texts of the same kind.         *)
IsNumber(t) ==
    LET digits == IF t[1] \in {"+", "-"} THEN Tail(t) ELSE t
    IN  digits # <<>> /\ \A i \in 1 .. Len(digits) : digits[i] \in Digits

(* Fault: a slash always escapes, also after another one.                  *)
LexerParseStringGreedy(t, was) == SelectSeq(t, LAMBDA c : c # "slash")

(* LexerParseString: drops the slashes that escape.                        *)
LexerParseString(t, was) ==
    IF ~was THEN t
    ELSE LET parse[i \in 0 .. Len(t)] ==
                 IF i = 0 THEN [out |-> <<>>, skip |-> FALSE]
                 ELSE LET before == parse[i - 1]
                      IN  IF t[i] = "slash" /\ ~before.skip
                          THEN [out |-> before.out, skip |-> TRUE]
                          ELSE [out |-> Append(before.out, t[i]), skip |-> FALSE]
         IN  parse[Len(t)].out

(* Env::FindCall; the instruction that LexerBeginOp adds.                  *)
FindCall(t) == t \in Functions
LexerBeginOp(t) == Instruction("call", t)

LexerStrValue(t) == Instruction("str", t)

(* The handlers of values: LexerIntValue, LexerDoubleValue and             *)
(* LexerUnhandledValue, for which a value with a colon names a field.      *)
ValueOf(t) ==
    IF IsNumber(t) THEN Instruction("num", t)
    ELSE IF Len(t) > 1 /\ t[1] = ":" THEN Instruction("field", Tail(t))
    ELSE LexerStrValue(t)

(* Term: what was saved and what lies before the character just read.      *)
Term == termBuf \o SubSeq(chunk, termBegin, pos)

(* FinalizeTerm returns a failure: a term outside of all operations, a     *)
(* name that is none, an operation nobody knows (LexerBeginOp).            *)
FinalizeFails ==
    /\ termBegin # 0
    /\ \/ depth = 0
       \/ /\ termType = "op"
          /\ Term # <<>>
          /\ ~LexerCheckOpName(Term) \/ ~FindCall(Term)

(* What FinalizeTerm makes the handler add to the program.                 *)
FinalizeEmits ==
    IF termBegin = 0 THEN <<>>
    ELSE IF termType = "str"
    THEN <<LexerStrValue(LexerParseString(Term, wasEscaped))>>
    ELSE IF Term = <<>> THEN <<>>
    ELSE IF termType = "op" THEN <<LexerBeginOp(Term)>>
    ELSE <<ValueOf(Term)>>

-----------------------------------------------------------------------------
(* NextChar with nothing available.                                        *)

(* Fault: the part of a term in the old chunk is not saved.                *)
SaveTermNot == termBuf' = termBuf

(* SaveTerm(BufferEnd())                                                   *)
SaveTerm ==
    termBuf' = IF termBegin = 0 THEN termBuf
               ELSE termBuf \o SubSeq(chunk, termBegin, Len(chunk))

(* RefillBuffer, successful: a term goes on in the new chunk.              *)
RefillBuffer(n) ==
    /\ pc \in Reading
    /\ Available = <<>>
    /\ SaveTerm
    /\ RefillAvailable(n)
    /\ termBegin' = IF termBegin = 0 THEN 0 ELSE 1
    /\ UNCHANGED <<pc, depth, termType, escaped, wasEscaped, tokenSize, code,
                   reply, first, start>>

Fail ==
    /\ pc' = "reply"
    /\ reply' = <<"syntax">>

(* NextChar returned k_lexer_invalid_char: a comment just ends, a tag is   *)
(* wrong, and Run is over.                                                 *)
EndOfInput ==
    \/ /\ pc = "lex"
       /\ depth = 0 /\ termType # "str"
       /\ pc' = "built"
       /\ UNCHANGED reply
    \/ /\ pc = "lex"
       /\ depth > 0 \/ termType = "str"
       /\ Fail
    \/ /\ pc = "comment"
       /\ pc' = "lex"
       /\ UNCHANGED reply
    \/ /\ pc \in {"tag", "close"}
       /\ Fail

RefillBufferFails ==
    /\ pc \in Reading
    /\ Available = <<>>
    /\ SaveTerm
    /\ RefillFails
    /\ termBegin' = 0
    /\ EndOfInput
    /\ UNCHANGED <<depth, termType, escaped, wasEscaped, tokenSize, code,
                   first, start>>

(* A zero in the text is taken for its end.                                *)
ReadNul ==
    /\ ReadAvailableChar
    /\ chunk[pos + 1] = "nul"
    /\ EndOfInput
    /\ UNCHANGED stateVars

-----------------------------------------------------------------------------
(* The loop of Run.                                                        *)

Next1(c) == ReadAvailableChar /\ c = chunk[pos + 1]

(* Run goes on to the switch with this character.                          *)
Switch(c) ==
    /\ pc = "lex"
    /\ Next1(c)
    /\ termType = "str" => c = "quote" /\ ~escaped
    /\ escaped' = FALSE
    /\ UNCHANGED tokenSize

FinishTerm ==
    /\ termType' = "value"
    /\ termBegin' = 0
    /\ termBuf' = <<>>
    /\ UNCHANGED start

StartTerm(type, at, from) ==
    /\ termType' = type
    /\ termBegin' = at
    /\ start' = from

FailHere ==
    /\ Fail
    /\ UNCHANGED <<depth, termType, termBegin, termBuf, wasEscaped, code,
                   first, start>>

(* Inside of a string literal every character but its closing quote.       *)
StringChar(c) ==
    /\ pc = "lex"
    /\ Next1(c)
    /\ c # "nul"
    /\ termType = "str"
    /\ c # "quote" \/ escaped
    /\ escaped' = (c = "slash" /\ ~escaped)
    /\ wasEscaped' = (wasEscaped \/ escaped')
    /\ UNCHANGED <<pc, depth, termType, termBegin, termBuf, tokenSize, code,
                   reply, first, start>>

OpBegin ==
    /\ Switch("(")
    /\ IF FinalizeFails THEN FailHere
       ELSE /\ code' = code \o FinalizeEmits
            /\ depth' = depth + 1
            /\ StartTerm("op", pos + 2, Len(seen) + 1)
            /\ termBuf' = <<>>
            /\ UNCHANGED <<pc, wasEscaped, reply, first>>

(* LexerEndOp adds the barrier of a frame. Run is done with the first      *)
(* expression that is closed (single_expr_).                               *)
OpEnd ==
    /\ Switch(")")
    /\ IF FinalizeFails \/ depth = 0 THEN FailHere
       ELSE /\ code' = Append(code \o FinalizeEmits, Barrier)
            /\ depth' = depth - 1
            /\ pc' = IF depth = 1 THEN "built" ELSE "lex"
            /\ FinishTerm
            /\ UNCHANGED <<wasEscaped, reply, first>>

QuoteChar ==
    /\ Switch("quote")
    /\ IF FinalizeFails THEN FailHere
       ELSE /\ code' = code \o FinalizeEmits
            /\ IF termType = "str"
               THEN /\ FinishTerm
                    /\ wasEscaped' = FALSE
               ELSE /\ StartTerm("str", pos + 2, Len(seen) + 1)
                    /\ termBuf' = <<>>
                    /\ UNCHANGED wasEscaped
            /\ UNCHANGED <<pc, depth, reply, first>>

WhiteSpace(c) ==
    /\ c \in White
    /\ Switch(c)
    /\ IF FinalizeFails THEN FailHere
       ELSE /\ code' = code \o FinalizeEmits
            /\ FinishTerm
            /\ UNCHANGED <<pc, depth, wasEscaped, reply, first>>

(* An identifier or a value begins or goes on.                             *)
TermChar(c) ==
    /\ c \notin {"(", ")", "quote", "!", ";", "nul"} \cup White
    /\ Switch(c)
    /\ IF termBegin = 0 THEN StartTerm("value", pos + 1, Len(seen))
       ELSE UNCHANGED <<termType, termBegin, start>>
    /\ UNCHANGED <<pc, depth, termBuf, wasEscaped, code, reply, first>>

(* A comment does not end a term: what it skips belongs to the term.       *)
CommentBegin ==
    /\ Switch(";")
    /\ pc' = "comment"
    /\ UNCHANGED <<depth, termType, termBegin, termBuf, wasEscaped, code,
                   reply, first, start>>

CommentChar(c) ==
    /\ pc = "comment"
    /\ c # "nul"
    /\ Next1(c)
    /\ pc' = IF c = "nl" THEN "lex" ELSE "comment"
    /\ UNCHANGED <<stateVars, reply>>

(* No handler of this program accepts a payload                            *)
(* (JsonPayloadHandler::ProcessPayload).                                   *)
LexerCustomData == Fail

(* A custom payload: a tag of up to four characters, a bracket, and then   *)
(* LexerCustomData, one character after the bracket.                       *)
PayloadBegin ==
    /\ pc = "lex"
    /\ Next1("!")
    /\ termType # "str"
    /\ pc' = "tag"
    /\ escaped' = FALSE
    /\ tokenSize' = 0
    /\ UNCHANGED <<depth, termType, termBegin, termBuf, wasEscaped, code,
                   reply, first, start>>

PayloadTag(c) ==
    /\ pc = "tag"
    /\ c # "nul"
    /\ Next1(c)
    /\ \/ c = "[" /\ pc' = "close" /\ UNCHANGED <<tokenSize, reply>>
       \/ /\ c # "[" /\ tokenSize < 4
          /\ tokenSize' = tokenSize + 1
          /\ UNCHANGED <<pc, reply>>
       \/ c # "[" /\ tokenSize = 4 /\ Fail /\ UNCHANGED tokenSize
    /\ UNCHANGED <<depth, termType, termBegin, termBuf, escaped, wasEscaped,
                   code, first, start>>

PayloadClose(c) ==
    /\ pc = "close"
    /\ c # "nul"
    /\ Next1(c)
    /\ LexerCustomData
    /\ UNCHANGED stateVars

LexerStep ==
    \/ \E n \in 1 .. BufSize : RefillBuffer(n)
    \/ RefillBufferFails
    \/ ReadNul
    \/ OpBegin \/ OpEnd \/ QuoteChar \/ CommentBegin \/ PayloadBegin
    \/ \E c \in Chars :
          \/ StringChar(c) \/ WhiteSpace(c) \/ TermChar(c) \/ CommentChar(c)
          \/ PayloadTag(c) \/ PayloadClose(c)

-----------------------------------------------------------------------------
(* A term is what was read since it began, to the last character, however  *)
(* the text was cut into chunks; and no saved part of a term is left over  *)
(* for the next one.                                                       *)
TermIsText ==
    pc \in Reading =>
        IF termBegin = 0 THEN readError \/ termBuf = <<>>
        ELSE termBuf \o SubSeq(chunk, termBegin, pos)
                 = SubSeq(seen, start + 1, Len(seen))

(* Every character is read once and in the order it was sent, by this      *)
(* expression or the one after it.                                         *)
NothingSkipped == seen \o Available = SubSeq(sent, 1, got)
=============================================================================
