----------------------------- MODULE MCEndpoint -----------------------------
(***************************************************************************)
(* Endpoint on all short texts, on all texts made of a few tokens and on   *)
(* all expressions of somewhat more of them, with a reference reading of a *)
(* text that knows no chunks, buffers or stacks.                           *)
(***************************************************************************)
EXTENDS Endpoint

CONSTANTS MaxChars, MaxTokens, MaxNested    \* bounds on the kinds of texts

MCChars == {"(", ")", "quote", "slash", "nl", ";", "!", "[", ":", "+", "l", "1",
            "nul"}

Tokens == {<<"(", "l", "nl">>, <<"(", "+">>, <<"(">>, <<")">>,
           <<"1", "nl">>, <<"quote", "slash", "slash", "slash", "quote", "quote">>}

(* Payloads with tags of up to five characters.                            *)
Payloads ==
    {<<"!">> \o [i \in 1 .. n |-> "1"] \o <<"[", "1">> : n \in 0 .. 5}

(* Arguments made of n tokens: values, and calls that have arguments of    *)
(* their own.                                                              *)
RECURSIVE ArgsOf(_, _)
ArgsOf(values, n) ==
    IF n = 0 THEN {<<>>}
    ELSE {<<"nl", v>> \o rest : v \in values, rest \in ArgsOf(values, n - 1)}
         \cup UNION {{<<"(", f>> \o args \o <<")">> \o rest :
                         f \in {"l", "+"}, args \in ArgsOf(values, k),
                         rest \in ArgsOf(values, n - 2 - k)} : k \in 0 .. n - 2}

CallsOf(values, n) ==
    {<<"(", f>> \o args \o <<")">> : f \in {"l", "+"}, args \in ArgsOf(values, n - 2)}

(* Calls inside of calls: the expressions of up to MaxNested tokens, the   *)
(* longest of them with numbers only.                                      *)
Nested ==
    CallsOf({"1"}, MaxNested)
        \cup UNION {CallsOf({"1", "l"}, n) : n \in 2 .. MaxNested - 1}

MCTexts ==
    BoundedSeq(MCChars, MaxChars) \cup Payloads \cup Nested
        \cup {FlattenSeq(tokens) : tokens \in BoundedSeq(Tokens, MaxTokens)}

MCFunctions == {<<"l">>, <<"+">>}

-----------------------------------------------------------------------------
(* The reference: split the text at delimiters, the longest term first.    *)

Plain(c) == c \notin {"(", ")", "quote", "!", ";"} \cup White

(* The first index from i on at which the text has no plain character.     *)
RunEnd(t, i) ==
    CHOOSE j \in i .. Len(t) + 1 :
        /\ \A k \in i .. j - 1 : Plain(t[k])
        /\ j <= Len(t) => ~Plain(t[j])

(* A quote after i closes the string unless an odd number of slashes       *)
(* stands before it.                                                       *)
Closes(t, i, j) ==
    /\ t[j] = "quote"
    /\ \E k \in i .. j - 1 :
          /\ (j - 1 - k) % 2 = 0
          /\ \A m \in k + 1 .. j - 1 : t[m] = "slash"
          /\ k = i \/ t[k] # "slash"

StringEnd(t, i) ==
    IF \E j \in i + 1 .. Len(t) : Closes(t, i, j)
    THEN CHOOSE j \in i + 1 .. Len(t) :
            Closes(t, i, j) /\ \A k \in i + 1 .. j - 1 : ~Closes(t, i, k)
    ELSE Len(t) + 1

LineEnd(t, i) ==
    CHOOSE j \in i .. Len(t) + 1 :
        /\ \A k \in i .. j - 1 : t[k] # "nl"
        /\ j <= Len(t) => t[j] = "nl"

Bad == <<"bad">>

RECURSIVE Unescape(_)
Unescape(t) ==
    IF t = <<>> THEN <<>>
    ELSE IF Head(t) = "slash" /\ Len(t) > 1
    THEN <<t[2]>> \o Unescape(SubSeq(t, 3, Len(t)))
    ELSE <<Head(t)>> \o Unescape(Tail(t))

(* The instructions of the text from i on, inside of d operations, up to   *)
(* its end or to the first error.                                          *)
RECURSIVE CodeFrom(_, _, _)
CodeFrom(t, i, d) ==
    IF i > Len(t) THEN IF d > 0 THEN <<Bad>> ELSE <<>>
    ELSE IF t[i] = "(" THEN
        LET j == RunEnd(t, i + 1)
            name == SubSeq(t, i + 1, j - 1)
        IN  IF name = <<>> \/ j > Len(t) THEN CodeFrom(t, j, d + 1)
            ELSE IF name \notin Functions THEN <<Bad>>
            ELSE <<Instruction("call", name)>> \o CodeFrom(t, j, d + 1)
    ELSE IF t[i] = ")" THEN
        IF d = 0 THEN <<Bad>> ELSE <<Barrier>> \o CodeFrom(t, i + 1, d - 1)
    ELSE IF t[i] = "quote" THEN
        LET j == StringEnd(t, i)
        IN  IF j > Len(t) \/ d = 0 THEN <<Bad>>
            ELSE <<Instruction("str", Unescape(SubSeq(t, i + 1, j - 1)))>>
                     \o CodeFrom(t, j + 1, d)
    ELSE IF t[i] = "!" THEN <<Bad>>
    ELSE IF t[i] = ";" THEN CodeFrom(t, LineEnd(t, i) + 1, d)
    ELSE IF t[i] \in White THEN CodeFrom(t, i + 1, d)
    ELSE LET j == RunEnd(t, i)
         IN  IF j > Len(t) THEN CodeFrom(t, j, d)
             ELSE IF d = 0 THEN <<Bad>>
             ELSE <<ValueOf(SubSeq(t, i, j - 1))>> \o CodeFrom(t, j, d)

(* What the expression that is being read consists of.                     *)
Text == SubSeq(seen, first + 1, Len(seen))

(* Comments that stand apart: not directly after a term, which would       *)
(* swallow them, nor inside of a string; and no zero.                      *)
Simple(t) ==
    \A i \in 1 .. Len(t) :
        /\ t[i] # "nul"
        /\ t[i] = ";" => i = 1 \/ t[i - 1] \in White \cup {")", "quote"}

(* The program is that of the text and a syntax error is one of the text:  *)
(* how it was cut into chunks makes no difference.                         *)
CodeIsOfText ==
    LET expected == CodeFrom(Text, 1, 0)
    IN  Simple(Text) =>
            /\ pc = "built" => code = expected
            /\ reply = <<"syntax">> => Last(expected) = Bad

-----------------------------------------------------------------------------
(* The reference evaluation of the code in the order it was read: the      *)
(* values from i on to the end of the frame, and where it ends. Many       *)
(* values returned by one call come in the opposite order.                 *)
RECURSIVE FrameFrom(_, _)
FrameFrom(c, i) ==
    IF i > Len(c) \/ c[i] = Barrier
    THEN [args |-> <<>>, next |-> i + 1, ok |-> TRUE]
    ELSE IF c[i].kind # "call" THEN
        LET rest == FrameFrom(c, i + 1)
        IN  [rest EXCEPT !.args = <<c[i]>> \o @]
    ELSE LET frame == FrameFrom(c, i + 1)
             rest == FrameFrom(c, frame.next)
         IN  [args |-> Reverse(CallOutput(c[i].arg, frame.args)) \o rest.args,
              next |-> rest.next,
              ok |-> /\ frame.ok /\ rest.ok
                     /\ ~CallFails(c[i].arg, frame.args)]

(* Every parenthesis names an operation.                                   *)
AllNamed(c) ==
    Len(SelectSeq(c, LAMBDA x : x.kind = "call"))
        = Len(SelectSeq(c, LAMBDA x : x = Barrier))

(* Every operation gets its own arguments, in their order, and the reply   *)
(* is what the outermost one returns.                                      *)
ReplyIsEvaluation ==
    LET frame == FrameFrom(Reverse(code), 1)
    IN  pc = "reply" /\ reply # <<"syntax">> /\ AllNamed(code) =>
            reply = IF frame.ok THEN <<"values", Reverse(frame.args)>>
                    ELSE <<"failed">>
=============================================================================
