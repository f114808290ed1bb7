------------------------------ MODULE Endpoint ------------------------------
(***************************************************************************)
(* Endpoint (main/endpoint.cc): one connection, on which expressions are   *)
(* read, executed and answered (slang/slang.cc) until the stream fails.    *)
(***************************************************************************)
EXTENDS JsonSerializer, StreamWriter

CONSTANT Texts      \* what a client may send

ASSUME EndpointAssumption == Texts \subseteq Seq(Chars)

VARIABLE said       \* history: all replies, as they should be received

vars == <<readerVars, lexerVars, programVars, writerVars, said>>

(* The pointers of the reader, of the lexer and of the writer stay inside  *)
(* the buffers, the depth is never negative and only values are pushed.    *)
TypeOK ==
    /\ ReaderTypeOK
    /\ LexerTypeOK
    /\ ProgramTypeOK
    /\ WriterTypeOK(ReplyChars)

Init ==
    /\ ReaderInit(Texts)
    /\ LexerInit
    /\ ProgramInit
    /\ WriterInit
    /\ said = <<>>

(* The compiler or the program gives its result to the serializer.         *)
Reply ==
    /\ pc = "reply"
    /\ pieces' = Serialize(reply)
    /\ said' = said \o FlattenSeq(Serialize(reply))
    /\ pc' = "write"
    /\ UNCHANGED <<readerVars, stateVars, reply, programVars, outBuf,
                   writeError, delivered>>

Write ==
    /\ pc = "write"
    /\ \/ WriteData /\ UNCHANGED pc
       \/ MustFlush /\ pc' = "send" /\ UNCHANGED writerVars
    /\ UNCHANGED <<readerVars, stateVars, reply, programVars, said>>

(* Flush, that is DoWrite, and what comes after it.                        *)
Flush ==
    /\ pc = "send"
    /\ \/ \E n \in 1 .. OutSize : Send(n) /\ UNCHANGED pc
       \/ SendFails /\ UNCHANGED pc
       \/ /\ outBuf = <<>>
          /\ pc' = IF pieces = <<>> THEN "answered" ELSE "write"
          /\ UNCHANGED writerVars
    /\ UNCHANGED <<readerVars, stateVars, reply, programVars, said>>

(* One request_reader serves all expressions of a connection.              *)
KeepReader == UNCHANGED readerVars

(* Execute has returned; Purge. If both directions are good the next one   *)
(* begins, with a new LexerState where this one stopped reading.           *)
NextExpression ==
    /\ pc = "answered"
    /\ depth' = 0
    /\ termType' = "value"
    /\ termBegin' = 0
    /\ termBuf' = <<>>
    /\ escaped' = FALSE
    /\ wasEscaped' = FALSE
    /\ tokenSize' = 0
    /\ code' = <<>>
    /\ reply' = <<"none">>
    /\ first' = Len(seen)
    /\ start' = 0
    /\ ip' = 1
    /\ stack' = <<>>
    /\ pc' = IF readError \/ writeError THEN "closed" ELSE "lex"
    /\ KeepReader
    /\ UNCHANGED <<writerVars, said>>

(* ServeCommandMode has returned.                                          *)
Closed == pc = "closed" /\ UNCHANGED vars

Next ==
    \/ LexerStep /\ UNCHANGED <<programVars, writerVars, said>>
    \/ ProgramStep /\ UNCHANGED <<writerVars, said>>
    \/ Reply \/ Write \/ Flush \/ NextExpression
    \/ Closed

Spec == Init /\ [][Next]_vars

-----------------------------------------------------------------------------
(* What the lexer has of the text at any moment is what was sent: reader,  *)
(* saved part of a term and pointer into the chunk fit together.           *)
ReadingInv == TypeOK /\ TermIsText /\ NothingSkipped

(* The client receives the replies, all of them and in order, or after a   *)
(* failure the beginning of them, however the text is cut by buffers and   *)
(* by send.                                                                *)
RepliesDelivered ==
    /\ IsPrefix(delivered, said)
    /\ ~writeError => delivered \o outBuf \o FlattenSeq(pieces) = said
=============================================================================
