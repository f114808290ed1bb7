------------------------------ MODULE Program -------------------------------
(***************************************************************************)
(* Program::Execute (slang/program.cc) and the calls it makes: the stack,  *)
(* frames and their barriers, CallArgs and CallOutput (slang/call.h). The  *)
(* compiler reverses the code, so that the arguments of an operation are   *)
(* on the stack, the first one on top, when it is called.                  *)
(*                                                                         *)
(* Two operations stand for all: "l" is list (main/slang_env.cc), which    *)
(* returns its arguments, as select returns many values; any other name is *)
(* one of the arithmetic functions (slang/math_funcs.cc), which return one *)
(* number, or fail when an argument is not a number.                       *)
(***************************************************************************)
EXTENDS Lexer

CONSTANT Number     \* the number any arithmetic gives

ASSUME ProgramAssumption == Number \in Chars

VARIABLES
    ip,             \* ip
    stack           \* stack

programVars == <<ip, stack>>

IsValue(v) == v.kind \in {"num", "str", "field", "barrier"}

ProgramTypeOK ==
    /\ ip \in 1 .. Len(code) + 1
    /\ stack \in Seq(Instructions)
    /\ \A i \in 1 .. Len(stack) : IsValue(stack[i])

ProgramInit == ip = 1 /\ stack = <<>>

(* The index of the topmost barrier, 0 if there is none.                   *)
TopBarrier(s) ==
    LET barriers == {i \in 1 .. Len(s) : s[i].kind = "barrier"}
    IN  IF barriers = {} THEN 0
        ELSE CHOOSE i \in barriers : \A j \in barriers : j <= i

(* Iterator: from the top of the stack down to the barrier.                *)
CallArgs(s) == Reverse(SubSeq(s, TopBarrier(s) + 1, Len(s)))

(* CheckOperationType                                                      *)
CallFails(name, args) ==
    name # <<"l">> /\ \E i \in 1 .. Len(args) : args[i].kind # "num"

(* What the call adds to its CallOutput.                                   *)
CallOutput(name, args) ==
    IF name = <<"l">> THEN args ELSE <<Instruction("num", <<Number>>)>>

(* Fault: the barrier stays on the stack.                                  *)
PurgeStackFrameOpen(s) == SubSeq(s, 1, TopBarrier(s))

(* Fault: the whole stack is dropped.                                      *)
PurgeStackFrameAll(s) == <<>>

PurgeStackFrame(s) ==
    IF TopBarrier(s) = 0 THEN s ELSE SubSeq(s, 1, TopBarrier(s) - 1)

(* The end of Compiler::Build, the beginning of Program::Execute.          *)
Build ==
    /\ pc = "built"
    /\ pc' = "exec"
    /\ code' = Reverse(code)
    /\ ip' = 1
    /\ stack' = <<>>
    /\ UNCHANGED <<readerVars, depth, termType, termBegin, termBuf, escaped,
                   wasEscaped, tokenSize, reply, first, start>>

InExec == pc = "exec" /\ UNCHANGED <<readerVars, stateVars>>

ExecutePush ==
    /\ InExec
    /\ ip <= Len(code)
    /\ code[ip].kind # "call"
    /\ stack' = Append(stack, code[ip])
    /\ ip' = ip + 1
    /\ UNCHANGED <<pc, reply>>

ExecuteCall ==
    /\ InExec
    /\ ip <= Len(code)
    /\ code[ip].kind = "call"
    /\ LET name == code[ip].arg
           args == CallArgs(stack)
       IN  IF CallFails(name, args)
           THEN /\ pc' = "reply"
                /\ reply' = <<"failed">>
                /\ UNCHANGED programVars
           ELSE /\ stack' = PurgeStackFrame(stack) \o CallOutput(name, args)
                /\ ip' = ip + 1
                /\ UNCHANGED <<pc, reply>>

(* The stack that is left is the reply.                                    *)
ExecuteEnds ==
    /\ InExec
    /\ ip = Len(code) + 1
    /\ pc' = "reply"
    /\ reply' = <<"values", stack>>
    /\ UNCHANGED programVars

ProgramStep == Build \/ ExecutePush \/ ExecuteCall \/ ExecuteEnds

-----------------------------------------------------------------------------
(* A call finds the barrier of a frame under its arguments, whatever the   *)
(* expression: no iterator over the arguments leaves the stack.            *)
CallFindsFrame ==
    pc = "exec" /\ ip <= Len(code) /\ code[ip].kind = "call" =>
        TopBarrier(stack) > 0
=============================================================================
