---------------------------- MODULE StreamReader ----------------------------
(***************************************************************************)
(* StreamReader (base/stream.h, stream.cc) on a stream that delivers one   *)
(* text in chunks: a TcpStream (net/tcp.cc), whose recv may return any     *)
(* part of what was sent, or a file.                                       *)
(*                                                                         *)
(* A character is a string, its usual form or its name: "quote", "slash",  *)
(* "nl" (newline), "nul" (zero).                                           *)
(***************************************************************************)
EXTENDS Naturals, Sequences

CONSTANTS
    Chars,      \* the characters of the texts
    BufSize     \* size of read_buf_, 1024 in Endpoint

ASSUME ReaderAssumption == BufSize \in Nat \ {0}

VARIABLES
    sent,       \* what the other side sends, all of it
    got,        \* how many characters of it were received
    chunk,      \* what the last read put into read_buf_
    pos,        \* how many characters of chunk are consumed: available_begin_
    readError,  \* LastError() of the stream is not None
    seen        \* history: every character ReadAvailableCharUnsafe returned

readerVars == <<sent, got, chunk, pos, readError, seen>>

ReaderTypeOK ==
    /\ sent \in Seq(Chars)
    /\ got \in 0 .. Len(sent)
    /\ chunk \in Seq(Chars)
    /\ Len(chunk) <= BufSize
    /\ pos \in 0 .. Len(chunk)
    /\ readError \in BOOLEAN
    /\ seen \in Seq(Chars)

ReaderInit(texts) ==
    /\ sent \in texts
    /\ got = 0
    /\ chunk = <<>>
    /\ pos = 0
    /\ readError = FALSE
    /\ seen = <<>>

Available == SubSeq(chunk, pos + 1, Len(chunk))

(* TcpStream::DoRead: n more characters have come. A socket that has       *)
(* failed once fails again.                                                *)
DoRead(n) ==
    /\ ~readError
    /\ n \in 1 .. BufSize
    /\ got + n <= Len(sent)
    /\ chunk' = SubSeq(sent, got + 1, got + n)
    /\ got' = got + n
    /\ UNCHANGED <<sent, readError, seen>>

RefillAvailable(n) == DoRead(n) /\ pos' = 0

(* The other side has closed, possibly before all was received.            *)
RefillFails ==
    /\ readError' = TRUE
    /\ pos' = Len(chunk)
    /\ UNCHANGED <<sent, got, chunk, seen>>

ReadAvailableChar ==
    /\ pos < Len(chunk)
    /\ pos' = pos + 1
    /\ seen' = Append(seen, chunk[pos + 1])
    /\ UNCHANGED <<sent, got, chunk, readError>>
=============================================================================
