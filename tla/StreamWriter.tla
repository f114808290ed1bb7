---------------------------- MODULE StreamWriter ----------------------------
(***************************************************************************)
(* StreamWriter (base/stream.cc) on a TcpStream (net/tcp.cc), whose send   *)
(* may take any part of what it is given. A writer is given pieces, and a  *)
(* piece that does not fit into the buffer is written in parts.            *)
(***************************************************************************)
EXTENDS Naturals, Sequences

CONSTANT OutSize    \* size of write_buf_, 1024 in Endpoint

ASSUME WriterAssumption == OutSize \in Nat \ {0}

VARIABLES
    pieces,     \* what the serializer has still to write
    outBuf,     \* write_buf_, up to written_size_, or what DoWrite has to send
    writeError, \* LastError() of the stream is not None
    delivered   \* what the kernel has taken: what the other side receives

writerVars == <<pieces, outBuf, writeError, delivered>>

WriterTypeOK(chars) ==
    /\ outBuf \in Seq(chars)
    /\ Len(outBuf) <= OutSize
    /\ writeError \in BOOLEAN
    /\ delivered \in Seq(chars)

WriterInit ==
    /\ pieces = <<>>
    /\ outBuf = <<>>
    /\ writeError = FALSE
    /\ delivered = <<>>

Room == OutSize - Len(outBuf)

(* One round of WriteData: what fits of the first piece.                   *)
WriteData ==
    LET piece == Head(pieces)
        size == IF Len(piece) < Room THEN Len(piece) ELSE Room
    IN  /\ pieces # <<>>
        /\ size > 0
        /\ outBuf' = outBuf \o SubSeq(piece, 1, size)
        /\ pieces' = IF size = Len(piece) THEN Tail(pieces)
                     ELSE <<SubSeq(piece, size + 1, Len(piece))>> \o Tail(pieces)
        /\ UNCHANGED <<writeError, delivered>>

(* WriteData flushes before it goes on with a piece, and FinalizeWrite     *)
(* at the end.                                                             *)
MustFlush == pieces = <<>> \/ Room = 0

(* Fault: what send did not take is forgotten.                             *)
SendOnce(n) ==
    /\ ~writeError
    /\ n \in 1 .. Len(outBuf)
    /\ delivered' = delivered \o SubSeq(outBuf, 1, n)
    /\ outBuf' = <<>>
    /\ UNCHANGED <<pieces, writeError>>

(* One round of DoWrite. A socket that has failed once fails again.        *)
Send(n) ==
    /\ ~writeError
    /\ n \in 1 .. Len(outBuf)
    /\ delivered' = delivered \o SubSeq(outBuf, 1, n)
    /\ outBuf' = SubSeq(outBuf, n + 1, Len(outBuf))
    /\ UNCHANGED <<pieces, writeError>>

(* send fails, for a full socket too (IsInProgress is not asked about      *)
(* errno): the buffer is dropped, and WriteData gives up the piece, but    *)
(* the serializer goes on with the next one.                               *)
SendFails ==
    /\ outBuf # <<>>
    /\ writeError' = TRUE
    /\ outBuf' = <<>>
    /\ pieces' = IF pieces = <<>> THEN <<>> ELSE Tail(pieces)
    /\ UNCHANGED delivered
=============================================================================
