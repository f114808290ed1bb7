------------------------------ MODULE MRSWRing ------------------------------
(***************************************************************************)
(* MRSWRing (containers/MRSWRing.h), the ring behind local_task_queue_:    *)
(* two unsigned counters that only grow and wrap at 2^32, taken modulo the *)
(* size of the ring. A mutex is held through Push and through Pop, so each *)
(* is one step here.                                                       *)
(***************************************************************************)
EXTENDS Naturals, Sequences

CONSTANTS
    Values,     \* what is queued
    Size,       \* data_.size(), 1024 in the constructor of WorkerThread
    Modulus,    \* 2^32, the range of an unsigned
    Empty       \* a cell nothing was stored in, or was moved out of

(* A ring whose size does not divide 2^32 skips cells when a counter wraps *)
(* and a ring as large as the counters' range takes full for empty.        *)
ASSUME RingAssumption ==
    /\ Size \in Nat \ {0}
    /\ Modulus \in Nat \ {0}
    /\ Size < Modulus
    /\ Modulus % Size = 0
    /\ Empty \notin Values

VARIABLES
    data,       \* data_
    r,          \* r_
    w,          \* w_
    result      \* what the operation that returned last told its caller

ringVars == <<data, r, w, result>>

Results == {<<"none">>} \cup ({"push"} \X BOOLEAN)
               \cup {<<"pop", FALSE>>} \cup ({"pop"} \X {TRUE} \X Values)

(* The counters stay within an unsigned and every cell holds a value or    *)
(* was moved out of: Pop hands out nothing but what was pushed.            *)
RingTypeOK ==
    /\ data \in [0 .. Size - 1 -> Values \cup {Empty}]
    /\ r \in 0 .. Modulus - 1
    /\ w \in 0 .. Modulus - 1
    /\ result \in Results

RingInit ==
    /\ data = [i \in 0 .. Size - 1 |-> Empty]
    /\ r = 0
    /\ w = 0
    /\ result = <<"none">>

-----------------------------------------------------------------------------
(* Fault: emptiness is judged by the cell the counters point at.           *)
IsEmptyByCell == r % Size = w % Size

IsEmpty == r = w

IsFull == r % Size = w % Size /\ ~IsEmpty

Increment(counter) == (counter + 1) % Modulus

RingPush(v) ==
    IF IsFull
    THEN /\ result' = <<"push", FALSE>>
         /\ UNCHANGED <<data, r, w>>
    ELSE /\ data' = [data EXCEPT ![w % Size] = v]
         /\ w' = Increment(w)
         /\ result' = <<"push", TRUE>>
         /\ UNCHANGED r

RingPop ==
    IF IsEmpty
    THEN /\ result' = <<"pop", FALSE>>
         /\ UNCHANGED <<data, r, w>>
    ELSE /\ result' = <<"pop", TRUE, data[r % Size]>>
         /\ data' = [data EXCEPT ![r % Size] = Empty]
         /\ r' = Increment(r)
         /\ UNCHANGED w

RingNext == (\E v \in Values : RingPush(v)) \/ RingPop

RingSpec == RingInit /\ [][RingNext]_ringVars

-----------------------------------------------------------------------------
(* The queue the ring stands for: from r_ up to w_, around the counters'   *)
(* range and around the ring.                                              *)
Count == (w + Modulus - r) % Modulus

Queued == [i \in 1 .. Count |-> data[((r + i - 1) % Modulus) % Size]]

Fifo == INSTANCE BoundedFifo WITH items <- Queued, Capacity <- Size

(* The ring is a bounded FIFO queue: nothing is lost, duplicated or        *)
(* reordered, Push fails only when Size values are stored and Pop only     *)
(* when none is, also while the counters wrap around.                      *)
IsFifo == Fifo!Spec
=============================================================================
