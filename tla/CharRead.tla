------------------------------ MODULE CharRead ------------------------------
(***************************************************************************)
(* The buffered socket reader of netinclude/charread.h: the macros         *)
(* initCharRead and charRead over a struct CharRead, used by a program     *)
(* that selects on the socket whenever charRead answers RC_DO_SELECT.      *)
(*                                                                         *)
(* A byte of the stream is its position in the stream, so that losing,     *)
(* repeating or reordering one is visible.  The peer, select() and recv()  *)
(* are external.                                                           *)
(***************************************************************************)
EXTENDS Integers, TLAPS

CONSTANTS
  RC_BUFSIZE,   \* bytes in rc_Buffer
  StreamLen,    \* bound: bytes the peer sends
  MaxFailures,  \* bound: times in a row recv() fails or reports end of file
  INT_MAX       \* largest value of the C int rc_Curr

ASSUME BufSizeAssumption == RC_BUFSIZE \in Nat \ {0}
ASSUME BoundsAssumption  == StreamLen \in Nat /\ MaxFailures \in Nat
\* The caller gives up on a socket before rc_Curr, which every further failure
\* increments, can overflow: nothing in charRead itself stops it.
ASSUME IntAssumption == INT_MAX \in Nat /\ INT_MAX >= RC_BUFSIZE + 2 + MaxFailures

RC_DO_SELECT == -3
RC_EOF       == -2
RC_ERROR     == -1

VARIABLES
  rc_Size, rc_Curr, rc_Buffer,  \* struct CharRead
  sent, taken,                  \* stream bytes the peer has sent, recv() has copied
  closed,                       \* the peer has closed its end
  mode,                         \* what the reader does next: call, select, recv
  ret,                          \* what the last charRead returned
  delivered,                    \* bytes charRead has returned
  failures                      \* recv() results <= 0 in a row

rc   == <<rc_Size, rc_Curr, rc_Buffer>>
vars == <<rc, sent, taken, closed, mode, ret, delivered, failures>>

Index == 0 .. RC_BUFSIZE - 1
NoRet == 0    \* nothing returned yet; bytes are numbered from 1
NoByte == 0

\* recv() has something to return: bytes, or end of file.
Readable == taken < sent \/ closed

TypeOK ==
  /\ rc_Size \in -1 .. RC_BUFSIZE
  /\ rc_Curr \in Nat
  /\ rc_Buffer \in [Index -> Nat]
  /\ sent \in Nat /\ taken \in Nat /\ delivered \in Nat /\ failures \in Nat
  /\ closed \in BOOLEAN
  /\ mode \in {"call", "select", "recv"}
  /\ ret \in Nat \cup {RC_DO_SELECT, RC_EOF, RC_ERROR}

Init ==
  /\ rc_Size = 0 /\ rc_Curr = 1
  /\ rc_Buffer = [i \in Index |-> NoByte]
  /\ sent = 0 /\ taken = 0 /\ closed = FALSE
  /\ mode = "call" /\ ret = NoRet /\ delivered = 0 /\ failures = 0

(***************************************************************************)
(* charRead                                                                *)
(***************************************************************************)

\* rc_Curr < rc_Size: the next buffered byte.
ReadBuffered ==
  /\ mode = "call" /\ rc_Curr < rc_Size
  /\ ret' = rc_Buffer[rc_Curr]
  /\ rc_Curr' = rc_Curr + 1
  /\ delivered' = delivered + 1
  /\ UNCHANGED <<rc_Size, rc_Buffer, sent, taken, closed, mode, failures>>

\* rc_Curr++ == rc_Size: the buffer has just run out.
SelectStep(step, then) ==
  /\ mode = "call" /\ rc_Curr = rc_Size
  /\ rc_Curr' = rc_Curr + step
  /\ ret' = RC_DO_SELECT
  /\ mode' = then
  /\ UNCHANGED <<rc_Size, rc_Buffer, sent, taken, closed, delivered, failures>>
\* A variant: rc_Curr is not moved.
AskForSelect_NoIncrement == SelectStep(0, "select")
AskForSelect             == SelectStep(1, "select")

\* rc_Curr++ past rc_Size: charRead enters recv().
RecvStep(drained, step) ==
  /\ mode = "call" /\ drained
  /\ rc_Curr' = rc_Curr + step
  /\ mode' = "recv"
  /\ UNCHANGED <<rc_Size, rc_Buffer, sent, taken, closed, ret, delivered, failures>>
\* Variants: two increments; recv() follows the last byte of the buffer at once.
EnterRecv_Twice == RecvStep(rc_Curr > rc_Size, 2)
EnterRecv_Early == RecvStep(rc_Curr >= rc_Size, 1)
EnterRecv       == RecvStep(rc_Curr > rc_Size, 1)

\* recv() copied n bytes; the first is returned and rc_Curr set past it.
BytesStep(n, curr) ==
  /\ mode = "recv" /\ n <= RC_BUFSIZE /\ n <= sent - taken
  /\ rc_Buffer' = [i \in Index |-> IF i < n THEN taken + i + 1 ELSE rc_Buffer[i]]
  /\ taken' = taken + n
  /\ rc_Size' = n /\ rc_Curr' = curr
  /\ ret' = rc_Buffer'[0]
  /\ delivered' = delivered + 1
  /\ mode' = "call" /\ failures' = 0
  /\ UNCHANGED <<sent, closed>>
RecvBytes_NotPast(n) == BytesStep(n, 0)    \* variant
RecvBytes(n)         == BytesStep(n, 1)

\* recv() returned r <= 0: end of file (0) or an error (-1); rc_Size keeps it.
FailStep(r, size) ==
  /\ mode = "recv" /\ failures < MaxFailures
  /\ r = 0 => closed /\ taken = sent
  /\ rc_Size' = size
  /\ ret' = IF r = 0 THEN RC_EOF ELSE RC_ERROR
  /\ mode' = "call"
  /\ failures' = failures + 1
  /\ UNCHANGED <<rc_Curr, rc_Buffer, sent, taken, closed, delivered>>
RecvFails(r) == FailStep(r, r)

(***************************************************************************)
(* The reader's select(), and the peer                                     *)
(***************************************************************************)

\* The reader, told to, calls select(), which returns once recv() would not block.
Select ==
  /\ mode = "select" /\ Readable
  /\ mode' = "call"
  /\ UNCHANGED <<rc, sent, taken, closed, ret, delivered, failures>>

PeerSends ==
  /\ ~closed /\ sent < StreamLen
  /\ sent' = sent + 1
  /\ UNCHANGED <<rc, taken, closed, mode, ret, delivered, failures>>

PeerCloses ==
  /\ ~closed /\ closed' = TRUE
  /\ UNCHANGED <<rc, sent, taken, mode, ret, delivered, failures>>

Recv == (\E n \in 1 .. RC_BUFSIZE : RecvBytes(n)) \/ (\E r \in {-1, 0} : RecvFails(r))
CharReadCall == ReadBuffered \/ AskForSelect \/ EnterRecv \/ Recv

Next == CharReadCall \/ Select \/ PeerSends \/ PeerCloses

Spec == Init /\ [][Next]_vars

\* The reader keeps calling, recv() and select() return once they can.  The
\* peer promises nothing.
FairSpec == Spec /\ WF_vars(CharReadCall) /\ WF_vars(Select)

(***************************************************************************)
(* Properties                                                              *)
(***************************************************************************)

\* The bytes from rc_Curr to rc_Size are exactly the ones recv() has taken from
\* the socket and charRead has not returned yet, in stream order; nothing else
\* in the buffer can be returned.
BufferHoldsTheUndelivered ==
  /\ taken - delivered = IF rc_Curr < rc_Size THEN rc_Size - rc_Curr ELSE 0
  /\ \A i \in Index : i >= rc_Curr /\ i < rc_Size => rc_Buffer[i] = delivered + 1 + i - rc_Curr

\* charRead returns the stream's bytes in order, each exactly once, whatever
\* sizes recv() hands them over in and whatever errors come between.
InOrder == [][delivered' # delivered => ret' = delivered + 1 /\ delivered' = ret']_vars

\* recv() never overwrites a byte that charRead still owes to its caller.
NoOverwrite == [][rc_Buffer' # rc_Buffer => delivered = taken]_vars

\* However the stream is cut into recv()s: charRead enters recv() while there is
\* nothing to read only on the first call of all and after an error.  Whenever it has
\* returned a byte before, the last of its buffer included, or the end of the file,
\* recv() finds something, so that a caller that selects when it is told to is not
\* held up.
BlocksOnlyUntold == mode = "recv" /\ ~Readable => ret \in {NoRet, RC_ERROR}

\* rc_Curr, incremented by every call that finds the buffer empty and reset
\* only when recv() returns data, stays an int, and never indexes the buffer
\* from the wrong side.
CurrInRange == rc_Curr \in 1 .. INT_MAX

\* Every byte the peer has sent is returned in the end, as long as the reader
\* calls on.
AllDelivered == \A n \in 1 .. StreamLen : sent >= n ~> delivered >= n

(***************************************************************************)
(* Proofs, for every buffer size and stream.                               *)
(*                                                                         *)
(* The inductive invariant: RcCurrBound says what rc_Curr has grown by;    *)
(* RecvWhenEmpty and SelectAnswered say after which results, and in which  *)
(* states of the socket, charRead goes to recv().                          *)
(***************************************************************************)
RcCurrBound ==
  /\ rc_Curr >= 1 /\ failures <= MaxFailures
  /\ rc_Curr <= RC_BUFSIZE + failures + (IF mode = "recv" THEN 2 ELSE 1)

RecvWhenEmpty ==
  /\ mode \in {"select", "recv"} => rc_Curr > rc_Size
  /\ mode \in {"select", "recv"} \/ rc_Curr > rc_Size
       => ret \in {NoRet, RC_DO_SELECT, RC_EOF, RC_ERROR}

SelectAnswered ==
  /\ taken <= sent
  /\ mode \in {"call", "recv"} /\ ret = RC_DO_SELECT => Readable
  /\ ret = RC_EOF => closed

IInv == TypeOK /\ BufferHoldsTheUndelivered /\ RcCurrBound /\ RecvWhenEmpty /\ SelectAnswered

\* IInv holds initially.
LEMMA InitIInv == Init => IInv
<1> SUFFICES ASSUME Init PROVE IInv
  OBVIOUS
<1> USE BufSizeAssumption, BoundsAssumption
    DEF Init, Index, NoRet, NoByte, RC_DO_SELECT, RC_EOF, RC_ERROR
<1>1. TypeOK
  <2>1. rc_Size \in -1 .. RC_BUFSIZE /\ rc_Curr \in Nat /\ sent \in Nat /\ taken \in Nat
    OBVIOUS
  <2>2. rc_Buffer \in [Index -> Nat]
    OBVIOUS
  <2>3. closed \in BOOLEAN /\ mode \in {"call", "select", "recv"}
    OBVIOUS
  <2>4. ret \in Nat
    OBVIOUS
  <2>. QED
    BY <2>1, <2>2, <2>3, <2>4 DEF TypeOK
<1>2. BufferHoldsTheUndelivered /\ RcCurrBound /\ RecvWhenEmpty /\ SelectAnswered
  BY DEF BufferHoldsTheUndelivered, RcCurrBound, RecvWhenEmpty, SelectAnswered
<1>. QED
  BY <1>1, <1>2 DEF IInv

\* Each step of charRead, of select() and of the peer preserves IInv.
LEMMA StepIInv == IInv /\ [Next]_vars => IInv'
<1> SUFFICES ASSUME IInv, [Next]_vars PROVE IInv'
  OBVIOUS
<1> USE BufSizeAssumption, BoundsAssumption
    DEF IInv, TypeOK, BufferHoldsTheUndelivered, RcCurrBound, RecvWhenEmpty,
        SelectAnswered, Readable, Index, NoRet, NoByte, RC_DO_SELECT, RC_EOF, RC_ERROR
<1>1. CASE ReadBuffered
  BY <1>1 DEF ReadBuffered
<1>2. CASE AskForSelect
  BY <1>2 DEF AskForSelect, SelectStep
<1>3. CASE EnterRecv
  BY <1>3 DEF EnterRecv, RecvStep
<1>4. ASSUME NEW n \in 1 .. RC_BUFSIZE, RecvBytes(n) PROVE IInv'
  BY <1>4 DEF RecvBytes, BytesStep
<1>5. ASSUME NEW r \in {-1, 0}, RecvFails(r) PROVE IInv'
  BY <1>5 DEF RecvFails, FailStep
<1>6. CASE Select
  BY <1>6 DEF Select, rc
<1>7. CASE PeerSends
  BY <1>7 DEF PeerSends, rc
<1>8. CASE PeerCloses
  BY <1>8 DEF PeerCloses, rc
<1>9. CASE UNCHANGED vars
  BY <1>9 DEF vars, rc
<1>. QED
  BY <1>1, <1>2, <1>3, <1>4, <1>5, <1>6, <1>7, <1>8, <1>9
     DEF Next, CharReadCall, Recv

\* IInv is an invariant of the reader.
LEMMA Invariance == Spec => []IInv
BY InitIInv, StepIInv, PTL DEF Spec

\* For every buffer size: what is between rc_Curr and rc_Size is exactly what
\* charRead still owes its caller.
THEOREM BufferTheorem == Spec => []BufferHoldsTheUndelivered
BY Invariance, PTL DEF IInv

\* For every buffer size: rc_Curr stays an int as long as the caller gives up
\* before INT_MAX - RC_BUFSIZE - 2 failures in a row.
THEOREM CurrTheorem == Spec => []CurrInRange
<1>1. IInv => CurrInRange
  BY BufSizeAssumption, BoundsAssumption, IntAssumption DEF IInv, TypeOK, RcCurrBound, CurrInRange
<1>. QED
  BY <1>1, Invariance, PTL

\* For every buffer size and stream: charRead enters a recv() that can block only on
\* the first call and after an error; after a byte it always asks for a select() first,
\* and what select() waited for is still there when recv() is called
\* (charread.h:40-45).
THEOREM SelectTheorem == Spec => []BlocksOnlyUntold
<1>1. IInv => BlocksOnlyUntold
  <2> SUFFICES ASSUME IInv, mode = "recv", ~Readable PROVE ret \in {NoRet, RC_ERROR}
    BY DEF BlocksOnlyUntold
  <2>1. ret \in {NoRet, RC_DO_SELECT, RC_EOF, RC_ERROR}
    BY DEF IInv, RecvWhenEmpty
  <2>2. ret # RC_DO_SELECT /\ ret # RC_EOF
    BY DEF IInv, SelectAnswered, Readable
  <2>. QED
    BY <2>1, <2>2
<1>. QED
  BY <1>1, Invariance, PTL

\* For every buffer size: the stream comes out in order, each byte once.
THEOREM InOrderTheorem == Spec => InOrder
<1>1. IInv /\ [Next]_vars => [delivered' # delivered => ret' = delivered + 1 /\ delivered' = ret']_vars
  <2> SUFFICES ASSUME IInv, Next, delivered' # delivered
               PROVE  ret' = delivered + 1 /\ delivered' = ret'
    BY DEF vars, rc
  <2> USE BufSizeAssumption, BoundsAssumption
      DEF IInv, TypeOK, BufferHoldsTheUndelivered, RecvWhenEmpty, Index
  <2>1. CASE ReadBuffered
    BY <2>1 DEF ReadBuffered
  <2>2. ASSUME NEW n \in 1 .. RC_BUFSIZE, RecvBytes(n)
        PROVE  ret' = delivered + 1 /\ delivered' = ret'
    BY <2>2 DEF RecvBytes, BytesStep
  <2>3. CASE AskForSelect \/ EnterRecv \/ (\E r \in {-1, 0} : RecvFails(r))
              \/ Select \/ PeerSends \/ PeerCloses
    BY <2>3 DEF AskForSelect, SelectStep, EnterRecv, RecvStep, RecvFails, FailStep, Select, PeerSends, PeerCloses
  <2>. QED
    BY <2>1, <2>2, <2>3 DEF Next, CharReadCall, Recv
<1>. QED
  BY <1>1, Invariance, PTL DEF Spec, InOrder

\* For every buffer size: recv() is only called once the buffer is drained.
THEOREM NoOverwriteTheorem == Spec => NoOverwrite
<1>1. IInv /\ [Next]_vars => [rc_Buffer' # rc_Buffer => delivered = taken]_vars
  <2> SUFFICES ASSUME IInv, Next, rc_Buffer' # rc_Buffer PROVE delivered = taken
    BY DEF vars, rc
  <2>1. CASE \E n \in 1 .. RC_BUFSIZE : RecvBytes(n)
    BY <2>1 DEF RecvBytes, BytesStep, IInv, TypeOK, BufferHoldsTheUndelivered, RecvWhenEmpty
  <2>2. CASE ReadBuffered \/ AskForSelect \/ EnterRecv \/ (\E r \in {-1, 0} : RecvFails(r))
              \/ Select \/ PeerSends \/ PeerCloses
    BY <2>2 DEF ReadBuffered, AskForSelect, SelectStep, EnterRecv, RecvStep, RecvFails, FailStep, Select, PeerSends, PeerCloses, rc
  <2>. QED
    BY <2>1, <2>2 DEF Next, CharReadCall, Recv
<1>. QED
  BY <1>1, Invariance, PTL DEF Spec, NoOverwrite
=============================================================================
