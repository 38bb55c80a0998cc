------------------------------- MODULE MemSet -------------------------------
(***************************************************************************)
(* memset as include/string.h compiles it: __asm_memset for the 68000 and  *)
(* for the 68020.  The fill byte is spread over the register d0, whose     *)
(* four bytes are a tuple, most significant first; d2 counts modulo the    *)
(* width of a register.                                                    *)
(***************************************************************************)
EXTENDS Integers, Sequences

CONSTANTS
  WordMod,  \* 2^16, the range of the word instructions and of dbf
  LongMod,  \* 2^32, the range of a register
  Top,      \* highest address
  Calls     \* the calls that are made

Bytes == 0 .. Top
Fill == "f"                   \* the low byte of the int that is given
Given == <<"c", "b", "a", Fill>>
Old == "o"                    \* what memory holds before

Legal(c) == c.n < LongMod /\ c.p + c.n <= Top + 1

\* A register counts at least to 16, and calls are legal.
Machine ==
  /\ WordMod \in Nat /\ LongMod \in Nat /\ Top \in Nat /\ 16 <= WordMod /\ WordMod <= LongMod
  /\ \A c \in Calls : c.cpu \in {68000, 68020} /\ c.p \in Nat /\ c.n \in Nat /\ Legal(c)

VARIABLES
  call,            \* the call that is made
  pc,              \* the block of instructions that is next
  a0, result,      \* next address, the value returned
  d0, d1, d2,      \* fill register, remainder or half the address, count
  mem
vars == <<call, pc, a0, result, d0, d1, d2, mem>>

Init ==
  /\ call \in Calls
  /\ pc = "start" /\ a0 = call.p /\ result = 0
  /\ d0 = Given /\ d1 = 0 /\ d2 = call.n
  /\ mem = [a \in Bytes |-> Old]

\* move.x d0,(a0)+ writes the k low bytes of d0.
Store(k) ==
  /\ a0' = a0 + k
  /\ mem' = [a \in Bytes |-> IF a \in a0 .. a0 + k - 1 THEN d0[4 - k + 1 + (a - a0)] ELSE mem[a]]
NoStore == UNCHANGED <<a0, mem>>

Sub(x, k)     == IF x >= k THEN x - k ELSE x + LongMod - k
Borrows(x, k) == x < k
Low(x)        == x % WordMod
On(cpu, block) == call.cpu = cpu /\ pc = block

\* The instructions that spread the fill byte.
LslWord(r)     == <<r[1], r[2], r[4], "0">>
LslLong(r)     == <<r[2], r[3], r[4], "0">>
MoveByte(s, r) == <<r[1], r[2], r[3], s[4]>>
MoveWord(s, r) == <<r[1], r[2], s[3], s[4]>>
Swap(r)        == <<r[3], r[4], r[1], r[2]>>
SpreadFrom(r)    == MoveWord(r, Swap(r))
Spread000_NoSwap(r) == MoveWord(r, r)
Spread000(r)     == SpreadFrom(MoveByte(r, LslWord(r)))
Spread020_Lsl(r) == SpreadFrom(LslLong(r))
Spread020(r)     == SpreadFrom(MoveByte(r, LslLong(r)))

\* 68000: less than 16 bytes are set by the last loop; else the address is made
\* even, the byte spread and the longs counted.
AddressOdd_Not(a) == a % 2 = 0
AddressOdd(a) == a % 2 = 1
Start000 ==
  /\ On(68000, "start") /\ result' = a0
  /\ \/ d2 < 16 /\ pc' = "tail" /\ NoStore /\ d2' = d2
     \/ ~(d2 < 16) /\ pc' = "spread" /\ AddressOdd(a0) /\ Store(1) /\ d2' = Sub(d2, 1)
     \/ ~(d2 < 16) /\ pc' = "spread" /\ ~AddressOdd(a0) /\ NoStore /\ d2' = d2
  /\ UNCHANGED <<call, d0, d1>>

Spread ==
  /\ On(68000, "spread") /\ pc' = "longs"
  /\ d0' = Spread000(d0) /\ d1' = d2 % 4 /\ d2' = Sub(d2, d2 % 4)
  /\ NoStore /\ UNCHANGED <<call, result>>

Longs000 ==
  /\ On(68000, "longs") /\ Store(4)
  /\ LET left == Sub(d2, 4)
     IN  \/ left # 0 /\ d2' = left /\ pc' = "longs"
         \/ left = 0 /\ d2' = Low(d1) /\ pc' = "tail"
  /\ UNCHANGED <<call, result, d0, d1>>

Tail000 ==
  /\ On(68000, "tail")
  /\ \/ Low(d2) = 0 /\ pc' = "end" /\ d2' = d2 + WordMod - 1
     \/ Low(d2) # 0 /\ pc' = "dbf" /\ d2' = d2 - 1
  /\ NoStore /\ UNCHANGED <<call, result, d0, d1>>

\* 68020: less than 8 bytes are set by the last loop, with d0 as it was given.
\* Else four are taken off the count in advance, so that after making the
\* address a multiple of four there is always a long to store.
Ahead_Forgotten == Sub(d2, 8)
Ahead == (Sub(d2, 8) + 4) % LongMod
Start020 ==
  /\ On(68020, "start") /\ result' = a0
  /\ \/ Borrows(d2, 8) /\ pc' = "rest" /\ d2' = Sub(d2, 8) /\ NoStore /\ UNCHANGED <<d0, d1>>
     \/ /\ ~Borrows(d2, 8) /\ pc' = "half" /\ d0' = Spread020(d0)
        /\ d1' = (a0 + 1) \div 2
        /\ \/ a0 % 2 = 0 /\ NoStore /\ d2' = Ahead
           \/ /\ a0 % 2 = 1 /\ a0' = a0 + 1 /\ mem' = [mem EXCEPT ![a0] = Spread020(d0)[4]]
              /\ d2' = Sub(Ahead, 1)
  /\ UNCHANGED call

Half020 ==
  /\ On(68020, "half") /\ pc' = "longs"
  /\ \/ d1 % 2 = 0 /\ NoStore /\ d2' = d2
     \/ d1 % 2 = 1 /\ Store(2) /\ d2' = Sub(d2, 2)
  /\ UNCHANGED <<call, result, d0, d1>>

\* The loop of longs, then addq.l #3: a carry unless nothing is left.
Longs020 ==
  /\ On(68020, "longs") /\ Store(4)
  /\ \/ ~Borrows(d2, 4) /\ pc' = "longs" /\ d2' = d2 - 4
     \/ /\ Borrows(d2, 4) /\ d2' = (Sub(d2, 4) + 3) % LongMod
        /\ pc' = IF Sub(d2, 4) + 3 >= LongMod THEN "dbf" ELSE "end"
  /\ UNCHANGED <<call, result, d0, d1>>

\* addq.l #7 undoes the subtraction of 8 at the start.
Rest020 ==
  /\ On(68020, "rest")
  /\ d2' = (d2 + 7) % LongMod /\ pc' = IF d2 + 7 >= LongMod THEN "dbf" ELSE "end"
  /\ NoStore /\ UNCHANGED <<call, result, d0, d1>>

Dbf ==
  /\ pc = "dbf" /\ Store(1)
  /\ \/ Low(d2) = 0 /\ pc' = "end" /\ d2' = d2 + WordMod - 1
     \/ Low(d2) # 0 /\ pc' = "dbf" /\ d2' = d2 - 1
  /\ UNCHANGED <<call, result, d0, d1>>

End == pc = "end" /\ pc' = "done" /\ UNCHANGED <<call, a0, result, d0, d1, d2, mem>>

Next ==
  \/ Start000 \/ Spread \/ Longs000 \/ Tail000
  \/ Start020 \/ Half020 \/ Longs020 \/ Rest020 \/ Dbf \/ End

Spec == Init /\ [][Next]_vars

\* memset sets every byte of the block to the low byte of its argument, whatever
\* the others are, changes no other byte and returns the address (line 325).  On the
\* way the 68000 stores longs at even addresses only (lines 118-136), and the 68020
\* at multiples of four (lines 218-232).
Filled ==
  /\ pc = "done" =>
       /\ result = call.p
       /\ \A a \in Bytes : mem[a] = IF a \in call.p .. call.p + call.n - 1 THEN Fill ELSE Old
  /\ pc = "longs" => IF call.cpu = 68000 THEN a0 % 2 = 0 ELSE a0 % 4 = 0
=============================================================================
