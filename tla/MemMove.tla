------------------------------ MODULE MemMove ------------------------------
(***************************************************************************)
(* memcpy and memmove as include/string.h compiles them: the routines      *)
(* __asm_memcpy and __asm_memcpy_desc for the 68000 (which cannot access a *)
(* word at an odd address) and for the 68020, and the macro that chooses   *)
(* between the two.  One action per straight run of instructions; d2       *)
(* counts, in modular arithmetic; values d0 and d1 hold only to test the   *)
(* parity of an address are left out.                                      *)
(***************************************************************************)
EXTENDS Integers

CONSTANTS
  WordMod,  \* 2^16, the range of the word instructions and of dbf
  LongMod,  \* 2^32, the range of a register
  Top,      \* highest address
  Calls     \* the calls that are made

Bytes == 0 .. Top
Call == [fn : {"memcpy", "memmove"}, cpu : {68000, 68020}, d : Nat, s : Nat, n : Nat]

\* The caller's side: both blocks are memory, and memcpy's do not overlap.
Legal(c) ==
  /\ c.n < LongMod /\ c.d + c.n <= Top + 1 /\ c.s + c.n <= Top + 1
  /\ c.fn = "memcpy" => c.d + c.n <= c.s \/ c.s + c.n <= c.d \/ c.n = 0

ASSUME WidthAssumption ==
  WordMod \in Nat /\ LongMod \in Nat /\ Top \in Nat /\ 16 <= WordMod /\ WordMod <= LongMod
ASSUME CallAssumption == Calls \subseteq Call /\ \A c \in Calls : Legal(c)

VARIABLES
  call,            \* the call that is made
  pc,              \* the block of instructions that is next
  a0, a1,          \* destination and source
  d0, d1, d2,      \* result, remainder or half the destination, count
  mem              \* memory; a byte is the address it was at when the call began
vars == <<call, pc, a0, a1, d0, d1, d2, mem>>

\* #define memmove(d,s,n) ((d)<=(s) ? ... : ...)
Descending_Never == FALSE
Descending == call.fn = "memmove" /\ ~(call.d <= call.s)

TypeOK ==
  /\ call \in Calls
  /\ pc \in {"start", "aligned", "bytes", "half", "longs", "tail", "rest", "dbf", "end", "done"}
  /\ a0 \in 0 .. Top + 1 /\ a1 \in 0 .. Top + 1
  /\ d0 \in 0 .. Top + 1 /\ d1 \in Nat /\ d2 \in 0 .. LongMod - 1
  /\ mem \in [Bytes -> Bytes]

Init ==
  /\ call \in Calls
  /\ pc = "start" /\ d0 = 0 /\ d1 = 0 /\ d2 = call.n
  /\ a0 = IF Descending THEN call.d + call.n ELSE call.d
  /\ a1 = IF Descending THEN call.s + call.n ELSE call.s
  /\ mem = [a \in Bytes |-> a]

\* move.x (a1)+,(a0)+ or move.x -(a1),-(a0): k bytes are read, then written.
Blit(to, from, k) ==
  [a \in Bytes |-> IF a \in to .. to + k - 1 THEN mem[from + (a - to)] ELSE mem[a]]
Move(k) ==
  IF Descending
  THEN a0' = a0 - k /\ a1' = a1 - k /\ mem' = Blit(a0 - k, a1 - k, k)
  ELSE a0' = a0 + k /\ a1' = a1 + k /\ mem' = Blit(a0, a1, k)
NoMove == UNCHANGED <<a0, a1, mem>>

\* subq.l, and whether it borrows; the word that subq.w and dbf work on.
Sub(x, k)   == IF x >= k THEN x - k ELSE x + LongMod - k
Borrows(x, k) == x < k
Low(x)      == x % WordMod

At(block) == pc = block
On(cpu, block) == call.cpu = cpu /\ pc = block

\* 68000: less than 16 bytes are copied by the last loop; else the destination
\* is made even.
Start000 ==
  /\ On(68000, "start")
  /\ d0' = IF Descending THEN d0 ELSE a0
  /\ \/ d2 < 16 /\ pc' = "tail" /\ NoMove /\ d2' = d2
     \/ ~(d2 < 16) /\ pc' = "aligned" /\ a0 % 2 = 1 /\ Move(1) /\ d2' = Sub(d2, 1)
     \/ ~(d2 < 16) /\ pc' = "aligned" /\ a0 % 2 = 0 /\ NoMove /\ d2' = d2
  /\ UNCHANGED <<call, d1>>

\* An even source is copied by longs, an odd one by bytes: in the last loop if
\* its word can count them.
SourceEven_Destination == a0 % 2 = 0
SourceEven == a1 % 2 = 0
FitsWord_Unsigned == TRUE
FitsWord == d2 < WordMod
Aligned000 ==
  /\ On(68000, "aligned")
  /\ \/ SourceEven /\ pc' = "longs" /\ d1' = d2 % 4 /\ d2' = Sub(d2, d2 % 4)
     \/ ~SourceEven /\ pc' = (IF FitsWord THEN "tail" ELSE "bytes") /\ UNCHANGED <<d1, d2>>
  /\ NoMove /\ UNCHANGED <<call, d0>>

Bytes000 ==
  /\ On(68000, "bytes")
  /\ Move(1) /\ d2' = Sub(d2, 1) /\ pc' = IF d2' = 0 THEN "end" ELSE "bytes"
  /\ UNCHANGED <<call, d0, d1>>

\* When no long is left, the low word of d2 becomes the remainder.
Longs000 ==
  /\ On(68000, "longs") /\ Move(4)
  /\ LET left == Sub(d2, 4)
     IN  \/ left # 0 /\ d2' = left /\ pc' = "longs"
         \/ left = 0 /\ d2' = Low(d1) /\ pc' = "tail"
  /\ UNCHANGED <<call, d0, d1>>

Tail000 ==
  /\ On(68000, "tail")
  /\ \/ Low(d2) = 0 /\ pc' = "end" /\ d2' = d2 + WordMod - 1
     \/ Low(d2) # 0 /\ pc' = "dbf" /\ d2' = d2 - 1
  /\ NoMove /\ UNCHANGED <<call, d0, d1>>

\* 68020: less than 4 bytes are copied by the last loop; else the destination is
\* made even, then a multiple of four.  Each subtraction that borrows leaves the
\* loop of longs nothing to do.
Start020 ==
  /\ On(68020, "start")
  /\ d0' = IF Descending THEN d0 ELSE a0
  /\ d1' = IF Descending THEN a0 \div 2 ELSE (a0 + 1) \div 2
  /\ \/ Borrows(d2, 4) /\ pc' = "rest" /\ d2' = Sub(d2, 4) /\ NoMove
     \/ ~Borrows(d2, 4) /\ a0 % 2 = 0 /\ pc' = "half" /\ d2' = Sub(d2, 4) /\ NoMove
     \/ /\ ~Borrows(d2, 4) /\ a0 % 2 = 1 /\ Move(1)
        /\ d2' = Sub(Sub(d2, 4), 1) /\ pc' = IF Borrows(Sub(d2, 4), 1) THEN "rest" ELSE "half"
  /\ UNCHANGED call

Half020 ==
  /\ On(68020, "half")
  /\ \/ d1 % 2 = 0 /\ pc' = "longs" /\ d2' = d2 /\ NoMove
     \/ d1 % 2 = 1 /\ Move(2) /\ d2' = Sub(d2, 2) /\ pc' = IF Borrows(d2, 2) THEN "rest" ELSE "longs"
  /\ UNCHANGED <<call, d0, d1>>

Longs020 ==
  /\ On(68020, "longs") /\ Move(4)
  /\ d2' = Sub(d2, 4) /\ pc' = IF Borrows(d2, 4) THEN "rest" ELSE "longs"
  /\ UNCHANGED <<call, d0, d1>>

\* addq.l #3: a carry if one to three bytes are left, one less in d2.
Carries_Zero(x, k) == x + k >= LongMod - 1
Carries(x, k) == x + k >= LongMod
Rest020 ==
  /\ On(68020, "rest")
  /\ \/ Carries(d2, 3) /\ pc' = "dbf" /\ d2' = d2 + 3 - LongMod
     \/ ~Carries(d2, 3) /\ pc' = "end" /\ d2' = d2 + 3
  /\ NoMove /\ UNCHANGED <<call, d0, d1>>

\* move.b, dbf: one more time than the low word of d2 says.
Dbf ==
  /\ At("dbf") /\ Move(1)
  /\ \/ Low(d2) = 0 /\ pc' = "end" /\ d2' = d2 + WordMod - 1
     \/ Low(d2) # 0 /\ pc' = "dbf" /\ d2' = d2 - 1
  /\ UNCHANGED <<call, d0, d1>>

\* __asm_memcpy_desc returns the destination it ends at.
End ==
  /\ At("end") /\ pc' = "done"
  /\ d0' = IF Descending THEN a0 ELSE d0
  /\ NoMove /\ UNCHANGED <<call, d1, d2>>

Next ==
  \/ Start000 \/ Aligned000 \/ Bytes000 \/ Longs000 \/ Tail000
  \/ Start020 \/ Half020 \/ Longs020 \/ Rest020 \/ Dbf \/ End

Spec == Init /\ [][Next]_vars

\* memcpy and memmove return the destination, which then holds what the source
\* held when they were called, and change no other byte: for every length, every
\* alignment, and for memmove every overlap (lines 322-324).
Copied ==
  pc = "done" =>
    /\ d0 = call.d
    /\ \A a \in Bytes :
         mem[a] = IF a \in call.d .. call.d + call.n - 1 THEN call.s + (a - call.d) ELSE a

\* What the block that is next will move: from and to inside the two blocks of
\* the call, at even addresses where a 68000 moves longs (lines 48-65, 86-103), to
\* a multiple of the size on the 68020 (lines 153-169, 182-197).
Size == CASE pc = "longs" -> 4 [] pc = "half" /\ d1 % 2 = 1 -> 2 [] pc \in {"bytes", "dbf"} -> 1 [] OTHER -> 0
MovesInside ==
  LET next == IF Descending THEN Size ELSE 0
  IN  Size > 0 =>
        /\ call.d <= a0 - next /\ a0 - next + Size <= call.d + call.n
        /\ call.s <= a1 - next /\ a1 - next + Size <= call.s + call.n
MovesAligned ==
  /\ call.cpu = 68000 /\ Size = 4 => a0 % 2 = 0 /\ a1 % 2 = 0
  /\ call.cpu = 68020 /\ Size > 1 => a0 % Size = 0
=============================================================================
