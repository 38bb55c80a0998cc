--------------------------- MODULE MemMoveProofs ---------------------------
(***************************************************************************)
(* memcpy and memmove are right for every width of the machine, every      *)
(* length a register can count, every alignment and every overlap.         *)
(*                                                                         *)
(* The inductive invariant says how many bytes are left, which each block  *)
(* of instructions represents in its own way in d1 and d2, that both       *)
(* pointers are that far from the end they run to, and that memory between *)
(* the end they started from and where they are now has been copied.       *)
(***************************************************************************)
EXTENDS MemMove, TLAPS

Backwards(c) == c.fn = "memmove" /\ ~(c.d <= c.s)

\* The pointers when l bytes of call c are left, and memory.
Pointers(c, l, x, y) ==
  /\ l \in 0 .. c.n
  /\ x = IF Backwards(c) THEN c.d + l ELSE c.d + c.n - l
  /\ y = IF Backwards(c) THEN c.s + l ELSE c.s + c.n - l
Done(c, l) ==
  IF Backwards(c) THEN c.d + l .. c.d + c.n - 1 ELSE c.d .. c.d + c.n - l - 1
Moved(c, l, m) ==
  /\ m \in [Bytes -> Bytes]
  /\ \A a \in Bytes : m[a] = IF a \in Done(c, l) THEN c.s + (a - c.d) ELSE a
Placed(c, l, x, y, m) == Pointers(c, l, x, y) /\ Moved(c, l, m)

\* Bytes still to be moved, as the block that is next has them in d1 and d2, and
\* what else that block relies on.
Holds(l) == Placed(call, l, a0, a1, mem)
Progress ==
  /\ pc = "start" => Holds(d2) /\ d2 = call.n
  /\ pc = "aligned" => call.cpu = 68000 /\ Holds(d2) /\ d2 >= 15
  /\ pc = "bytes" => call.cpu = 68000 /\ Holds(d2) /\ d2 > 0
  /\ pc = "tail" => call.cpu = 68000 /\ Holds(d2) /\ d2 < WordMod
  /\ pc = "longs" /\ call.cpu = 68000 =>
       Holds(d2 + d1) /\ d2 >= 4 /\ d2 % 4 = 0 /\ d1 \in 0 .. 3
  /\ pc = "longs" /\ call.cpu = 68020 => Holds(d2 + 4)
  /\ pc = "half" => call.cpu = 68020 /\ Holds(d2 + 4)
  /\ pc = "rest" => call.cpu = 68020 /\ Holds(d2 + 4 - LongMod) /\ d2 >= LongMod - 4
  /\ pc = "dbf" => Holds(d2 + 1) /\ d2 < WordMod
  /\ pc \in {"end", "done"} => Holds(0)

\* How an address relates to the size of the moves.
Parity ==
  /\ pc = "aligned" => a0 % 2 = 0
  /\ pc = "longs" /\ call.cpu = 68000 => a0 % 2 = 0 /\ a1 % 2 = 0
  /\ pc = "half" => a0 = 2 * d1
  /\ pc = "longs" /\ call.cpu = 68020 => a0 % 4 = 0

\* Each block of instructions, with what the registers hold.
Registers ==
  /\ call \in Calls
  /\ pc \in {"start", "aligned", "bytes", "half", "longs", "tail", "rest", "dbf", "end", "done"}
  /\ d0 \in 0 .. Top + 1 /\ d1 \in Nat /\ d2 \in 0 .. LongMod - 1

\* The ascending routine keeps the destination in d0 from its first instruction.
Result ==
  /\ pc # "start" /\ ~Backwards(call) => d0 = call.d
  /\ pc = "done" => d0 = call.d

MoveInv == Registers /\ Progress /\ Parity /\ Result

\* The facts about a call the proofs use.
LEMMA CallFacts ==
  ASSUME NEW c \in Calls
  PROVE  /\ c.d \in Nat /\ c.s \in Nat /\ c.n \in Nat /\ c.cpu \in {68000, 68020}
         /\ c.n < LongMod /\ c.d + c.n <= Top + 1 /\ c.s + c.n <= Top + 1
         /\ Backwards(c) \in BOOLEAN /\ (Backwards(c) => c.s < c.d)
         /\ ~Backwards(c) => c.d <= c.s \/ c.s + c.n <= c.d \/ c.n = 0
         /\ Top \in Nat /\ LongMod \in Nat /\ WordMod \in Nat /\ 16 <= WordMod /\ WordMod <= LongMod
BY CallAssumption, WidthAssumption DEF Call, Legal, Backwards

\* A pointer is an address or the one behind the last.
LEMMA PointerRange ==
  ASSUME NEW c \in Calls, NEW l, NEW x, NEW y, Pointers(c, l, x, y)
  PROVE  x \in 0 .. Top + 1 /\ y \in 0 .. Top + 1 /\ l \in Nat
BY CallFacts DEF Pointers

\* One move of k bytes leaves k bytes fewer to be moved: what it reads has not
\* been written before, whichever way the blocks overlap.
LEMMA MoveStep ==
  ASSUME call \in Calls, NEW k \in {1, 2, 4}, NEW l, Placed(call, l, a0, a1, mem), k <= l, Move(k)
  PROVE  Placed(call, l - k, a0', a1', mem')
<1> USE DEF Bytes
<1>1. call.d \in Nat /\ call.s \in Nat /\ call.n \in Nat /\ Top \in Nat
      /\ call.d + call.n <= Top + 1 /\ call.s + call.n <= Top + 1
  BY CallFacts
<1>2. k \in Nat /\ l \in Nat /\ l <= call.n /\ l - k \in 0 .. call.n
  BY <1>1 DEF Placed, Pointers
<1>3. mem \in [Bytes -> Bytes]
      /\ \A a \in Bytes : mem[a] = IF a \in Done(call, l) THEN call.s + (a - call.d) ELSE a
  BY DEF Placed, Moved
<1>4. CASE Backwards(call)
  <2>1. a0 = call.d + l /\ a1 = call.s + l /\ call.s < call.d
    BY <1>4, CallFacts DEF Placed, Pointers
  <2>2. a0' = a0 - k /\ a1' = a1 - k /\ mem' = Blit(a0 - k, a1 - k, k)
    BY <1>4 DEF Move, Descending, Backwards
  <2>3. Pointers(call, l - k, a0', a1')
    BY <1>1, <1>2, <1>4, <2>1, <2>2 DEF Pointers
  <2>4. mem' = [a \in Bytes |-> IF a \in a0 - k .. a0 - 1 THEN mem[a1 - k + (a - (a0 - k))] ELSE mem[a]]
    <3>1. a0 - k + k - 1 = a0 - 1
      BY <1>1, <1>2, <2>1
    <3> QED BY <2>2, <3>1 DEF Blit
  <2>5. ASSUME NEW a \in Bytes
        PROVE  mem'[a] = (IF a \in Done(call, l - k) THEN call.s + (a - call.d) ELSE a)
               /\ mem'[a] \in Bytes
    <3>1. \A b \in Bytes :
            /\ b \in Done(call, l) <=> b \in a0 .. call.d + call.n - 1
            /\ b \in Done(call, l - k) <=> b \in a0 - k .. call.d + call.n - 1
      <4> TAKE b \in Bytes
      <4>1. /\ b \in Done(call, l) <=> b \in call.d + l .. call.d + call.n - 1
            /\ b \in Done(call, l - k) <=> b \in call.d + (l - k) .. call.d + call.n - 1
        BY <1>4 DEF Done
      <4> QED BY <1>1, <1>2, <2>1, <4>1
    <3>0. a0 \in Nat /\ a1 \in Nat /\ a0 <= call.d + call.n /\ a0 - a1 = call.d - call.s
          /\ a1 - k >= call.s /\ a1 <= call.s + call.n /\ a1 < a0
      BY <1>1, <1>2, <2>1
    <3>2. CASE a \in a0 - k .. a0 - 1
      <4>1. a1 - k + (a - (a0 - k)) = call.s + (a - call.d)
        BY <1>1, <1>2, <2>1, <3>0, <3>2
      <4>2. call.s + (a - call.d) \in Bytes /\ call.s + (a - call.d) \notin a0 .. call.d + call.n - 1
        BY <1>1, <1>2, <2>1, <3>0, <3>2
      <4>3. mem'[a] = call.s + (a - call.d)
        BY <1>3, <2>4, <3>1, <3>2, <4>1, <4>2
      <4>4. a \in Done(call, l - k)
        BY <1>1, <1>2, <3>0, <3>1, <3>2
      <4> QED BY <4>2, <4>3, <4>4
    <3>3. CASE a \notin a0 - k .. a0 - 1
      <4>1. mem'[a] = mem[a]
        BY <2>4, <3>3
      <4>2. a \in Done(call, l - k) <=> a \in Done(call, l)
        BY <1>1, <1>2, <3>0, <3>1, <3>3
      <4> QED BY <1>3, <4>1, <4>2
    <3> QED BY <3>2, <3>3
  <2>6. Moved(call, l - k, mem')
    BY <2>4, <2>5 DEF Moved
  <2> QED BY <2>3, <2>6 DEF Placed
<1>5. CASE ~Backwards(call)
  <2>1. a0 = call.d + call.n - l /\ a1 = call.s + call.n - l
        /\ (call.d <= call.s \/ call.s + call.n <= call.d)
    BY <1>1, <1>2, <1>5, CallFacts DEF Placed, Pointers
  <2>2. a0' = a0 + k /\ a1' = a1 + k /\ mem' = Blit(a0, a1, k)
    BY <1>5 DEF Move, Descending, Backwards
  <2>3. Pointers(call, l - k, a0', a1')
    BY <1>1, <1>2, <1>5, <2>1, <2>2 DEF Pointers
  <2>4. mem' = [a \in Bytes |-> IF a \in a0 .. a0 + k - 1 THEN mem[a1 + (a - a0)] ELSE mem[a]]
    BY <2>2 DEF Blit
  <2>5. ASSUME NEW a \in Bytes
        PROVE  mem'[a] = (IF a \in Done(call, l - k) THEN call.s + (a - call.d) ELSE a)
               /\ mem'[a] \in Bytes
    <3>1. \A b \in Bytes :
            /\ b \in Done(call, l) <=> b \in call.d .. a0 - 1
            /\ b \in Done(call, l - k) <=> b \in call.d .. a0 + k - 1
      <4> TAKE b \in Bytes
      <4>1. /\ b \in Done(call, l) <=> b \in call.d .. call.d + call.n - l - 1
            /\ b \in Done(call, l - k) <=> b \in call.d .. call.d + call.n - (l - k) - 1
        BY <1>5 DEF Done
      <4> QED BY <1>1, <1>2, <2>1, <4>1
    <3>0. a0 \in Nat /\ a1 \in Nat /\ call.d <= a0 /\ a1 - a0 = call.s - call.d
          /\ a1 + k <= call.s + call.n /\ a1 >= call.s
      BY <1>1, <1>2, <2>1
    <3>2. CASE a \in a0 .. a0 + k - 1
      <4>1. a1 + (a - a0) = call.s + (a - call.d)
        BY <1>1, <2>1, <3>0, <3>2
      <4>2. call.s + (a - call.d) \in Bytes /\ call.s + (a - call.d) \notin call.d .. a0 - 1
        BY <1>1, <2>1, <3>0, <3>2
      <4>3. mem'[a] = call.s + (a - call.d)
        BY <1>3, <2>4, <3>1, <3>2, <4>1, <4>2
      <4>4. a \in Done(call, l - k)
        BY <1>1, <3>0, <3>1, <3>2
      <4> QED BY <4>2, <4>3, <4>4
    <3>3. CASE a \notin a0 .. a0 + k - 1
      <4>1. mem'[a] = mem[a]
        BY <2>4, <3>3
      <4>2. a \in Done(call, l - k) <=> a \in Done(call, l)
        BY <1>1, <3>0, <3>1, <3>3
      <4> QED BY <1>3, <4>1, <4>2
    <3> QED BY <3>2, <3>3
  <2>6. Moved(call, l - k, mem')
    BY <2>4, <2>5 DEF Moved
  <2> QED BY <2>3, <2>6 DEF Placed
<1> QED BY <1>4, <1>5

\* The same for a move that leaves the call alone: what holds of l bytes before
\* holds of l - k after, and the pointers have moved by k.
LEMMA MoveHolds ==
  ASSUME call \in Calls, call' = call, NEW k \in {1, 2, 4}, NEW l, Holds(l), k <= l, Move(k)
  PROVE  /\ Placed(call', l - k, a0', a1', mem')
         /\ IF Backwards(call) THEN a0' = a0 - k /\ a1' = a1 - k ELSE a0' = a0 + k /\ a1' = a1 + k
BY MoveStep DEF Holds, Move, Descending, Backwards

LEMMA StayHolds ==
  ASSUME call' = call, NoMove, NEW l, Holds(l)
  PROVE  Placed(call', l, a0', a1', mem')
BY DEF Holds, NoMove

LEMMA LowWord ==
  ASSUME NEW x \in Nat, x < WordMod
  PROVE  Low(x) = x
BY WidthAssumption DEF Low

LEMMA ModFour ==
  ASSUME NEW x \in Nat
  PROVE  /\ x % 4 \in 0 .. 3 /\ x - (x % 4) \in Nat /\ (x - (x % 4)) % 4 = 0
         /\ x >= 4 => x - (x % 4) >= 4
         /\ x >= 4 /\ x % 4 = 0 => (x - 4) % 4 = 0 /\ (x - 4 = 0 \/ x - 4 >= 4)
         /\ x % 4 = 0 => (x + 4) % 4 = 0 /\ x % 2 = 0
         /\ x % 2 = 0 => (x + 4) % 2 = 0
         /\ x >= 4 /\ x % 2 = 0 => (x - 4) % 2 = 0
         /\ x % 2 \in {0, 1} /\ (x % 2 = 1 => (x + 1) % 2 = 0 /\ (x >= 1 /\ (x - 1) % 2 = 0))
  OBVIOUS

LEMMA HoldsRange ==
  ASSUME call \in Calls, NEW l, Holds(l)
  PROVE  l \in 0 .. call.n /\ a0 \in 0 .. Top + 1 /\ a1 \in 0 .. Top + 1 /\ mem \in [Bytes -> Bytes]
BY PointerRange DEF Holds, Placed, Pointers, Moved

LEMMA InitMove == Init => MoveInv
<1> SUFFICES ASSUME Init PROVE MoveInv
  OBVIOUS
<1>1. call \in Calls /\ call.d \in Nat /\ call.s \in Nat /\ call.n \in Nat /\ call.n < LongMod
  BY CallFacts DEF Init
<1>2. Pointers(call, call.n, a0, a1)
  BY <1>1 DEF Init, Pointers, Descending, Backwards
<1>3. ASSUME NEW a \in Bytes PROVE a \notin Done(call, call.n)
  BY <1>1 DEF Done, Bytes
<1>4. Moved(call, call.n, mem)
  BY <1>3 DEF Init, Moved, Bytes
<1>5. Holds(d2) /\ d2 = call.n
  BY <1>2, <1>4 DEF Init, Holds, Placed
<1> QED
  BY <1>1, <1>5, WidthAssumption DEF Init, MoveInv, Registers, Progress, Parity, Result

\* What every step from the invariant may use.
LEMMA StepFacts ==
  ASSUME MoveInv
  PROVE  /\ call \in Calls /\ d0 \in 0 .. Top + 1 /\ d1 \in Nat /\ d2 \in 0 .. LongMod - 1 /\ d2 \in Nat
         /\ Top \in Nat /\ LongMod \in Nat /\ WordMod \in Nat /\ 16 <= WordMod /\ WordMod <= LongMod
         /\ call.cpu \in {68000, 68020} /\ Backwards(call) \in BOOLEAN /\ Descending = Backwards(call)
         /\ call.n \in Nat /\ call.n < LongMod /\ call.d \in Nat
         /\ ~Backwards(call) /\ Placed(call, call.n, a0, a1, mem) => a0 = call.d
<1>1. call \in Calls /\ d0 \in 0 .. Top + 1 /\ d1 \in Nat /\ d2 \in 0 .. LongMod - 1
  BY DEF MoveInv, Registers
<1> QED
  BY <1>1, CallFacts, WidthAssumption DEF Backwards, Descending, Placed, Pointers

\* A step that moves nothing and one that moves k bytes, from l bytes left.
LEMMA Start000Step == MoveInv /\ Start000 => MoveInv'
<1> SUFFICES ASSUME MoveInv, Start000 PROVE MoveInv'
  OBVIOUS
<1>1. /\ call' = call /\ d1' = d1 /\ call.cpu = 68000 /\ pc = "start"
      /\ d0' = IF Descending THEN d0 ELSE a0
  BY DEF Start000, On
<1>2. Holds(d2) /\ d2 = call.n
  BY <1>1 DEF MoveInv, Progress
<1>3. /\ a0 \in 0 .. Top + 1 /\ (~Backwards(call) => a0 = call.d)
  BY <1>2, HoldsRange, StepFacts DEF Holds
<1>4. d0' \in 0 .. Top + 1 /\ (~Backwards(call) => d0' = call.d)
  BY <1>1, <1>3, StepFacts
<1>5. CASE d2 < 16 /\ pc' = "tail" /\ NoMove /\ d2' = d2
  <2>1. Placed(call', d2', a0', a1', mem')
    BY <1>1, <1>2, <1>5, StayHolds
  <2>2. Registers' /\ Progress' /\ Parity' /\ Result'
    BY <1>1, <1>4, <1>5, <2>1, StepFacts DEF Registers, Progress, Parity, Result, Holds
  <2> QED BY <2>2 DEF MoveInv
<1>6. CASE ~(d2 < 16) /\ pc' = "aligned" /\ a0 % 2 = 1 /\ Move(1) /\ d2' = Sub(d2, 1)
  <2>1. d2' = d2 - 1 /\ d2' \in 0 .. LongMod - 1 /\ d2' >= 15
    BY <1>6, StepFacts DEF Sub
  <2>2. Placed(call', d2', a0', a1', mem') /\ (a0' = a0 + 1 \/ a0' = a0 - 1)
    BY <1>1, <1>2, <1>6, <2>1, MoveHolds, StepFacts
  <2>3. a0' % 2 = 0
    BY <1>3, <1>6, <2>2, ModFour
  <2>4. Registers' /\ Progress' /\ Parity' /\ Result'
    BY <1>1, <1>4, <1>6, <2>1, <2>2, <2>3, StepFacts DEF Registers, Progress, Parity, Result, Holds
  <2> QED BY <2>4 DEF MoveInv
<1>7. CASE ~(d2 < 16) /\ pc' = "aligned" /\ a0 % 2 = 0 /\ NoMove /\ d2' = d2
  <2>1. Placed(call', d2', a0', a1', mem') /\ a0' = a0
    BY <1>1, <1>2, <1>7, StayHolds DEF NoMove
  <2>2. Registers' /\ Progress' /\ Parity' /\ Result'
    BY <1>1, <1>4, <1>7, <2>1, StepFacts DEF Registers, Progress, Parity, Result, Holds
  <2> QED BY <2>2 DEF MoveInv
<1> QED BY <1>5, <1>6, <1>7 DEF Start000

LEMMA Aligned000Step == MoveInv /\ Aligned000 => MoveInv'
<1> SUFFICES ASSUME MoveInv, Aligned000 PROVE MoveInv'
  OBVIOUS
<1>1. call' = call /\ d0' = d0 /\ call.cpu = 68000 /\ pc = "aligned" /\ NoMove
  BY DEF Aligned000, On
<1>2. Holds(d2) /\ d2 >= 15 /\ a0 % 2 = 0 /\ (~Backwards(call) => d0 = call.d)
  BY <1>1 DEF MoveInv, Progress, Parity, Result
<1>3. Placed(call', d2, a0', a1', mem') /\ a0' = a0 /\ a1' = a1
  BY <1>1, <1>2, StayHolds DEF NoMove
<1>4. CASE SourceEven /\ pc' = "longs" /\ d1' = d2 % 4 /\ d2' = Sub(d2, d2 % 4)
  <2>0. d2 \in Nat /\ d2 < LongMod /\ LongMod \in Nat
    BY StepFacts
  <2>3. d2 % 4 \in 0 .. 3 /\ (d2 - (d2 % 4)) % 4 = 0
    BY <2>0, ModFour
  <2>4. d1' = d2 % 4 /\ d2' = d2 - (d2 % 4)
    BY <1>2, <1>4, <2>0, <2>3 DEF Sub
  <2>1. d1' \in 0 .. 3 /\ d2' \in 0 .. LongMod - 1 /\ d2' >= 4 /\ d2' % 4 = 0 /\ d2' + d1' = d2
    BY <1>2, <2>0, <2>3, <2>4
  <2>2. Registers' /\ Progress' /\ Parity' /\ Result'
    BY <1>1, <1>2, <1>3, <1>4, <2>1, StepFacts DEF Registers, Progress, Parity, Result, Holds, SourceEven
  <2> QED BY <2>2 DEF MoveInv
<1>5. CASE ~SourceEven /\ pc' = (IF FitsWord THEN "tail" ELSE "bytes") /\ UNCHANGED <<d1, d2>>
  <2>1. Registers' /\ Progress' /\ Parity' /\ Result'
    BY <1>1, <1>2, <1>3, <1>5, StepFacts DEF Registers, Progress, Parity, Result, Holds, FitsWord
  <2> QED BY <2>1 DEF MoveInv
<1> QED BY <1>4, <1>5 DEF Aligned000

LEMMA Bytes000Step == MoveInv /\ Bytes000 => MoveInv'
<1> SUFFICES ASSUME MoveInv, Bytes000 PROVE MoveInv'
  OBVIOUS
<1>1. /\ call' = call /\ d0' = d0 /\ d1' = d1 /\ call.cpu = 68000 /\ pc = "bytes" /\ Move(1)
      /\ d2' = Sub(d2, 1) /\ pc' = IF d2' = 0 THEN "end" ELSE "bytes"
  BY DEF Bytes000, On
<1>2. Holds(d2) /\ d2 > 0 /\ (~Backwards(call) => d0 = call.d)
  BY <1>1 DEF MoveInv, Progress, Result
<1>3. d2' = d2 - 1 /\ d2' \in 0 .. LongMod - 1
  BY <1>1, <1>2, StepFacts DEF Sub
<1>4. Placed(call', d2', a0', a1', mem')
  BY <1>1, <1>2, <1>3, MoveHolds, StepFacts
<1>5. Registers' /\ Progress' /\ Parity' /\ Result'
  BY <1>1, <1>2, <1>3, <1>4, StepFacts DEF Registers, Progress, Parity, Result, Holds
<1> QED BY <1>5 DEF MoveInv

LEMMA Longs000Step == MoveInv /\ Longs000 => MoveInv'
<1> SUFFICES ASSUME MoveInv, Longs000 PROVE MoveInv'
  OBVIOUS
<1> DEFINE left == Sub(d2, 4)
<1>1. /\ call' = call /\ d0' = d0 /\ d1' = d1 /\ call.cpu = 68000 /\ pc = "longs" /\ Move(4)
      /\ \/ left # 0 /\ d2' = left /\ pc' = "longs"
         \/ left = 0 /\ d2' = Low(d1) /\ pc' = "tail"
  BY DEF Longs000, On
<1>2. /\ Holds(d2 + d1) /\ d2 >= 4 /\ d2 % 4 = 0 /\ d1 \in 0 .. 3
      /\ a0 % 2 = 0 /\ a1 % 2 = 0 /\ (~Backwards(call) => d0 = call.d)
  BY <1>1 DEF MoveInv, Progress, Parity, Result
<1>0. d2 \in Nat /\ d2 < LongMod /\ LongMod \in Nat /\ WordMod \in Nat /\ 16 <= WordMod
  BY StepFacts
<1>3. left = d2 - 4 /\ left \in 0 .. LongMod - 1 /\ left % 4 = 0 /\ (left = 0 \/ left >= 4)
  BY <1>0, <1>2, ModFour DEF Sub
<1>4. /\ Placed(call', left + d1, a0', a1', mem')
      /\ \/ a0' = a0 - 4 /\ a1' = a1 - 4
         \/ a0' = a0 + 4 /\ a1' = a1 + 4
  <2>1. d2 + d1 - 4 = left + d1 /\ 4 <= d2 + d1
    BY <1>0, <1>2, <1>3
  <2>2. /\ Placed(call', d2 + d1 - 4, a0', a1', mem')
        /\ IF Backwards(call) THEN a0' = a0 - 4 /\ a1' = a1 - 4 ELSE a0' = a0 + 4 /\ a1' = a1 + 4
    BY <1>1, <1>2, <2>1, MoveHolds, StepFacts
  <2> QED BY <2>1, <2>2
<1>5. a0' % 2 = 0 /\ a1' % 2 = 0
  <2>1. a0 \in Nat /\ a1 \in Nat /\ a0' \in Nat /\ a1' \in Nat
    BY <1>2, <1>4, <1>1, HoldsRange, PointerRange, StepFacts DEF Placed
  <2>2. \A x \in Nat : x % 2 = 0 => (x + 4) % 2 = 0 /\ (x - 4) % 2 = 0
    OBVIOUS
  <2> QED BY <1>2, <1>4, <2>1, <2>2
<1>6. CASE left # 0 /\ d2' = left /\ pc' = "longs"
  <2>1. Registers' /\ Progress' /\ Parity' /\ Result'
    BY <1>1, <1>2, <1>3, <1>4, <1>5, <1>6, StepFacts DEF Registers, Progress, Parity, Result, Holds
  <2> QED BY <2>1 DEF MoveInv
<1>7. CASE left = 0 /\ d2' = Low(d1) /\ pc' = "tail"
  <2>1. d2' = d1 /\ d2' < WordMod /\ d2' \in 0 .. LongMod - 1 /\ left + d1 = d2'
    BY <1>0, <1>2, <1>7, LowWord
  <2>2. Registers' /\ Progress' /\ Parity' /\ Result'
    BY <1>1, <1>2, <1>4, <1>7, <2>1, StepFacts DEF Registers, Progress, Parity, Result, Holds
  <2> QED BY <2>2 DEF MoveInv
<1> QED BY <1>1, <1>6, <1>7

LEMMA Tail000Step == MoveInv /\ Tail000 => MoveInv'
<1> SUFFICES ASSUME MoveInv, Tail000 PROVE MoveInv'
  OBVIOUS
<1>1. call' = call /\ d0' = d0 /\ d1' = d1 /\ call.cpu = 68000 /\ pc = "tail" /\ NoMove
  BY DEF Tail000, On
<1>2. Holds(d2) /\ d2 < WordMod /\ Low(d2) = d2 /\ (~Backwards(call) => d0 = call.d)
  BY <1>1, LowWord, StepFacts DEF MoveInv, Progress, Result
<1>3. Placed(call', d2, a0', a1', mem')
  BY <1>1, <1>2, StayHolds
<1>4. CASE Low(d2) = 0 /\ pc' = "end" /\ d2' = d2 + WordMod - 1
  <2>0. d2 = 0 /\ d2' = 0 + WordMod - 1
    BY <1>2, <1>4
  <2>3. WordMod \in Nat /\ LongMod \in Nat /\ 16 <= WordMod /\ WordMod <= LongMod
    BY StepFacts
  <2>1. d2 = 0 /\ d2' \in 0 .. LongMod - 1
    BY ONLY <2>0, <2>3
  <2>2. Registers' /\ Progress' /\ Parity' /\ Result'
    BY <1>1, <1>2, <1>3, <1>4, <2>1, StepFacts DEF Registers, Progress, Parity, Result, Holds
  <2> QED BY <2>2 DEF MoveInv
<1>5. CASE Low(d2) # 0 /\ pc' = "dbf" /\ d2' = d2 - 1
  <2>1. d2' + 1 = d2 /\ d2' \in 0 .. LongMod - 1 /\ d2' < WordMod
    BY <1>2, <1>5, StepFacts
  <2>2. Registers' /\ Progress' /\ Parity' /\ Result'
    BY <1>1, <1>2, <1>3, <1>5, <2>1, StepFacts DEF Registers, Progress, Parity, Result, Holds
  <2> QED BY <2>2 DEF MoveInv
<1> QED BY <1>4, <1>5 DEF Tail000

\* The loop both machines end with.
LEMMA DbfStep == MoveInv /\ Dbf => MoveInv'
<1> SUFFICES ASSUME MoveInv, Dbf PROVE MoveInv'
  OBVIOUS
<1>1. call' = call /\ d0' = d0 /\ d1' = d1 /\ pc = "dbf" /\ Move(1)
  BY DEF Dbf, At
<1>2. Holds(d2 + 1) /\ d2 < WordMod /\ Low(d2) = d2 /\ (~Backwards(call) => d0 = call.d)
  BY <1>1, LowWord, StepFacts DEF MoveInv, Progress, Result
<1>3. Placed(call', d2, a0', a1', mem')
  <2>1. d2 + 1 - 1 = d2 /\ 1 <= d2 + 1
    BY StepFacts
  <2>2. Placed(call', d2 + 1 - 1, a0', a1', mem')
    BY <1>1, <1>2, <2>1, MoveHolds, StepFacts
  <2> QED BY <2>1, <2>2
<1>4. CASE Low(d2) = 0 /\ pc' = "end" /\ d2' = d2 + WordMod - 1
  <2>0. d2 = 0 /\ d2' = 0 + WordMod - 1
    BY <1>2, <1>4
  <2>3. WordMod \in Nat /\ LongMod \in Nat /\ 16 <= WordMod /\ WordMod <= LongMod
    BY StepFacts
  <2>1. d2 = 0 /\ d2' \in 0 .. LongMod - 1
    BY ONLY <2>0, <2>3
  <2>2. Registers' /\ Progress' /\ Parity' /\ Result'
    BY <1>1, <1>2, <1>3, <1>4, <2>1, StepFacts DEF Registers, Progress, Parity, Result, Holds
  <2> QED BY <2>2 DEF MoveInv
<1>5. CASE Low(d2) # 0 /\ pc' = "dbf" /\ d2' = d2 - 1
  <2>1. d2' + 1 = d2 /\ d2' \in 0 .. LongMod - 1 /\ d2' < WordMod
    BY <1>2, <1>5, StepFacts
  <2>2. Registers' /\ Progress' /\ Parity' /\ Result'
    BY <1>1, <1>2, <1>3, <1>5, <2>1, StepFacts DEF Registers, Progress, Parity, Result, Holds
  <2> QED BY <2>2 DEF MoveInv
<1> QED BY <1>4, <1>5 DEF Dbf

LEMMA EndStep == MoveInv /\ End => MoveInv'
<1> SUFFICES ASSUME MoveInv, End PROVE MoveInv'
  OBVIOUS
<1>1. /\ call' = call /\ d1' = d1 /\ d2' = d2 /\ pc = "end" /\ pc' = "done" /\ NoMove
      /\ d0' = IF Descending THEN a0 ELSE d0
  BY DEF End, At
<1>2. Holds(0) /\ (~Backwards(call) => d0 = call.d)
  BY <1>1 DEF MoveInv, Progress, Result
<1>3. Placed(call', 0, a0', a1', mem')
  BY <1>1, <1>2, StayHolds
<1>4. Backwards(call) => a0 = call.d
  BY <1>2, StepFacts DEF Holds, Placed, Pointers
<1>5. d0' = call.d /\ d0' \in 0 .. Top + 1
  <2>1. call.d \in 0 .. Top + 1
    BY StepFacts, CallFacts
  <2> QED BY <1>1, <1>2, <1>4, <2>1, StepFacts
<1>6. Registers' /\ Progress' /\ Parity' /\ Result'
  BY <1>1, <1>3, <1>5, StepFacts DEF Registers, Progress, Parity, Result, Holds
<1> QED BY <1>6 DEF MoveInv

LEMMA Rest020Step == MoveInv /\ Rest020 => MoveInv'
<1> SUFFICES ASSUME MoveInv, Rest020 PROVE MoveInv'
  OBVIOUS
<1>1. call' = call /\ d0' = d0 /\ d1' = d1 /\ call.cpu = 68020 /\ pc = "rest" /\ NoMove
  BY DEF Rest020, On
<1>2. Holds(d2 + 4 - LongMod) /\ d2 >= LongMod - 4 /\ (~Backwards(call) => d0 = call.d)
  BY <1>1 DEF MoveInv, Progress, Result
<1>3. Placed(call', d2 + 4 - LongMod, a0', a1', mem')
  BY <1>1, <1>2, StayHolds
<1>4. CASE Carries(d2, 3) /\ pc' = "dbf" /\ d2' = d2 + 3 - LongMod
  <2>1. d2' + 1 = d2 + 4 - LongMod /\ d2' \in 0 .. LongMod - 1 /\ d2' < WordMod
    BY <1>2, <1>4, StepFacts DEF Carries
  <2>2. Registers' /\ Progress' /\ Parity' /\ Result'
    BY <1>1, <1>2, <1>3, <1>4, <2>1, StepFacts DEF Registers, Progress, Parity, Result, Holds
  <2> QED BY <2>2 DEF MoveInv
<1>5. CASE ~Carries(d2, 3) /\ pc' = "end" /\ d2' = d2 + 3
  <2>1. d2 + 4 - LongMod = 0 /\ d2' \in 0 .. LongMod - 1
    BY <1>2, <1>5, StepFacts DEF Carries
  <2>2. Registers' /\ Progress' /\ Parity' /\ Result'
    BY <1>1, <1>2, <1>3, <1>5, <2>1, StepFacts DEF Registers, Progress, Parity, Result, Holds
  <2> QED BY <2>2 DEF MoveInv
<1> QED BY <1>4, <1>5 DEF Rest020

LEMMA Longs020Step == MoveInv /\ Longs020 => MoveInv'
<1> SUFFICES ASSUME MoveInv, Longs020 PROVE MoveInv'
  OBVIOUS
<1>1. /\ call' = call /\ d0' = d0 /\ d1' = d1 /\ call.cpu = 68020 /\ pc = "longs" /\ Move(4)
      /\ d2' = Sub(d2, 4) /\ pc' = IF Borrows(d2, 4) THEN "rest" ELSE "longs"
  BY DEF Longs020, On
<1>2. Holds(d2 + 4) /\ a0 % 4 = 0 /\ (~Backwards(call) => d0 = call.d)
  BY <1>1 DEF MoveInv, Progress, Parity, Result
<1>3. /\ Placed(call', d2, a0', a1', mem')
      /\ a0' = a0 - 4 \/ a0' = a0 + 4
  <2>1. d2 + 4 - 4 = d2 /\ 4 <= d2 + 4
    BY StepFacts
  <2>2. /\ Placed(call', d2 + 4 - 4, a0', a1', mem')
        /\ IF Backwards(call) THEN a0' = a0 - 4 /\ a1' = a1 - 4 ELSE a0' = a0 + 4 /\ a1' = a1 + 4
    BY <1>1, <1>2, <2>1, MoveHolds, StepFacts
  <2> QED BY <2>1, <2>2
<1>4. a0' % 4 = 0
  <2>1. a0 \in Nat /\ a0' \in Nat
    BY <1>1, <1>2, <1>3, HoldsRange, PointerRange, StepFacts DEF Placed
  <2>2. \A x \in Nat : x % 4 = 0 => (x + 4) % 4 = 0 /\ (x - 4) % 4 = 0
    OBVIOUS
  <2> QED BY <1>2, <1>3, <2>1, <2>2
<1>5. CASE Borrows(d2, 4)
  <2>1. d2' + 4 - LongMod = d2 /\ d2' \in 0 .. LongMod - 1 /\ d2' >= LongMod - 4
    BY <1>1, <1>5, StepFacts DEF Borrows, Sub
  <2>2. Registers' /\ Progress' /\ Parity' /\ Result'
    BY <1>1, <1>2, <1>3, <1>5, <2>1, StepFacts DEF Registers, Progress, Parity, Result, Holds
  <2> QED BY <2>2 DEF MoveInv
<1>6. CASE ~Borrows(d2, 4)
  <2>1. d2' + 4 = d2 /\ d2' \in 0 .. LongMod - 1
    BY <1>1, <1>6, StepFacts DEF Borrows, Sub
  <2>2. Registers' /\ Progress' /\ Parity' /\ Result'
    BY <1>1, <1>2, <1>3, <1>4, <1>6, <2>1, StepFacts DEF Registers, Progress, Parity, Result, Holds
  <2> QED BY <2>2 DEF MoveInv
<1> QED BY <1>5, <1>6

LEMMA Start020Step == MoveInv /\ Start020 => MoveInv'
<1> SUFFICES ASSUME MoveInv, Start020 PROVE MoveInv'
  OBVIOUS
<1> DEFINE left == Sub(d2, 4)
<1>1. /\ call' = call /\ call.cpu = 68020 /\ pc = "start"
      /\ d0' = IF Descending THEN d0 ELSE a0
      /\ d1' = IF Descending THEN a0 \div 2 ELSE (a0 + 1) \div 2
  BY DEF Start020, On
<1>2. Holds(d2)
  BY <1>1 DEF MoveInv, Progress
<1>3. /\ a0 \in Nat /\ a0 \in 0 .. Top + 1 /\ (~Backwards(call) => a0 = call.d)
      /\ d2 \in Nat /\ d2 < LongMod /\ LongMod \in Nat /\ 16 <= LongMod
  <2>1. a0 \in Nat /\ a0 \in 0 .. Top + 1
    BY <1>2, HoldsRange, StepFacts
  <2>2. ~Backwards(call) => a0 = call.d
    BY <1>1, <1>2, StepFacts DEF Holds, MoveInv, Progress
  <2>3. d2 \in Nat /\ d2 < LongMod /\ LongMod \in Nat /\ 16 <= LongMod
    BY StepFacts
  <2> QED BY <2>1, <2>2, <2>3
<1>4. d0' \in 0 .. Top + 1 /\ (~Backwards(call) => d0' = call.d)
  BY <1>1, <1>3, StepFacts
<1>5. d1' \in Nat /\ (d1' = a0 \div 2 \/ d1' = (a0 + 1) \div 2)
  BY <1>1, <1>3
<1>6. CASE Borrows(d2, 4) /\ pc' = "rest" /\ d2' = left /\ NoMove
  <2>1. d2' + 4 - LongMod = d2 /\ d2' \in 0 .. LongMod - 1 /\ d2' >= LongMod - 4
    BY <1>3, <1>6 DEF Borrows, Sub
  <2>2. Placed(call', d2, a0', a1', mem')
    BY <1>1, <1>2, <1>6, StayHolds
  <2>3. Registers' /\ Progress' /\ Parity' /\ Result'
    BY <1>1, <1>4, <1>5, <1>6, <2>1, <2>2, StepFacts DEF Registers, Progress, Parity, Result, Holds
  <2> QED BY <2>3 DEF MoveInv
<1>7. CASE ~Borrows(d2, 4) /\ a0 % 2 = 0 /\ pc' = "half" /\ d2' = left /\ NoMove
  <2>1. d2' + 4 = d2 /\ d2' \in 0 .. LongMod - 1
    BY <1>3, <1>7 DEF Borrows, Sub
  <2>2. Placed(call', d2, a0', a1', mem') /\ a0' = a0
    BY <1>1, <1>2, <1>7, StayHolds DEF NoMove
  <2>0. \A x \in Nat : x % 2 = 0 => x = 2 * (x \div 2) /\ x = 2 * ((x + 1) \div 2)
    OBVIOUS
  <2>3. a0' = 2 * d1'
    BY <1>3, <1>5, <1>7, <2>0, <2>2
  <2>4. Registers' /\ Progress' /\ Parity' /\ Result'
    BY <1>1, <1>4, <1>5, <1>7, <2>1, <2>2, <2>3, StepFacts DEF Registers, Progress, Parity, Result, Holds
  <2> QED BY <2>4 DEF MoveInv
<1>8. CASE /\ ~Borrows(d2, 4) /\ a0 % 2 = 1 /\ Move(1)
           /\ d2' = Sub(left, 1) /\ pc' = IF Borrows(left, 1) THEN "rest" ELSE "half"
  <2>1. left = d2 - 4 /\ left \in Nat /\ 1 <= d2
    BY <1>3, <1>8 DEF Borrows, Sub
  <2>2. /\ Placed(call', d2 - 1, a0', a1', mem')
        /\ IF Backwards(call) THEN a0' = a0 - 1 ELSE a0' = a0 + 1
    BY <1>1, <1>2, <1>8, <2>1, MoveHolds, StepFacts
  <2>3. CASE Borrows(left, 1)
    <3>1. d2' + 4 - LongMod = d2 - 1 /\ d2' \in 0 .. LongMod - 1 /\ d2' >= LongMod - 4
      BY <1>3, <1>8, <2>1, <2>3 DEF Borrows, Sub
    <3>2. Registers' /\ Progress' /\ Parity' /\ Result'
      BY <1>1, <1>4, <1>5, <1>8, <2>2, <2>3, <3>1, StepFacts DEF Registers, Progress, Parity, Result, Holds
    <3> QED BY <3>2 DEF MoveInv
  <2>4. CASE ~Borrows(left, 1)
    <3>1. d2' + 4 = d2 - 1 /\ d2' \in 0 .. LongMod - 1
      BY <1>3, <1>8, <2>1, <2>4 DEF Borrows, Sub
    <3>2. a0' = 2 * d1'
      <4>1. CASE Backwards(call)
        <5>1. d1' = a0 \div 2 /\ a0' = a0 - 1
          BY <1>1, <2>2, <4>1, StepFacts
        <5> QED BY <1>3, <1>8, <5>1
      <4>2. CASE ~Backwards(call)
        <5>1. d1' = (a0 + 1) \div 2 /\ a0' = a0 + 1
          BY <1>1, <2>2, <4>2, StepFacts
        <5> QED BY <1>3, <1>8, <5>1
      <4> QED BY <4>1, <4>2
    <3>3. Registers' /\ Progress' /\ Parity' /\ Result'
      BY <1>1, <1>4, <1>5, <1>8, <2>2, <2>4, <3>1, <3>2, StepFacts DEF Registers, Progress, Parity, Result, Holds
    <3> QED BY <3>3 DEF MoveInv
  <2> QED BY <2>3, <2>4
<1> QED BY <1>6, <1>7, <1>8 DEF Start020

LEMMA Half020Step == MoveInv /\ Half020 => MoveInv'
<1> SUFFICES ASSUME MoveInv, Half020 PROVE MoveInv'
  OBVIOUS
<1>1. call' = call /\ d0' = d0 /\ d1' = d1 /\ call.cpu = 68020 /\ pc = "half"
  BY DEF Half020, On
<1>2. Holds(d2 + 4) /\ a0 = 2 * d1 /\ (~Backwards(call) => d0 = call.d)
  BY <1>1 DEF MoveInv, Progress, Parity, Result
<1>3. d1 \in Nat /\ d2 \in Nat /\ d2 < LongMod /\ LongMod \in Nat /\ 16 <= LongMod
  BY StepFacts
<1>4. CASE d1 % 2 = 0 /\ pc' = "longs" /\ d2' = d2 /\ NoMove
  <2>1. Placed(call', d2 + 4, a0', a1', mem') /\ a0' = a0
    BY <1>1, <1>2, <1>4, StayHolds DEF NoMove
  <2>2. a0' % 4 = 0
    BY <1>2, <1>3, <1>4, <2>1
  <2>3. Registers' /\ Progress' /\ Parity' /\ Result'
    BY <1>1, <1>2, <1>4, <2>1, <2>2, StepFacts DEF Registers, Progress, Parity, Result, Holds
  <2> QED BY <2>3 DEF MoveInv
<1>5. CASE /\ d1 % 2 = 1 /\ Move(2) /\ d2' = Sub(d2, 2)
           /\ pc' = IF Borrows(d2, 2) THEN "rest" ELSE "longs"
  <2>1. /\ Placed(call', d2 + 2, a0', a1', mem')
        /\ a0' = a0 - 2 \/ a0' = a0 + 2
    <3>1. d2 + 4 - 2 = d2 + 2 /\ 2 <= d2 + 4
      BY <1>3
    <3>2. /\ Placed(call', d2 + 4 - 2, a0', a1', mem')
          /\ IF Backwards(call) THEN a0' = a0 - 2 ELSE a0' = a0 + 2
      BY <1>1, <1>2, <1>5, <3>1, MoveHolds, StepFacts
    <3> QED BY <3>1, <3>2
  <2>2. a0' % 4 = 0
    BY <1>2, <1>3, <1>5, <2>1
  <2>3. CASE Borrows(d2, 2)
    <3>1. d2' + 4 - LongMod = d2 + 2 /\ d2' \in 0 .. LongMod - 1 /\ d2' >= LongMod - 4
      BY <1>3, <1>5, <2>3 DEF Borrows, Sub
    <3>2. Registers' /\ Progress' /\ Parity' /\ Result'
      BY <1>1, <1>2, <1>5, <2>1, <2>3, <3>1, StepFacts DEF Registers, Progress, Parity, Result, Holds
    <3> QED BY <3>2 DEF MoveInv
  <2>4. CASE ~Borrows(d2, 2)
    <3>1. d2' + 4 = d2 + 2 /\ d2' \in 0 .. LongMod - 1
      BY <1>3, <1>5, <2>4 DEF Borrows, Sub
    <3>2. Registers' /\ Progress' /\ Parity' /\ Result'
      BY <1>1, <1>2, <1>5, <2>1, <2>2, <2>4, <3>1, StepFacts DEF Registers, Progress, Parity, Result, Holds
    <3> QED BY <3>2 DEF MoveInv
  <2> QED BY <2>3, <2>4
<1> QED BY <1>4, <1>5 DEF Half020

(***************************************************************************)
(* The invariant holds in every reachable state, and says what is checked. *)
(***************************************************************************)
LEMMA MoveInvariance == Spec => []MoveInv
<1>1. MoveInv /\ [Next]_vars => MoveInv'
  <2> SUFFICES ASSUME MoveInv, [Next]_vars PROVE MoveInv'
    OBVIOUS
  <2>1. CASE Next
    BY <2>1, Start000Step, Aligned000Step, Bytes000Step, Longs000Step, Tail000Step, Start020Step,
       Half020Step, Longs020Step, Rest020Step, DbfStep, EndStep DEF Next
  <2>2. CASE UNCHANGED vars
    BY <2>2 DEF vars, MoveInv, Registers, Progress, Parity, Result, Holds
  <2> QED BY <2>1, <2>2
<1> QED BY <1>1, InitMove, PTL DEF Spec

LEMMA MoveInvCopied == MoveInv => Copied
<1> SUFFICES ASSUME MoveInv, pc = "done" PROVE Copied
  BY DEF Copied
<1>1. Placed(call, 0, a0, a1, mem) /\ d0 = call.d
  BY DEF MoveInv, Progress, Result, Holds
<1>2. call.d \in Nat /\ call.n \in Nat
  BY StepFacts
<1>3. Done(call, 0) = call.d .. call.d + call.n - 1
  BY <1>2 DEF Done
<1> QED BY <1>1, <1>3 DEF Copied, Placed, Moved

\* Both routines on both machines copy the block as it was when they were called,
\* nothing else, and return the destination: for every length a register can hold,
\* every alignment, every overlap memmove is meant for.
THEOREM CopiedTheorem == Spec => []Copied
<1>1. MoveInv => Copied
  BY MoveInvCopied
<1> QED BY <1>1, MoveInvariance, PTL

\* Registers and memory keep their ranges; in particular d2, which counts modulo
\* the width of the machine, is never out of it.
THEOREM MoveTypeTheorem == Spec => []TypeOK
<1>1. MoveInv => TypeOK
  <2> SUFFICES ASSUME MoveInv PROVE TypeOK
    OBVIOUS
  <2>1. PICK l : Holds(l)
    BY StepFacts DEF MoveInv, Registers, Progress
  <2>2. a0 \in 0 .. Top + 1 /\ a1 \in 0 .. Top + 1 /\ mem \in [Bytes -> Bytes]
    BY <2>1, HoldsRange, StepFacts
  <2> QED BY <2>2 DEF MoveInv, Registers, TypeOK
<1> QED BY <1>1, MoveInvariance, PTL

\* A 68000 never moves a long from or to an odd address, and the 68020 stores
\* longs and words only at multiples of their size.
THEOREM MovesAlignedTheorem == Spec => []MovesAligned
<1>1. MoveInv => MovesAligned
  <2> SUFFICES ASSUME MoveInv PROVE MovesAligned
    OBVIOUS
  <2>1. Parity /\ call.cpu \in {68000, 68020} /\ d1 \in Nat
    BY StepFacts DEF MoveInv
  <2>2. pc = "half" => call.cpu = 68020
    BY DEF MoveInv, Progress
  <2>3. CASE pc = "longs"
    <3>1. Size = 4
      BY <2>3 DEF Size
    <3> QED BY <2>1, <2>3, <3>1 DEF Parity, MovesAligned
  <2>4. CASE pc = "half" /\ d1 % 2 = 1
    <3>1. Size = 2
      BY <2>4 DEF Size
    <3>2. a0 % 2 = 0
      BY <2>1, <2>4 DEF Parity
    <3> QED BY <2>2, <2>4, <3>1, <3>2 DEF MovesAligned
  <2>5. CASE pc \in {"bytes", "dbf"}
    <3>1. Size = 1
      BY <2>5 DEF Size
    <3> QED BY <3>1 DEF MovesAligned
  <2>6. CASE ~(pc = "longs") /\ ~(pc = "half" /\ d1 % 2 = 1) /\ ~(pc \in {"bytes", "dbf"})
    <3>1. Size = 0
      BY <2>6 DEF Size
    <3> QED BY <3>1 DEF MovesAligned
  <2> QED BY <2>3, <2>4, <2>5, <2>6
<1> QED BY <1>1, MoveInvariance, PTL

\* No move reads outside the source block or writes outside the destination.
THEOREM MovesInsideTheorem == Spec => []MovesInside
<1>1. MoveInv => MovesInside
  <2> SUFFICES ASSUME MoveInv, Size > 0 PROVE MovesInside
    BY DEF MovesInside
  <2>1. call \in Calls /\ call.cpu \in {68000, 68020} /\ d1 \in Nat /\ d2 \in Nat /\ Descending = Backwards(call)
    BY StepFacts
  <2>2. \E l : Holds(l) /\ Size \in {1, 2, 4} /\ Size <= l
    <3>1. CASE pc = "longs" /\ call.cpu = 68000
      BY <2>1, <3>1 DEF Size, MoveInv, Progress
    <3>2. CASE pc = "longs" /\ call.cpu = 68020
      BY <2>1, <3>2 DEF Size, MoveInv, Progress
    <3>3. CASE pc = "half" /\ d1 % 2 = 1
      BY <2>1, <3>3 DEF Size, MoveInv, Progress
    <3>4. CASE pc = "bytes"
      BY <2>1, <3>4 DEF Size, MoveInv, Progress
    <3>5. CASE pc = "dbf"
      BY <2>1, <3>5 DEF Size, MoveInv, Progress
    <3>6. CASE pc # "longs" /\ ~(pc = "half" /\ d1 % 2 = 1) /\ ~(pc \in {"bytes", "dbf"})
      BY <3>6 DEF Size
    <3> QED BY <2>1, <3>1, <3>2, <3>3, <3>4, <3>5, <3>6
  <2>3. PICK l : Holds(l) /\ Size \in {1, 2, 4} /\ Size <= l
    BY <2>2
  <2>4. Pointers(call, l, a0, a1) /\ call.d \in Nat /\ call.s \in Nat /\ call.n \in Nat
    BY <2>1, <2>3, CallFacts DEF Holds, Placed
  <2>5. CASE Backwards(call)
    BY <2>1, <2>3, <2>4, <2>5 DEF Pointers, MovesInside
  <2>6. CASE ~Backwards(call)
    BY <2>1, <2>3, <2>4, <2>6 DEF Pointers, MovesInside
  <2> QED BY <2>5, <2>6
<1> QED BY <1>1, MoveInvariance, PTL
=============================================================================
