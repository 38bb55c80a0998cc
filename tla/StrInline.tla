----------------------------- MODULE StrInline -----------------------------
(***************************************************************************)
(* The string functions include/string.h compiles in line, a loop round at *)
(* a time: strlen, strcpy, strncpy, strcat, strcmp, strncmp and strrchr.   *)
(* A character is the number in its byte, 0 ends a string; the two strings *)
(* of a call lie in memory of their own, addressed from 1, and NULL is 0.  *)
(***************************************************************************)
EXTENDS Integers, Sequences

CONSTANTS
  LongMod,  \* 2^32, the range of a register and of size_t
  ByteMod,  \* 2^8, the range of a character
  Calls     \* the calls that are made: [fn, a, b, n, c]

Terminated(m) == \E k \in DOMAIN m : m[k] = 0
Length(m) == (CHOOSE k \in DOMAIN m : m[k] = 0 /\ \A h \in 1 .. k - 1 : m[h] # 0) - 1

\* The caller's side: strings end where they must and copies fit.  A counted
\* function may be given 2^31 characters at a time, not more, for its loop takes
\* a count with the top bit set for one that has run out.
Counted(m, n) == Terminated(m) \/ n <= Len(m)
Legal(c) ==
  CASE c.fn \in {"strlen", "strrchr"} -> Terminated(c.a)
    [] c.fn = "strcmp"  -> Terminated(c.a) /\ Terminated(c.b)
    [] c.fn = "strncmp" -> Counted(c.a, c.n) /\ Counted(c.b, c.n) /\ 2 * c.n <= LongMod
    [] c.fn = "strcpy"  -> Terminated(c.b) /\ Length(c.b) < Len(c.a)
    [] c.fn = "strncpy" -> Counted(c.b, c.n) /\ c.n <= Len(c.a) /\ 2 * c.n <= LongMod
    [] c.fn = "strcat"  -> Terminated(c.a) /\ Terminated(c.b) /\ Length(c.a) + Length(c.b) < Len(c.a)

\* The loop each function begins with.
Begins ==
  [ strlen |-> "scan", strcat |-> "scan", strcpy |-> "copy", strncpy |-> "count",
    strcmp |-> "compare", strncmp |-> "limit", strrchr |-> "find" ]

\* A register has a sign; calls are of these functions, on strings, and legal.
Machine ==
  /\ LongMod \in Nat /\ ByteMod \in Nat /\ 2 <= LongMod /\ 1 <= ByteMod
  /\ \A c \in Calls :
       /\ c.fn \in DOMAIN Begins /\ c.n \in Nat /\ c.c \in Nat
       /\ c.a \in Seq(0 .. ByteMod - 1) /\ c.b \in Seq(0 .. ByteMod - 1)
       /\ Legal(c)

VARIABLES
  call,        \* the call that is made
  pc,          \* the loop that is running
  a0, a1,      \* addresses in the first and in the second string
  d0, d1, d2,  \* registers: result or a character, a character or count, count
  mem          \* the memory of the first string
vars == <<call, pc, a0, a1, d0, d1, d2, mem>>

Init ==
  /\ call \in Calls
  /\ pc = Begins[call.fn]
  /\ a0 = 1 /\ a1 = 1
  /\ d0 = IF call.fn \in {"strcpy", "strncpy", "strcat"} THEN 1 ELSE 0
  /\ d1 = CASE call.fn = "strncpy" -> call.n [] call.fn = "strrchr" -> call.c [] OTHER -> 0
  /\ d2 = call.n
  /\ mem = call.a

\* subq.l #1 and the sign it leaves.
Down(x) == (x + LongMod - 1) % LongMod
Minus_OrZero(x) == x = 0 \/ 2 * x >= LongMod
Minus(x) == 2 * x >= LongMod

\* tst.b (a0)+, bne: strlen computes the length from where it stops, strcat goes
\* on one before.
Scan ==
  /\ pc = "scan"
  /\ \/ mem[a0] # 0 /\ a0' = a0 + 1 /\ UNCHANGED <<pc, d0>>
     \/ mem[a0] = 0 /\ call.fn = "strlen" /\ pc' = "done" /\ a0' = a0 + 1 /\ d0' = (a0 + 1) - 1 - 1
     \/ mem[a0] = 0 /\ call.fn = "strcat" /\ pc' = "copy" /\ UNCHANGED <<a0, d0>>
  /\ UNCHANGED <<call, a1, d1, d2, mem>>

\* move.b (a1)+,(a0)+, bne.
Copy ==
  /\ pc = "copy"
  /\ mem' = [mem EXCEPT ![a0] = call.b[a1]] /\ a0' = a0 + 1 /\ a1' = a1 + 1
  /\ pc' = IF call.b[a1] = 0 THEN "done" ELSE "copy"
  /\ UNCHANGED <<call, d0, d1, d2>>

\* strncpy: the count first, then a character; the source stays at its end.
Count ==
  /\ pc = "count" /\ d1' = Down(d1)
  /\ pc' = IF Minus(Down(d1)) THEN "done" ELSE "pad"
  /\ UNCHANGED <<call, a0, a1, d0, d2, mem>>

NextSource_Always(a, c) == a + 1
NextSource(a, c) == IF c = 0 THEN a ELSE a + 1
Pad ==
  /\ pc = "pad" /\ pc' = "count"
  /\ mem' = [mem EXCEPT ![a0] = call.b[a1]] /\ a0' = a0 + 1 /\ a1' = NextSource(a1, call.b[a1])
  /\ UNCHANGED <<call, d0, d1, d2>>

\* One character of each string, zero-extended in the registers; the second
\* string's end is tested before they are subtracted.
Ends(x, y) == y = 0 \/ x # y
Compare ==
  /\ pc = "compare"
  /\ a0' = a0 + 1 /\ a1' = a1 + 1
  /\ LET x == mem[a0]
         y == call.b[a1]
     IN  /\ d0' = x - y /\ d1' = IF Ends(x, y) THEN 0 ELSE y
         /\ pc' = IF Ends(x, y) THEN "done" ELSE Begins[call.fn]
  /\ UNCHANGED <<call, d2, mem>>

Limit ==
  /\ pc = "limit" /\ d2' = Down(d2)
  /\ pc' = IF Minus(Down(d2)) THEN "done" ELSE "compare"
  /\ UNCHANGED <<call, a0, a1, d0, d1, mem>>

\* cmp.b compares the low byte of the int; the terminator is compared too.
Low(x) == x % ByteMod
Matches_NotEnd(a) == mem[a] # 0 /\ mem[a] = Low(d1)
Matches(a) == mem[a] = Low(d1)
Find ==
  /\ pc = "find" /\ a0' = a0 + 1
  /\ d0' = IF Matches(a0) THEN a0 ELSE d0
  /\ pc' = IF mem[a0] = 0 THEN "done" ELSE "find"
  /\ UNCHANGED <<call, a1, d1, d2, mem>>

Next == Scan \/ Copy \/ Count \/ Pad \/ Compare \/ Limit \/ Find
Spec == Init /\ [][Next]_vars

(***************************************************************************)
(* What the functions of C return and write.                               *)
(***************************************************************************)

\* The characters of m up to its end, at most n of them.
Prefix(m, n) == SubSeq(m, 1, IF Terminated(m) /\ Length(m) < n THEN Length(m) ELSE n)
Overlay(m, at, s) ==
  [k \in DOMAIN m |-> IF k \in at .. at + Len(s) - 1 THEN s[k - at + 1] ELSE m[k]]
Zeros(n) == [k \in 1 .. n |-> 0]

Written ==
  CASE call.fn = "strcpy"  -> Overlay(call.a, 1, Append(Prefix(call.b, Len(call.b)), 0))
    [] call.fn = "strcat"  -> Overlay(call.a, Length(call.a) + 1, Append(Prefix(call.b, Len(call.b)), 0))
    [] call.fn = "strncpy" -> LET s == Prefix(call.b, call.n)
                              IN  Overlay(call.a, 1, s \o Zeros(call.n - Len(s)))
    [] OTHER -> call.a

\* s before t in the order of unsigned characters.
Before(s, t) ==
  \E k \in 1 .. Len(t) :
    /\ \A h \in 1 .. k - 1 : h <= Len(s) /\ s[h] = t[h]
    /\ k = Len(s) + 1 \/ (k <= Len(s) /\ s[k] < t[k])

\* strcpy and strcat write the second string and its end, strncpy its first n
\* characters and then zeros, up to exactly n; nothing else is written and the
\* destination is returned (lines 255-271, 302-310).
CopiesRight ==
  pc = "done" =>
    /\ mem = Written
    /\ call.fn \in {"strcpy", "strcat", "strncpy"} => d0 = 1

\* strcmp and strncmp are negative, zero or positive as the strings, or their
\* first n characters, compare (lines 273-300).
ComparesRight ==
  pc = "done" /\ call.fn \in {"strcmp", "strncmp"} =>
    LET n == IF call.fn = "strncmp" THEN call.n ELSE Len(call.a) + Len(call.b)
        s == Prefix(call.a, n)
        t == Prefix(call.b, n)
    IN  (d0 < 0 <=> Before(s, t)) /\ (d0 > 0 <=> Before(t, s))

\* strlen is the length, strrchr the last place of the character, the end of the
\* string included, or NULL (lines 247-253, 312-320).
SearchesRight ==
  /\ pc = "done" /\ call.fn = "strlen" => d0 = Length(call.a)
  /\ pc = "done" /\ call.fn = "strrchr" =>
       LET places == {k \in 1 .. Length(call.a) + 1 : call.a[k] = Low(call.c)}
       IN  IF places = {} THEN d0 = 0 ELSE d0 \in places /\ \A k \in places : k <= d0

\* All that a program may expect of the string functions.
StringsRight == CopiesRight /\ ComparesRight /\ SearchesRight
=============================================================================
