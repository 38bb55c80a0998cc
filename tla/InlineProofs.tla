---------------------------- MODULE InlineProofs ----------------------------
(***************************************************************************)
(* Proofs about pieces that headers compile into a program, each by        *)
(* itself, as MCInline has them.                                           *)
(*                                                                         *)
(* The string functions and memset are right for strings and blocks of any *)
(* length, on a machine of any width.  Their inductive invariants say of   *)
(* each loop what lies behind its pointers: characters that were not the   *)
(* end, that were equal, that have been copied; bytes that are filled, and *)
(* how many are left, which each block of memset's instructions has in its *)
(* own way in d1 and d2.  Where a loop of a string function stops is the   *)
(* least place of its kind, which is what the definitions of C speak of.   *)
(*                                                                         *)
(* User numbers are kept by a word, whatever they are; a walk over control *)
(* messages is where sums of lengths say; what updatestat() subtracts are  *)
(* the ticks of the clock, or one more, for any clock; putc and getc leave *)
(* in the streams, for any file and up to its end, what was read but for   *)
(* what was lost.                                                          *)
(***************************************************************************)
EXTENDS Inline, TLAPS, SequenceTheorems, WellFoundedInduction

(***************************************************************************)
(* The ends of strings                                                     *)
(***************************************************************************)

\* A nonempty set of naturals has a least element.
LEMMA Least ==
  ASSUME NEW D \in SUBSET Nat, D # {}
  PROVE  \E x \in D : \A y \in D : x <= y
<1>1. IsWellFoundedOn(OpToRel(<, Nat), Nat)
  BY NatLessThanWellFounded, Zenon
<1>2. PICK x \in D : \A y \in D : ~ (<<y, x>> \in OpToRel(<, Nat))
  BY <1>1, WFMin, Zenon
<1>3. \A y \in D : ~ (y < x)
  BY <1>2 DEF OpToRel
<1>. QED
  BY <1>3

\* The length is the place before the first zero.
LEMMA LengthIf ==
  ASSUME NEW m \in Seq(Nat), NEW k \in DOMAIN m, m[k] = 0, \A h \in 1 .. k - 1 : m[h] # 0
  PROVE  Str!Terminated(m) /\ Str!Length(m) = k - 1
<1> DEFINE First(j) == j \in DOMAIN m /\ m[j] = 0 /\ \A h \in 1 .. j - 1 : m[h] # 0
<1>1. First(k) /\ Str!Terminated(m) /\ k \in Nat /\ k >= 1
  BY DEF Str!Terminated
<1>2. \A j : First(j) => j = k
  BY <1>1
<1>3. Str!Length(m) = (CHOOSE j \in DOMAIN m : m[j] = 0 /\ \A h \in 1 .. j - 1 : m[h] # 0) - 1
  BY DEF Str!Length
<1>4. (CHOOSE j \in DOMAIN m : m[j] = 0 /\ \A h \in 1 .. j - 1 : m[h] # 0) = k
  BY <1>1, <1>2
<1>. QED
  BY <1>1, <1>3, <1>4

LEMMA LengthIs ==
  ASSUME NEW m \in Seq(Nat), Str!Terminated(m)
  PROVE  /\ Str!Length(m) \in Nat /\ Str!Length(m) + 1 \in DOMAIN m /\ Str!Length(m) < Len(m)
         /\ m[Str!Length(m) + 1] = 0 /\ \A h \in 1 .. Str!Length(m) : h \in DOMAIN m /\ m[h] # 0
<1> DEFINE D == {k \in DOMAIN m : m[k] = 0}
<1>1. D # {} /\ D \in SUBSET Nat
  BY DEF Str!Terminated
<1>2. PICK x \in D : \A y \in D : x <= y
  BY <1>1, Least
<1>3. x \in DOMAIN m /\ m[x] = 0 /\ x \in Nat /\ x >= 1 /\ x <= Len(m)
  BY <1>2
<1>4. \A h \in 1 .. x - 1 : h \in DOMAIN m /\ m[h] # 0
  BY <1>2, <1>3
<1>5. Str!Length(m) = x - 1
  BY <1>3, <1>4, LengthIf
<1>. QED
  BY <1>3, <1>4, <1>5

\* The length of the first n characters.
Extent(m, n) == IF Str!Terminated(m) /\ Str!Length(m) < n THEN Str!Length(m) ELSE n

LEMMA ExtentIf ==
  ASSUME NEW m \in Seq(Nat), NEW n \in Nat, NEW e \in 0 .. n, e <= Len(m),
         \A h \in 1 .. e : m[h] # 0,
         e = n \/ (e + 1 \in DOMAIN m /\ m[e + 1] = 0)
  PROVE  Extent(m, n) = e
<1>1. CASE e < n
  <2>1. e + 1 \in DOMAIN m /\ m[e + 1] = 0 /\ e + 1 - 1 = e
    BY <1>1
  <2>2. Str!Terminated(m) /\ Str!Length(m) = e + 1 - 1
    BY <2>1, LengthIf
  <2>. QED
    BY <1>1, <2>1, <2>2 DEF Extent
<1>2. CASE e = n
  <2>1. Str!Terminated(m) => ~(Str!Length(m) < n)
    <3>1. SUFFICES ASSUME Str!Terminated(m), Str!Length(m) < n PROVE FALSE
      OBVIOUS
    <3>2. Str!Length(m) + 1 \in 1 .. e /\ m[Str!Length(m) + 1] = 0
      BY <1>2, <3>1, LengthIs
    <3>. QED
      BY <3>2
  <2>. QED
    BY <1>2, <2>1 DEF Extent
<1>. QED
  BY <1>1, <1>2

\* The first n characters of a string that is long enough.
LEMMA PrefixIs ==
  ASSUME NEW m \in Seq(Nat), NEW n \in Nat, Extent(m, n) <= Len(m)
  PROVE  /\ Extent(m, n) \in Nat /\ Extent(m, n) <= n
         /\ Str!Prefix(m, n) \in Seq(Nat) /\ Len(Str!Prefix(m, n)) = Extent(m, n)
         /\ \A i \in 1 .. Extent(m, n) : Str!Prefix(m, n)[i] = m[i]
<1>1. Extent(m, n) \in Nat /\ Extent(m, n) <= n
  BY LengthIs DEF Extent
<1>2. Str!Prefix(m, n) = SubSeq(m, 1, Extent(m, n))
  BY DEF Str!Prefix, Extent
<1> DEFINE e == Extent(m, n)
<1> HIDE DEF e
<1>3. /\ SubSeq(m, 1, e) \in Seq(Nat) /\ Len(SubSeq(m, 1, e)) = e
      /\ \A i \in 1 .. e : SubSeq(m, 1, e)[i] = m[i]
  BY <1>1 DEF e
<1>. QED
  BY <1>1, <1>2, <1>3 DEF e

\* The first characters of a whole string are the string.
LEMMA WholeExtent ==
  ASSUME NEW m \in Seq(Nat), NEW n \in Nat, Str!Terminated(m), Len(m) <= n
  PROVE  Extent(m, n) = Str!Length(m)
BY LengthIs DEF Extent

\* The first place where two texts differ, or where one of them ends, decides
\* which comes before the other.
LEMMA BeforeIs ==
  ASSUME NEW s \in Seq(Nat), NEW t \in Seq(Nat), NEW k \in Nat, k >= 1, k <= Len(s) + 1, k <= Len(t) + 1,
         \A h \in 1 .. k - 1 : s[h] = t[h],
         k <= Len(s) /\ k <= Len(t) => s[k] # t[k]
  PROVE  Str!Before(s, t) <=> k <= Len(t) /\ (k = Len(s) + 1 \/ s[k] < t[k])
<1>1. ASSUME k <= Len(t), k = Len(s) + 1 \/ s[k] < t[k] PROVE Str!Before(s, t)
  <2>1. k \in 1 .. Len(t) /\ \A h \in 1 .. k - 1 : h <= Len(s) /\ s[h] = t[h]
    BY <1>1
  <2>2. k = Len(s) + 1 \/ (k <= Len(s) /\ s[k] < t[k])
    BY <1>1
  <2>. QED
    BY <2>1, <2>2 DEF Str!Before
<1>2. ASSUME Str!Before(s, t) PROVE k <= Len(t) /\ (k = Len(s) + 1 \/ s[k] < t[k])
  <2>1. PICK j \in 1 .. Len(t) :
          /\ \A h \in 1 .. j - 1 : h <= Len(s) /\ s[h] = t[h]
          /\ j = Len(s) + 1 \/ (j <= Len(s) /\ s[j] < t[j])
    BY <1>2 DEF Str!Before
  <2>2. j = k
    <3>1. CASE j < k
      <4>1. j \in 1 .. k - 1 /\ j <= Len(s) /\ s[j] = t[j] /\ s[j] \in Nat
        BY <3>1
      <4>. QED
        BY <2>1, <4>1
    <3>2. CASE k < j
      <4>1. k \in 1 .. j - 1 /\ k <= Len(t)
        BY <3>2
      <4>. QED
        BY <2>1, <4>1
    <3>. QED
      BY <3>1, <3>2
  <2>. QED
    BY <2>1, <2>2
<1>. QED
  BY <1>1, <1>2

LEMMA ExtentIs ==
  ASSUME NEW m \in Seq(Nat), NEW n \in Nat, Str!Counted(m, n)
  PROVE  /\ Extent(m, n) \in Nat /\ Extent(m, n) <= n /\ Extent(m, n) <= Len(m)
         /\ \A h \in 1 .. Extent(m, n) : h \in DOMAIN m /\ (Str!Terminated(m) => m[h] # 0)
         /\ Extent(m, n) < n => Extent(m, n) + 1 \in DOMAIN m /\ m[Extent(m, n) + 1] = 0
<1>1. CASE Str!Terminated(m) /\ Str!Length(m) < n
  BY <1>1, LengthIs DEF Extent
<1>2. CASE ~(Str!Terminated(m) /\ Str!Length(m) < n)
  <2>1. Extent(m, n) = n
    BY <1>2 DEF Extent
  <2>2. n <= Len(m)
    BY <1>2, LengthIs DEF Str!Counted
  <2>3. Str!Terminated(m) => n <= Str!Length(m) /\ \A h \in 1 .. n : m[h] # 0
    BY <1>2, LengthIs
  <2>. QED
    BY <2>1, <2>2, <2>3
<1>. QED
  BY <1>1, <1>2

\* Where n characters hold no end, the first n characters are all of them.
LEMMA ExtentNonZero ==
  ASSUME NEW m \in Seq(Nat), NEW n \in Nat, Str!Counted(m, n), NEW h \in 1 .. Extent(m, n)
  PROVE  m[h] # 0
<1>1. CASE Str!Terminated(m)
  BY <1>1, ExtentIs
<1>2. CASE ~Str!Terminated(m)
  <2>1. h \in DOMAIN m
    BY ExtentIs
  <2>. QED
    BY <1>2, <2>1 DEF Str!Terminated
<1>. QED
  BY <1>1, <1>2

LEMMA ExtentPlace ==
  ASSUME NEW m \in Seq(Nat), NEW n \in Nat, Str!Counted(m, n), NEW i \in 1 .. n, i \in DOMAIN m,
         \A h \in 1 .. i - 1 : m[h] # 0
  PROVE  i <= Extent(m, n) + 1 /\ (i = Extent(m, n) + 1 <=> m[i] = 0)
<1>1. /\ Extent(m, n) \in Nat /\ Extent(m, n) <= n
      /\ Extent(m, n) < n => m[Extent(m, n) + 1] = 0
  BY ExtentIs
<1>2. i <= Extent(m, n) + 1
  BY <1>1
<1>3. i = Extent(m, n) + 1 => m[i] = 0
  BY <1>1
<1>4. i <= Extent(m, n) => m[i] # 0
  BY <1>1, ExtentNonZero
<1>. QED
  BY <1>1, <1>2, <1>3, <1>4

(***************************************************************************)
(* Two strings compared                                                    *)
(***************************************************************************)

\* The first place where the strings differ, or where they end together, within
\* the first n characters, tells their order.
LEMMA OrderAt ==
  ASSUME NEW a \in Seq(Nat), NEW b \in Seq(Nat), NEW n \in Nat, Str!Counted(a, n), Str!Counted(b, n),
         NEW i \in 1 .. n, i \in DOMAIN a, i \in DOMAIN b,
         \A h \in 1 .. i - 1 : a[h] = b[h] /\ a[h] # 0,
         b[i] = 0 \/ a[i] # b[i]
  PROVE  Str!Before(Str!Prefix(a, n), Str!Prefix(b, n)) <=> a[i] < b[i]
<1> DEFINE s == Str!Prefix(a, n)
           t == Str!Prefix(b, n)
<1>1. /\ s \in Seq(Nat) /\ Len(s) = Extent(a, n) /\ \A h \in 1 .. Extent(a, n) : s[h] = a[h]
      /\ t \in Seq(Nat) /\ Len(t) = Extent(b, n) /\ \A h \in 1 .. Extent(b, n) : t[h] = b[h]
  BY ExtentIs, PrefixIs
<1>2. i <= Extent(a, n) + 1 /\ (i = Extent(a, n) + 1 <=> a[i] = 0)
  BY ExtentPlace
<1>3. i <= Extent(b, n) + 1 /\ (i = Extent(b, n) + 1 <=> b[i] = 0)
  <2>1. \A h \in 1 .. i - 1 : b[h] # 0
    OBVIOUS
  <2>. QED
    BY <2>1, ExtentPlace
<1>4. /\ i <= Len(s) + 1 /\ i <= Len(t) + 1
      /\ \A h \in 1 .. i - 1 : s[h] = t[h]
      /\ i <= Len(s) /\ i <= Len(t) => s[i] = a[i] /\ t[i] = b[i] /\ s[i] # t[i]
  BY <1>1, <1>2, <1>3, ExtentIs
<1>5. a[i] \in Nat /\ b[i] \in Nat /\ i \in Nat /\ i >= 1
  OBVIOUS
<1> HIDE DEF s, t
<1>6. Str!Before(s, t) <=> i <= Len(t) /\ (i = Len(s) + 1 \/ s[i] < t[i])
  BY <1>1, <1>4, <1>5, BeforeIs
<1>7. Str!Before(s, t) <=> a[i] < b[i]
  <2>1. CASE i = Len(t) + 1
    BY <1>1, <1>3, <1>5, <1>6, <2>1, ExtentIs
  <2>2. CASE i <= Len(t) /\ i = Len(s) + 1
    BY <1>1, <1>2, <1>3, <1>5, <1>6, <2>2, ExtentIs
  <2>3. CASE i <= Len(t) /\ i <= Len(s)
    BY <1>1, <1>4, <1>5, <1>6, <2>3, SMTT(30)
  <2>4. Len(s) \in Nat /\ Len(t) \in Nat
    BY <1>1
  <2>. QED
    BY <1>4, <2>1, <2>2, <2>3, <2>4
<1>. QED
  BY <1>7 DEF s, t

\* Strings whose first n characters are equal are not ordered.
LEMMA OrderSame ==
  ASSUME NEW a \in Seq(Nat), NEW b \in Seq(Nat), NEW n \in Nat, Str!Counted(a, n), Str!Counted(b, n),
         \A h \in 1 .. n : a[h] = b[h] /\ a[h] # 0, n <= Len(a), n <= Len(b)
  PROVE  ~Str!Before(Str!Prefix(a, n), Str!Prefix(b, n))
<1> DEFINE s == Str!Prefix(a, n)
           t == Str!Prefix(b, n)
<1>1. Extent(a, n) = n /\ Extent(b, n) = n
  <2>1. n \in 0 .. n /\ \A h \in 1 .. n : b[h] # 0
    BY SMTT(30)
  <2>. QED
    BY <2>1, ExtentIf
<1>2. /\ s \in Seq(Nat) /\ Len(s) = n /\ \A h \in 1 .. n : s[h] = a[h]
      /\ t \in Seq(Nat) /\ Len(t) = n /\ \A h \in 1 .. n : t[h] = b[h]
  BY <1>1, PrefixIs
<1>3. n + 1 \in Nat /\ n + 1 >= 1 /\ \A h \in 1 .. (n + 1) - 1 : s[h] = t[h]
  BY <1>2, SMTT(30)
<1> HIDE DEF s, t
<1>4. Str!Before(s, t) <=> n + 1 <= Len(t) /\ (n + 1 = Len(s) + 1 \/ s[n + 1] < t[n + 1])
  <2>1. n + 1 <= Len(s) + 1 /\ n + 1 <= Len(t) + 1 /\ ~(n + 1 <= Len(s) /\ n + 1 <= Len(t))
    BY <1>2
  <2>. QED
    BY <1>2, <1>3, <2>1, BeforeIs
<1>. QED
  BY <1>2, <1>4 DEF s, t

(***************************************************************************)
(* The invariant                                                           *)
(***************************************************************************)

\* What strcpy and strcat have written when the second pointer is at i, and
\* where they began.
Base(c) == IF c.fn = "strcpy" THEN 0 ELSE Str!Length(c.a)
Copied(c, i) ==
  [k \in DOMAIN c.a |-> IF k \in Base(c) + 1 .. Base(c) + i - 1 THEN c.b[k - Base(c)] ELSE c.a[k]]

\* What strncpy has written when the first pointer is at i.
Padded(c, i) ==
  [k \in DOMAIN c.a |->
     IF k \in 1 .. i - 1 THEN (IF k <= Extent(c.b, c.n) THEN c.b[k] ELSE 0) ELSE c.a[k]]

\* The characters strcmp and strncmp compare at most.
Bound(c) == IF c.fn = "strncmp" THEN c.n ELSE Len(c.a) + Len(c.b)

Scanning ==
  /\ call.fn \in {"strlen", "strcat"}
  /\ a0 \in 1 .. Str!Length(call.a) + 1 /\ a1 = 1 /\ mem = call.a
  /\ call.fn = "strcat" => d0 = 1

Copying ==
  /\ call.fn \in {"strcpy", "strcat"}
  /\ a1 \in 1 .. Str!Length(call.b) + 1 /\ a0 = Base(call) + a1 /\ mem = Copied(call, a1)
  /\ d0 = 1

Padding(left) ==
  /\ call.fn = "strncpy"
  /\ a0 \in 1 .. call.n + 1 /\ a0 + left = call.n + 1 /\ left \in Nat
  /\ a1 = IF a0 <= Extent(call.b, call.n) THEN a0 ELSE Extent(call.b, call.n) + 1
  /\ mem = Padded(call, a0)
  /\ d0 = 1

Comparing ==
  /\ call.fn \in {"strcmp", "strncmp"}
  /\ a0 \in 1 .. Bound(call) + 1 /\ a1 = a0 /\ mem = call.a /\ d0 = 0
  /\ \A h \in 1 .. a0 - 1 :
       h \in DOMAIN call.a /\ h \in DOMAIN call.b /\ call.a[h] = call.b[h] /\ call.a[h] # 0

Finding ==
  /\ call.fn = "strrchr"
  /\ a0 \in 1 .. Str!Length(call.a) + 1 /\ mem = call.a /\ d1 = call.c
  /\ LET places == {k \in 1 .. a0 - 1 : call.a[k] = Str!Low(call.c)}
     IN  IF places = {} THEN d0 = 0 ELSE d0 \in places /\ \A k \in places : k <= d0

LoopInv ==
  /\ call \in StrCalls
  /\ pc \in {"scan", "copy", "count", "pad", "compare", "limit", "find", "done"}
  /\ pc = "scan" => Scanning
  /\ pc = "copy" => Copying
  /\ pc = "count" => Padding(d1)
  /\ pc = "pad" => Padding(d1 + 1) /\ d1 \in Nat
  /\ pc = "compare" =>
       /\ Comparing
       /\ call.fn = "strncmp" => a0 <= call.n /\ d2 = call.n - a0
  /\ pc = "limit" => Comparing /\ call.fn = "strncmp" /\ d2 = call.n - (a0 - 1)
  /\ pc = "find" => Finding
  /\ pc = "done" => Str!StringsRight

LEMMA SeqOfPart ==
  ASSUME NEW T, NEW S \in SUBSET T, NEW m \in Seq(S)
  PROVE  m \in Seq(T)
<1>1. Len(m) \in Nat /\ m \in [1 .. Len(m) -> S]
  OBVIOUS
<1>2. m \in [1 .. Len(m) -> T]
  BY <1>1
<1>. QED
  BY <1>1, <1>2

\* What a call gives.
LEMMA CallIs ==
  ASSUME Str!Machine, NEW c \in StrCalls
  PROVE  /\ c.fn \in DOMAIN Str!Begins /\ c.n \in Nat /\ c.c \in Nat /\ Str!Legal(c)
         /\ c.a \in Seq(Nat) /\ c.b \in Seq(Nat)
         /\ SizeMod \in Nat /\ SizeMod >= 2 /\ ByteMod \in Nat /\ ByteMod >= 1
<1>1. 0 .. ByteMod - 1 \in SUBSET Nat
  BY DEF Str!Machine
<1>2. c.a \in Seq(0 .. ByteMod - 1) /\ c.b \in Seq(0 .. ByteMod - 1)
  BY DEF Str!Machine
<1>3. c.a \in Seq(Nat) /\ c.b \in Seq(Nat)
  BY <1>1, <1>2, SeqOfPart, Zenon
<1>. QED
  BY <1>3 DEF Str!Machine

LEMMA Modulo ==
  ASSUME NEW x \in Nat, NEW m \in Nat, x < 2 * m
  PROVE  x % m = IF x < m THEN x ELSE x - m
<1>1. CASE x < m
  BY <1>1
<1>2. CASE ~(x < m)
  <2>1. x - m \in 0 .. m - 1 /\ x = m + (x - m)
    BY <1>2
  <2>. QED
    BY <1>2, <2>1
<1>. QED
  BY <1>1, <1>2

\* A count that has not run out goes down by one and stays positive or zero; one
\* that has is negative.
LEMMA DownIs ==
  ASSUME SizeMod \in Nat, SizeMod >= 2, NEW x \in Nat, 2 * x <= SizeMod
  PROVE  /\ x > 0 => Str!Down(x) = x - 1 /\ ~Str!Minus(Str!Down(x))
         /\ x = 0 => Str!Minus(Str!Down(x))
<1>1. x + SizeMod - 1 \in Nat /\ x + SizeMod - 1 < 2 * SizeMod
  OBVIOUS
<1>2. Str!Down(x) = IF x + SizeMod - 1 < SizeMod THEN x + SizeMod - 1 ELSE x + SizeMod - 1 - SizeMod
  <2>1. \A y \in Nat : y < 2 * SizeMod => y % SizeMod = IF y < SizeMod THEN y ELSE y - SizeMod
    BY Modulo, Zenon
  <2>. QED
    BY <1>1, <2>1 DEF Str!Down
<1>3. x > 0 => Str!Down(x) = x - 1
  BY <1>2
<1>4. x = 0 => Str!Down(x) = SizeMod - 1
  BY <1>2
<1>. QED
  BY <1>3, <1>4 DEF Str!Minus

(***************************************************************************)
(* What the copies have written at their end                               *)
(***************************************************************************)

LEMMA CopiedOverlays ==
  ASSUME Str!Machine, NEW c \in StrCalls, c.fn \in {"strcpy", "strcat"}
  PROVE  Copied(c, Str!Length(c.b) + 2) =
           Str!Overlay(c.a, Base(c) + 1, Append(Str!Prefix(c.b, Len(c.b)), 0))
<1> DEFINE e == Str!Length(c.b)
           s == Append(Str!Prefix(c.b, Len(c.b)), 0)
<1>1. c.a \in Seq(Nat) /\ c.b \in Seq(Nat) /\ Str!Legal(c)
  BY CallIs
<1>2. Str!Terminated(c.b)
  BY <1>1 DEF Str!Legal
<1>3. e \in Nat /\ e + 1 \in DOMAIN c.b /\ e < Len(c.b) /\ c.b[e + 1] = 0
  BY <1>1, <1>2, LengthIs
<1>4. Extent(c.b, Len(c.b)) = e
  BY <1>1, <1>2, WholeExtent
<1> DEFINE p == Str!Prefix(c.b, Len(c.b))
<1>5. p \in Seq(Nat) /\ Len(p) = e /\ \A i \in 1 .. e : p[i] = c.b[i]
  BY <1>1, <1>3, <1>4, PrefixIs
<1> HIDE DEF p
<1>6. Len(Append(p, 0)) = e + 1 /\ \A i \in 1 .. e + 1 : Append(p, 0)[i] = c.b[i]
  BY <1>3, <1>5
<1>7. Len(s) = e + 1 /\ \A i \in 1 .. e + 1 : s[i] = c.b[i]
  BY <1>6 DEF p
<1>8. Base(c) \in Nat
  BY <1>1, LengthIs DEF Base, Str!Legal
<1> HIDE DEF s, e
<1>9. Str!Overlay(c.a, Base(c) + 1, s) =
        [k \in DOMAIN c.a |-> IF k \in Base(c) + 1 .. Base(c) + (e + 2) - 1 THEN c.b[k - Base(c)] ELSE c.a[k]]
  <2>1. Base(c) + 1 + Len(s) - 1 = Base(c) + (e + 2) - 1
    BY <1>3, <1>7, <1>8
  <2>2. \A k \in Base(c) + 1 .. Base(c) + 1 + Len(s) - 1 : s[k - (Base(c) + 1) + 1] = c.b[k - Base(c)]
    <3>1. SUFFICES ASSUME NEW k \in Base(c) + 1 .. Base(c) + 1 + Len(s) - 1
                   PROVE  s[k - (Base(c) + 1) + 1] = c.b[k - Base(c)]
      OBVIOUS
    <3>2. k - Base(c) \in 1 .. e + 1 /\ k - (Base(c) + 1) + 1 = k - Base(c)
      BY <1>3, <1>7, <1>8
    <3>. QED
      BY <1>7, <3>2
  <2>3. \A k \in DOMAIN c.a :
          (IF k \in Base(c) + 1 .. Base(c) + 1 + Len(s) - 1 THEN s[k - (Base(c) + 1) + 1] ELSE c.a[k]) =
            IF k \in Base(c) + 1 .. Base(c) + (e + 2) - 1 THEN c.b[k - Base(c)] ELSE c.a[k]
    BY <2>1, <2>2
  <2>. QED
    BY <2>3, Zenon DEF Str!Overlay
<1>. QED
  BY <1>9 DEF Copied, s, e

LEMMA Joined ==
  ASSUME NEW s \in Seq(Nat), NEW t \in Seq(Nat)
  PROVE  /\ Len(s \o t) = Len(s) + Len(t)
         /\ \A i \in 1 .. Len(s) : (s \o t)[i] = s[i]
         /\ \A i \in Len(s) + 1 .. Len(s) + Len(t) : (s \o t)[i] = t[i - Len(s)]
OBVIOUS

LEMMA PaddedOverlays ==
  ASSUME Str!Machine, NEW c \in StrCalls, c.fn = "strncpy"
  PROVE  Padded(c, c.n + 1) =
           Str!Overlay(c.a, 1, Str!Prefix(c.b, c.n) \o Str!Zeros(c.n - Len(Str!Prefix(c.b, c.n))))
<1> DEFINE e == Extent(c.b, c.n)
           p == Str!Prefix(c.b, c.n)
           z == Str!Zeros(c.n - Len(p))
           s == p \o z
<1>1. c.a \in Seq(Nat) /\ c.b \in Seq(Nat) /\ c.n \in Nat /\ Str!Counted(c.b, c.n)
  BY CallIs DEF Str!Legal
<1>2. e \in Nat /\ e <= c.n /\ e <= Len(c.b)
  BY <1>1, ExtentIs
<1>3. p \in Seq(Nat) /\ Len(p) = e /\ \A i \in 1 .. e : p[i] = c.b[i]
  BY <1>1, <1>2, PrefixIs
<1>4. c.n - Len(p) \in Nat
  BY <1>1, <1>2, <1>3
<1>5. z \in Seq(Nat) /\ Len(z) = c.n - Len(p) /\ \A i \in 1 .. c.n - Len(p) : z[i] = 0
  BY <1>4 DEF Str!Zeros
<1> HIDE DEF e, p, z
<1>6. Len(s) = c.n /\ \A i \in 1 .. c.n : s[i] = IF i <= e THEN c.b[i] ELSE 0
  <2>0. Len(p \o z) = Len(p) + Len(z)
    BY <1>3, <1>5, Joined
  <2>1. Len(p \o z) = c.n
    BY <1>1, <1>2, <1>3, <1>5, <2>0
  <2>2. ASSUME NEW i \in 1 .. c.n PROVE (p \o z)[i] = IF i <= e THEN c.b[i] ELSE 0
    <3>1. CASE i <= e
      <4>1. i \in 1 .. Len(p) /\ i \in 1 .. e
        BY <1>2, <1>3, <3>1
      <4>2. (p \o z)[i] = p[i]
        BY <1>3, <1>5, <4>1, Joined
      <4>. QED
        BY <1>3, <3>1, <4>1, <4>2
    <3>2. CASE ~(i <= e)
      <4>1. /\ i - Len(p) \in 1 .. c.n - Len(p)
            /\ i \in Len(p) + 1 .. Len(p) + Len(z)
        BY <1>1, <1>2, <1>3, <1>5, <3>2
      <4>2. (p \o z)[i] = z[i - Len(p)]
        BY <1>3, <1>5, <4>1, Joined
      <4>. QED
        BY <1>5, <3>2, <4>1, <4>2
    <3>. QED
      BY <3>1, <3>2
  <2>. QED
    BY <2>1, <2>2
<1> HIDE DEF s
<1>7. \A k \in DOMAIN c.a :
        (IF k \in 1 .. 1 + Len(s) - 1 THEN s[k - 1 + 1] ELSE c.a[k]) =
          IF k \in 1 .. (c.n + 1) - 1 THEN (IF k <= e THEN c.b[k] ELSE 0) ELSE c.a[k]
  BY <1>1, <1>6
<1>8. Str!Overlay(c.a, 1, s) =
        [k \in DOMAIN c.a |-> IF k \in 1 .. (c.n + 1) - 1 THEN (IF k <= e THEN c.b[k] ELSE 0) ELSE c.a[k]]
  BY <1>7, Zenon DEF Str!Overlay
<1>. QED
  BY <1>8 DEF Padded, s, p, z, e

LEMMA LegalIs ==
  ASSUME Str!Machine, NEW c \in StrCalls
  PROVE  /\ c.fn \in {"strlen", "strrchr", "strcat", "strcmp"} => Str!Terminated(c.a)
         /\ c.fn \in {"strcpy", "strcat", "strcmp"} => Str!Terminated(c.b)
         /\ c.fn = "strncmp" => Str!Counted(c.a, c.n) /\ Str!Counted(c.b, c.n) /\ 2 * c.n <= SizeMod
         /\ c.fn = "strncpy" => Str!Counted(c.b, c.n) /\ c.n <= Len(c.a) /\ 2 * c.n <= SizeMod
         /\ c.fn \in {"strcpy", "strcat"} => Base(c) \in Nat /\ Base(c) + Str!Length(c.b) < Len(c.a)
<1>1. Str!Legal(c) /\ c.a \in Seq(Nat) /\ c.b \in Seq(Nat)
  BY CallIs
<1>2. c.fn \in {"strlen", "strrchr"} => Str!Terminated(c.a)
  BY <1>1 DEF Str!Legal
<1>3. c.fn = "strcmp" => Str!Terminated(c.a) /\ Str!Terminated(c.b)
  BY <1>1 DEF Str!Legal
<1>4. c.fn = "strncmp" => Str!Counted(c.a, c.n) /\ Str!Counted(c.b, c.n) /\ 2 * c.n <= SizeMod
  BY <1>1 DEF Str!Legal
<1>5. c.fn = "strncpy" => Str!Counted(c.b, c.n) /\ c.n <= Len(c.a) /\ 2 * c.n <= SizeMod
  BY <1>1 DEF Str!Legal
<1>6. c.fn = "strcpy" => Str!Terminated(c.b) /\ Str!Length(c.b) < Len(c.a)
  BY <1>1 DEF Str!Legal
<1>7. c.fn = "strcat" => Str!Terminated(c.a) /\ Str!Terminated(c.b) /\ Str!Length(c.a) + Str!Length(c.b) < Len(c.a)
  BY <1>1 DEF Str!Legal
<1>8. c.fn = "strcpy" => Base(c) \in Nat /\ Base(c) + Str!Length(c.b) < Len(c.a)
  <2>1. SUFFICES ASSUME c.fn = "strcpy" PROVE Base(c) \in Nat /\ Base(c) + Str!Length(c.b) < Len(c.a)
    OBVIOUS
  <2>2. Base(c) = 0 /\ Str!Length(c.b) \in Nat
    BY <1>1, <1>6, <2>1, LengthIs DEF Base
  <2>. QED
    BY <1>6, <2>1, <2>2
<1>9. c.fn = "strcat" => Base(c) \in Nat /\ Base(c) + Str!Length(c.b) < Len(c.a)
  <2>1. SUFFICES ASSUME c.fn = "strcat" PROVE Base(c) \in Nat /\ Base(c) + Str!Length(c.b) < Len(c.a)
    OBVIOUS
  <2>2. Base(c) = Str!Length(c.a) /\ Str!Length(c.a) \in Nat
    BY <1>1, <1>7, <2>1, LengthIs DEF Base
  <2>. QED
    BY <1>7, <2>1, <2>2
<1>. QED
  BY <1>2, <1>3, <1>4, <1>5, <1>6, <1>7, <1>8, <1>9

(***************************************************************************)
(* Each loop keeps the invariant                                           *)
(***************************************************************************)

LEMMA InitKeeps ==
  ASSUME Str!Machine, Str!Init
  PROVE  LoopInv
<1>1. /\ call \in StrCalls /\ pc = Str!Begins[call.fn] /\ a0 = 1 /\ a1 = 1 /\ mem = call.a
      /\ d0 = IF call.fn \in {"strcpy", "strncpy", "strcat"} THEN 1 ELSE 0
      /\ d1 = CASE call.fn = "strncpy" -> call.n [] call.fn = "strrchr" -> call.c [] OTHER -> 0
      /\ d2 = call.n
  BY DEF Str!Init
<1>2. /\ call.fn \in DOMAIN Str!Begins /\ call.n \in Nat /\ call.c \in Nat
      /\ call.a \in Seq(Nat) /\ call.b \in Seq(Nat)
  BY <1>1, CallIs
<1>3. CASE call.fn \in {"strlen", "strcat"}
  <2>1. pc = "scan" /\ Str!Terminated(call.a)
    BY <1>1, <1>3, LegalIs DEF Str!Begins
  <2>2. Scanning
    BY <1>1, <1>2, <1>3, <2>1, LengthIs DEF Scanning
  <2>. QED
    BY <1>1, <2>1, <2>2 DEF LoopInv
<1>4. CASE call.fn = "strcpy"
  <2>1. pc = "copy" /\ Str!Terminated(call.b) /\ d0 = 1
    BY <1>1, <1>4, LegalIs DEF Str!Begins
  <2>2. mem = Copied(call, 1)
    <3>1. Base(call) = 0
      BY <1>4 DEF Base
    <3>2. \A k \in DOMAIN call.a : ~(k \in Base(call) + 1 .. Base(call) + 1 - 1)
      BY <3>1
    <3>3. call.a = [k \in DOMAIN call.a |-> call.a[k]]
      BY <1>2
    <3>. QED
      BY <1>1, <3>2, <3>3 DEF Copied
  <2>3. Copying
    BY <1>1, <1>2, <1>4, <2>1, <2>2, LengthIs DEF Copying, Base
  <2>. QED
    BY <1>1, <2>1, <2>3 DEF LoopInv
<1>5. CASE call.fn = "strncpy"
  <2>1. pc = "count" /\ Str!Counted(call.b, call.n) /\ d0 = 1 /\ d1 = call.n
    BY <1>1, <1>5, LegalIs DEF Str!Begins
  <2>2. mem = Padded(call, 1)
    <3>1. \A k \in DOMAIN call.a : ~(k \in 1 .. 1 - 1)
      OBVIOUS
    <3>2. call.a = [k \in DOMAIN call.a |-> call.a[k]]
      BY <1>2
    <3>. QED
      BY <1>1, <3>1, <3>2 DEF Padded
  <2>3. Padding(d1)
    BY <1>1, <1>2, <1>5, <2>1, <2>2, ExtentIs DEF Padding
  <2>. QED
    BY <1>1, <2>1, <2>3 DEF LoopInv
<1>6. CASE call.fn = "strcmp"
  <2>1. pc = "compare" /\ Str!Terminated(call.a)
    BY <1>1, <1>6, LegalIs DEF Str!Begins
  <2>2. Bound(call) \in Nat
    <3>1. Len(call.a) \in Nat /\ Len(call.b) \in Nat
      BY <1>2
    <3>2. Bound(call) = Len(call.a) + Len(call.b)
      BY <1>6 DEF Bound
    <3>3. \A x, y \in Nat : x + y \in Nat
      OBVIOUS
    <3>. QED
      BY <3>1, <3>2, <3>3, Zenon
  <2>3. Comparing
    BY <1>1, <1>6, <2>2 DEF Comparing
  <2>. QED
    BY <1>1, <1>6, <2>1, <2>3 DEF LoopInv
<1>7. CASE call.fn = "strncmp"
  <2>1. pc = "limit"
    BY <1>1, <1>7 DEF Str!Begins
  <2>2. Comparing
    BY <1>1, <1>2, <1>7 DEF Comparing, Bound
  <2>. QED
    BY <1>1, <1>2, <1>7, <2>1, <2>2 DEF LoopInv
<1>8. CASE call.fn = "strrchr"
  <2>1. pc = "find" /\ Str!Terminated(call.a) /\ d1 = call.c /\ d0 = 0
    BY <1>1, <1>8, LegalIs DEF Str!Begins
  <2>2. Finding
    BY <1>1, <1>2, <1>8, <2>1, LengthIs DEF Finding
  <2>. QED
    BY <1>1, <2>1, <2>2 DEF LoopInv
<1>. QED
  BY <1>2, <1>3, <1>4, <1>5, <1>6, <1>7, <1>8 DEF Str!Begins

LEMMA ScanKeeps ==
  ASSUME Str!Machine, LoopInv, Str!Scan
  PROVE  LoopInv'
<1>1. /\ call \in StrCalls /\ Scanning /\ pc = "scan"
      /\ call' = call /\ mem' = mem /\ a1' = a1
  BY DEF LoopInv, Str!Scan
<1>2. call.a \in Seq(Nat) /\ call.b \in Seq(Nat)
  BY <1>1, CallIs
<1>3. /\ call.fn \in {"strlen", "strcat"}
      /\ a0 \in 1 .. Str!Length(call.a) + 1 /\ a1 = 1 /\ mem = call.a
      /\ call.fn = "strcat" => d0 = 1
  BY <1>1 DEF Scanning
<1>4. Str!Terminated(call.a) /\ (call.fn = "strcat" => Str!Terminated(call.b))
  BY <1>1, <1>3, LegalIs
<1>5. /\ Str!Length(call.a) \in Nat /\ Str!Length(call.a) + 1 \in DOMAIN call.a
      /\ call.a[Str!Length(call.a) + 1] = 0 /\ \A h \in 1 .. Str!Length(call.a) : call.a[h] # 0
  BY <1>2, <1>4, LengthIs
<1>6. CASE mem[a0] # 0 /\ a0' = a0 + 1 /\ UNCHANGED <<pc, d0>>
  <2>1. a0' \in 1 .. Str!Length(call.a) + 1
    BY <1>3, <1>5, <1>6
  <2>2. Scanning'
    BY <1>1, <1>3, <1>6, <2>1 DEF Scanning
  <2>. QED
    BY <1>1, <1>6, <2>2 DEF LoopInv
<1>7. CASE mem[a0] = 0 /\ call.fn = "strlen" /\ pc' = "done" /\ a0' = a0 + 1 /\ d0' = (a0 + 1) - 1 - 1
  <2>1. d0' = Str!Length(call.a)
    BY <1>3, <1>5, <1>7
  <2>2. Str!CopiesRight' /\ Str!ComparesRight'
    BY <1>1, <1>3, <1>7 DEF Str!CopiesRight, Str!ComparesRight, Str!Written
  <2>3. Str!SearchesRight'
    BY <1>1, <1>7, <2>1 DEF Str!SearchesRight
  <2>. QED
    BY <1>1, <1>7, <2>2, <2>3 DEF LoopInv, Str!StringsRight
<1>8. CASE mem[a0] = 0 /\ call.fn = "strcat" /\ pc' = "copy" /\ UNCHANGED <<a0, d0>>
  <2>1. Base(call) = Str!Length(call.a) /\ a0 = Base(call) + 1
    BY <1>3, <1>5, <1>8 DEF Base
  <2>2. mem = Copied(call, 1)
    <3>1. \A k \in DOMAIN call.a : ~(k \in Base(call) + 1 .. Base(call) + 1 - 1)
      BY <1>5, <2>1
    <3>2. call.a = [k \in DOMAIN call.a |-> call.a[k]]
      BY <1>2
    <3>. QED
      BY <1>3, <3>1, <3>2 DEF Copied
  <2>3. Str!Length(call.b) \in Nat
    BY <1>2, <1>4, <1>8, LengthIs
  <2>4. Copying'
    BY <1>1, <1>3, <1>8, <2>1, <2>2, <2>3 DEF Copying
  <2>. QED
    BY <1>1, <1>8, <2>4 DEF LoopInv
<1>. QED
  BY <1>6, <1>7, <1>8 DEF Str!Scan

LEMMA CopyKeeps ==
  ASSUME Str!Machine, LoopInv, Str!Copy
  PROVE  LoopInv'
<1>1. /\ call \in StrCalls /\ Copying
      /\ mem' = [mem EXCEPT ![a0] = call.b[a1]] /\ a0' = a0 + 1 /\ a1' = a1 + 1
      /\ pc' = IF call.b[a1] = 0 THEN "done" ELSE "copy"
      /\ call' = call /\ d0' = d0
  BY DEF LoopInv, Str!Copy
<1>2. call.a \in Seq(Nat) /\ call.b \in Seq(Nat)
  BY <1>1, CallIs
<1>3. /\ call.fn \in {"strcpy", "strcat"}
      /\ a1 \in 1 .. Str!Length(call.b) + 1 /\ a0 = Base(call) + a1 /\ mem = Copied(call, a1)
      /\ d0 = 1
  BY <1>1 DEF Copying
<1>4. Str!Terminated(call.b) /\ (call.fn = "strcat" => Str!Terminated(call.a))
  BY <1>1, <1>3, LegalIs
<1>5. /\ Str!Length(call.b) \in Nat /\ Str!Length(call.b) + 1 \in DOMAIN call.b
      /\ call.b[Str!Length(call.b) + 1] = 0 /\ \A h \in 1 .. Str!Length(call.b) : call.b[h] # 0
  BY <1>2, <1>4, LengthIs
<1>6. Base(call) \in Nat /\ Base(call) + Str!Length(call.b) < Len(call.a)
  BY <1>1, <1>3, LegalIs
<1>7. a0 \in DOMAIN call.a
  BY <1>2, <1>3, <1>5, <1>6
<1>8. mem' = Copied(call, a1 + 1)
  <2>1. \A k \in DOMAIN call.a :
          /\ k = a0 => k \in Base(call) + 1 .. Base(call) + (a1 + 1) - 1 /\ k - Base(call) = a1
          /\ k # a0 => (k \in Base(call) + 1 .. Base(call) + (a1 + 1) - 1
                          <=> k \in Base(call) + 1 .. Base(call) + a1 - 1)
    <3>1. a1 \in Nat /\ a1 >= 1 /\ DOMAIN call.a \in SUBSET Nat
      BY <1>2, <1>3, <1>5
    <3>2. a0 = Base(call) + a1 /\ Base(call) \in Nat
      BY <1>3, <1>6
    <3> DEFINE B == Base(call)
    <3> HIDE DEF B
    <3>3. \A k \in Nat :
            /\ k = a0 => k \in B + 1 .. B + (a1 + 1) - 1 /\ k - B = a1
            /\ k # a0 => (k \in B + 1 .. B + (a1 + 1) - 1 <=> k \in B + 1 .. B + a1 - 1)
      BY <3>1, <3>2 DEF B
    <3>. QED
      BY <3>1, <3>3 DEF B
  <2>2. mem = [k \in DOMAIN call.a |->
                 IF k \in Base(call) + 1 .. Base(call) + a1 - 1 THEN call.b[k - Base(call)] ELSE call.a[k]]
    BY <1>3 DEF Copied
  <2>3. mem' = [k \in DOMAIN call.a |->
                  IF k \in Base(call) + 1 .. Base(call) + (a1 + 1) - 1
                    THEN call.b[k - Base(call)] ELSE call.a[k]]
    BY <1>1, <1>7, <2>1, <2>2, Zenon
  <2>. QED
    BY <2>3 DEF Copied
<1>9. CASE call.b[a1] = 0
  <2>1. a1 = Str!Length(call.b) + 1 /\ pc' = "done"
    BY <1>1, <1>3, <1>5, <1>9
  <2>2. mem' = Str!Overlay(call.a, Base(call) + 1, Append(Str!Prefix(call.b, Len(call.b)), 0))
    <3>1. a1 + 1 = Str!Length(call.b) + 2
      BY <1>5, <2>1
    <3>. QED
      BY <1>1, <1>3, <1>8, <3>1, CopiedOverlays
  <2>3. mem' = Str!Written'
    <3>1. call.fn = "strcpy" => Base(call) + 1 = 1
      BY DEF Base
    <3>. QED
      BY <1>1, <1>3, <2>2, <3>1 DEF Str!Written, Base
  <2>4. Str!CopiesRight' /\ Str!ComparesRight' /\ Str!SearchesRight'
    BY <1>1, <1>3, <2>3 DEF Str!CopiesRight, Str!ComparesRight, Str!SearchesRight
  <2>. QED
    BY <1>1, <2>1, <2>4 DEF LoopInv, Str!StringsRight
<1>10. CASE call.b[a1] # 0
  <2>1. pc' = "copy" /\ a1' \in 1 .. Str!Length(call.b) + 1 /\ a0' = Base(call) + a1'
    BY <1>1, <1>3, <1>5, <1>6, <1>10
  <2>2. Copying'
    BY <1>1, <1>3, <1>8, <2>1 DEF Copying
  <2>. QED
    BY <1>1, <2>1, <2>2 DEF LoopInv
<1>. QED
  BY <1>9, <1>10
LEMMA CountKeeps ==
  ASSUME Str!Machine, LoopInv, Str!Count
  PROVE  LoopInv'
<1>1. /\ call \in StrCalls /\ Padding(d1) /\ d1' = Str!Down(d1)
      /\ pc' = IF Str!Minus(Str!Down(d1)) THEN "done" ELSE "pad"
      /\ call' = call /\ a0' = a0 /\ a1' = a1 /\ d0' = d0 /\ mem' = mem
  BY DEF LoopInv, Str!Count
<1>2. /\ call.fn = "strncpy" /\ a0 \in 1 .. call.n + 1 /\ a0 + d1 = call.n + 1 /\ d1 \in Nat
      /\ a1 = IF a0 <= Extent(call.b, call.n) THEN a0 ELSE Extent(call.b, call.n) + 1
      /\ mem = Padded(call, a0) /\ d0 = 1
  BY <1>1 DEF Padding
<1>3. call.n \in Nat /\ SizeMod \in Nat /\ SizeMod >= 2 /\ 2 * call.n <= SizeMod
  BY <1>1, <1>2, CallIs, LegalIs
<1>4. 2 * d1 <= SizeMod
  BY <1>2, <1>3
<1>5. CASE d1 = 0
  <2>1. pc' = "done" /\ a0 = call.n + 1
    BY <1>1, <1>2, <1>3, <1>4, <1>5, DownIs
  <2>2. mem = Str!Overlay(call.a, 1, Str!Prefix(call.b, call.n) \o Str!Zeros(call.n - Len(Str!Prefix(call.b, call.n))))
    BY <1>1, <1>2, <2>1, PaddedOverlays
  <2>3. mem' = Str!Written'
    BY <1>1, <1>2, <2>2 DEF Str!Written
  <2>4. Str!CopiesRight' /\ Str!ComparesRight' /\ Str!SearchesRight'
    BY <1>1, <1>2, <2>3 DEF Str!CopiesRight, Str!ComparesRight, Str!SearchesRight
  <2>. QED
    BY <1>1, <2>1, <2>4 DEF LoopInv, Str!StringsRight
<1>6. CASE d1 > 0
  <2>1. pc' = "pad" /\ d1' = d1 - 1
    BY <1>1, <1>2, <1>3, <1>4, <1>6, DownIs
  <2>2. d1' \in Nat /\ d1' + 1 = d1
    BY <1>2, <1>6, <2>1
  <2>3. (Padding(d1 + 1) /\ d1 \in Nat)'
    BY <1>1, <1>2, <2>2 DEF Padding
  <2>. QED
    BY <1>1, <2>1, <2>3 DEF LoopInv
<1>. QED
  BY <1>2, <1>5, <1>6

LEMMA PadKeeps ==
  ASSUME Str!Machine, LoopInv, Str!Pad
  PROVE  LoopInv'
<1> DEFINE e == Extent(call.b, call.n)
<1>1. /\ call \in StrCalls /\ Padding(d1 + 1) /\ d1 \in Nat /\ pc' = "count"
      /\ mem' = [mem EXCEPT ![a0] = call.b[a1]] /\ a0' = a0 + 1
      /\ a1' = IF call.b[a1] = 0 THEN a1 ELSE a1 + 1
      /\ call' = call /\ d0' = d0 /\ d1' = d1
  BY DEF LoopInv, Str!Pad, Str!NextSource
<1>2. /\ call.fn = "strncpy" /\ a0 \in 1 .. call.n + 1 /\ a0 + (d1 + 1) = call.n + 1
      /\ a1 = IF a0 <= e THEN a0 ELSE e + 1
      /\ mem = Padded(call, a0) /\ d0 = 1
  BY <1>1 DEF Padding
<1>3. /\ call.n \in Nat /\ call.a \in Seq(Nat) /\ call.b \in Seq(Nat)
      /\ Str!Counted(call.b, call.n) /\ call.n <= Len(call.a)
  BY <1>1, <1>2, CallIs, LegalIs
<1>4. a0 \in 1 .. call.n /\ a0 \in DOMAIN call.a
  BY <1>1, <1>2, <1>3
<1>5. /\ e \in Nat /\ e <= call.n
      /\ e < call.n => call.b[e + 1] = 0
      /\ \A h \in 1 .. e : call.b[h] # 0
  BY <1>3, ExtentIs, ExtentNonZero
<1> HIDE DEF e
<1>6. call.b[a1] = IF a0 <= e THEN call.b[a0] ELSE 0
  <2>1. CASE a0 <= e
    BY <1>2, <2>1
  <2>2. CASE ~(a0 <= e)
    <3>1. a1 = e + 1 /\ e < call.n
      BY <1>2, <1>3, <1>4, <1>5, <2>2
    <3>. QED
      BY <1>5, <2>2, <3>1
  <2>. QED
    BY <2>1, <2>2
<1>7. a1' = IF a0' <= e THEN a0' ELSE e + 1
  BY <1>1, <1>2, <1>4, <1>5, <1>6
<1>8. mem' = Padded(call, a0 + 1)
  <2>1. \A k \in DOMAIN call.a :
          /\ k = a0 => k \in 1 .. (a0 + 1) - 1
          /\ k # a0 => (k \in 1 .. (a0 + 1) - 1 <=> k \in 1 .. a0 - 1)
    BY <1>3, <1>4
  <2>2. mem = [k \in DOMAIN call.a |->
                 IF k \in 1 .. a0 - 1 THEN (IF k <= e THEN call.b[k] ELSE 0) ELSE call.a[k]]
    BY <1>2 DEF Padded, e
  <2>3. mem' = [k \in DOMAIN call.a |->
                  IF k \in 1 .. (a0 + 1) - 1 THEN (IF k <= e THEN call.b[k] ELSE 0) ELSE call.a[k]]
    BY <1>1, <1>4, <1>6, <2>1, <2>2, Zenon
  <2>. QED
    BY <2>3 DEF Padded, e
<1>9. Padding(d1)'
  <2>1. a0' \in 1 .. call.n + 1 /\ a0' + d1 = call.n + 1
    <3>1. a0 \in 1 .. call.n /\ a0' = a0 + 1 /\ a0 + (d1 + 1) = call.n + 1 /\ d1 \in Nat /\ call.n \in Nat
      BY <1>1, <1>2, <1>3, <1>4
    <3>. QED
      BY <3>1
  <2>. QED
    BY <1>1, <1>2, <1>7, <1>8, <2>1 DEF Padding, e
<1>. QED
  BY <1>1, <1>9 DEF LoopInv

LEMMA LimitKeeps ==
  ASSUME Str!Machine, LoopInv, Str!Limit
  PROVE  LoopInv'
<1>1. /\ call \in StrCalls /\ Comparing /\ call.fn = "strncmp" /\ d2 = call.n - (a0 - 1)
      /\ d2' = Str!Down(d2) /\ pc' = IF Str!Minus(Str!Down(d2)) THEN "done" ELSE "compare"
      /\ call' = call /\ a0' = a0 /\ a1' = a1 /\ d0' = d0 /\ mem' = mem
  BY DEF LoopInv, Str!Limit
<1>2. /\ call.n \in Nat /\ call.a \in Seq(Nat) /\ call.b \in Seq(Nat)
      /\ SizeMod \in Nat /\ SizeMod >= 2 /\ 2 * call.n <= SizeMod
      /\ Str!Counted(call.a, call.n) /\ Str!Counted(call.b, call.n)
  BY <1>1, CallIs, LegalIs
<1>3. /\ a0 \in 1 .. call.n + 1 /\ mem = call.a /\ d0 = 0
      /\ \A h \in 1 .. a0 - 1 :
           h \in DOMAIN call.a /\ h \in DOMAIN call.b /\ call.a[h] = call.b[h] /\ call.a[h] # 0
  BY <1>1 DEF Comparing, Bound
<1>4. d2 \in Nat /\ 2 * d2 <= SizeMod
  BY <1>1, <1>2, <1>3
<1>5. CASE d2 = 0
  <2>1. pc' = "done" /\ a0 - 1 = call.n
    BY <1>1, <1>2, <1>3, <1>4, <1>5, DownIs, SMTT(30)
  <2>2. /\ ~Str!Before(Str!Prefix(call.a, call.n), Str!Prefix(call.b, call.n))
        /\ ~Str!Before(Str!Prefix(call.b, call.n), Str!Prefix(call.a, call.n))
    <3>1. \A h \in 1 .. call.n : /\ h \in DOMAIN call.a /\ h \in DOMAIN call.b
                                 /\ call.a[h] = call.b[h] /\ call.a[h] # 0
      BY <1>3, <2>1
    <3>2. call.n <= Len(call.a) /\ call.n <= Len(call.b)
      BY <1>2, <3>1, SMTT(30)
    <3>3. \A h \in 1 .. call.n : call.a[h] = call.b[h] /\ call.a[h] # 0
      BY <3>1
    <3>4. \A h \in 1 .. call.n : call.b[h] = call.a[h] /\ call.b[h] # 0
      BY <3>1
    <3>. QED
      BY <1>2, <3>2, <3>3, <3>4, OrderSame
  <2>3. Str!CopiesRight' /\ Str!SearchesRight'
    BY <1>1, <1>3 DEF Str!CopiesRight, Str!SearchesRight, Str!Written
  <2>4. Str!ComparesRight'
    BY <1>1, <1>3, <2>2 DEF Str!ComparesRight
  <2>. QED
    BY <1>1, <2>1, <2>3, <2>4 DEF LoopInv, Str!StringsRight
<1>6. CASE d2 > 0
  <2>1. pc' = "compare" /\ d2' = d2 - 1
    BY <1>1, <1>2, <1>4, <1>6, DownIs
  <2>2. a0' <= call'.n /\ d2' = call'.n - a0'
    BY <1>1, <1>2, <1>3, <1>6, <2>1
  <2>3. Comparing'
    BY <1>1 DEF Comparing
  <2>. QED
    BY <1>1, <2>1, <2>2, <2>3 DEF LoopInv
<1>. QED
  BY <1>4, <1>5, <1>6

\* The last place of a character among the first k.
Last(m, k, x, d) ==
  LET places == {h \in 1 .. k : m[h] = x}
  IN  IF places = {} THEN d = 0 ELSE d \in places /\ \A h \in places : h <= d

LEMMA LastGoesOn ==
  ASSUME NEW m, NEW k \in Nat, NEW x, NEW d, Last(m, k, x, d)
  PROVE  Last(m, k + 1, x, IF m[k + 1] = x THEN k + 1 ELSE d)
<1> DEFINE before == {h \in 1 .. k : m[h] = x}
           now == {h \in 1 .. k + 1 : m[h] = x}
<1>1. CASE m[k + 1] = x
  <2>1. k + 1 \in now /\ \A h \in now : h <= k + 1
    BY <1>1
  <2>2. now # {}
    BY <2>1
  <2>. QED
    BY <1>1, <2>1, <2>2 DEF Last
<1>2. CASE m[k + 1] # x
  <2>1. now = before
    BY <1>2
  <2>. QED
    BY <1>2, <2>1 DEF Last
<1>. QED
  BY <1>1, <1>2

LEMMA FindKeeps ==
  ASSUME Str!Machine, LoopInv, Str!Find
  PROVE  LoopInv'
<1> DEFINE x == Str!Low(call.c)
<1>1. /\ call \in StrCalls /\ Finding /\ a0' = a0 + 1
      /\ d0' = IF mem[a0] = Str!Low(d1) THEN a0 ELSE d0
      /\ pc' = IF mem[a0] = 0 THEN "done" ELSE "find"
      /\ call' = call /\ d1' = d1 /\ mem' = mem
  BY DEF LoopInv, Str!Find, Str!Matches
<1>2. /\ call.fn = "strrchr" /\ a0 \in 1 .. Str!Length(call.a) + 1 /\ mem = call.a /\ d1 = call.c
      /\ Last(call.a, a0 - 1, x, d0)
  BY <1>1 DEF Finding, Last
<1>3. call.a \in Seq(Nat) /\ Str!Terminated(call.a)
  BY <1>1, <1>2, CallIs, LegalIs
<1>4. /\ Str!Length(call.a) \in Nat /\ Str!Length(call.a) + 1 \in DOMAIN call.a
      /\ call.a[Str!Length(call.a) + 1] = 0 /\ \A h \in 1 .. Str!Length(call.a) : call.a[h] # 0
  BY <1>3, LengthIs
<1>5. Last(call.a, a0, x, d0')
  <2>1. a0 - 1 \in Nat /\ (a0 - 1) + 1 = a0
    BY <1>2, <1>4
  <2>2. Last(call.a, (a0 - 1) + 1, x, IF call.a[(a0 - 1) + 1] = x THEN (a0 - 1) + 1 ELSE d0)
    BY <1>2, <2>1, LastGoesOn
  <2>. QED
    BY <1>1, <1>2, <2>1, <2>2
<1>6. CASE mem[a0] = 0
  <2>1. pc' = "done" /\ a0 = Str!Length(call.a) + 1
    BY <1>1, <1>2, <1>4, <1>6
  <2>2. Str!CopiesRight' /\ Str!ComparesRight'
    BY <1>1, <1>2 DEF Str!CopiesRight, Str!ComparesRight, Str!Written
  <2>3. Last(call.a, Str!Length(call.a) + 1, x, d0')
    BY <1>5, <2>1
  <2>4. Str!SearchesRight'
    BY <1>1, <1>2, <2>3 DEF Str!SearchesRight, Last
  <2>. QED
    BY <1>1, <2>1, <2>2, <2>4 DEF LoopInv, Str!StringsRight
<1>7. CASE mem[a0] # 0
  <2>1. pc' = "find" /\ a0' \in 1 .. Str!Length(call.a) + 1 /\ a0' - 1 = a0
    BY <1>1, <1>2, <1>4, <1>7
  <2>2. Last(call.a, a0' - 1, x, d0')
    BY <1>5, <2>1
  <2>3. Finding'
    BY <1>1, <1>2, <2>1, <2>2 DEF Finding, Last
  <2>. QED
    BY <1>1, <2>1, <2>3 DEF LoopInv
<1>. QED
  BY <1>6, <1>7

\* A place behind which no end lies is still in the string.
LEMMA ReachIs ==
  ASSUME NEW m \in Seq(Nat), NEW n \in Nat, Str!Counted(m, n), NEW i \in 1 .. n,
         \A h \in 1 .. i - 1 : m[h] # 0
  PROVE  i \in DOMAIN m
<1>1. CASE Str!Terminated(m)
  <2>1. Str!Length(m) + 1 <= Len(m) /\ Str!Length(m) \in Nat /\ m[Str!Length(m) + 1] = 0
    BY <1>1, LengthIs
  <2>2. i <= Str!Length(m) + 1
    BY <2>1
  <2>. QED
    BY <2>1, <2>2
<1>2. CASE n <= Len(m)
  BY <1>2
<1>. QED
  BY <1>1, <1>2 DEF Str!Counted

LEMMA CompareKeeps ==
  ASSUME Str!Machine, LoopInv, Str!Compare
  PROVE  LoopInv'
<1> DEFINE x == call.a[a0]
           y == call.b[a0]
           n == Bound(call)
<1>1. /\ call \in StrCalls /\ Comparing
      /\ call.fn = "strncmp" => a0 <= call.n /\ d2 = call.n - a0
      /\ a0' = a0 + 1 /\ a1' = a1 + 1 /\ d0' = mem[a0] - call.b[a1]
      /\ pc' = IF Str!Ends(mem[a0], call.b[a1]) THEN "done" ELSE Str!Begins[call.fn]
      /\ call' = call /\ d2' = d2 /\ mem' = mem
  BY DEF LoopInv, Str!Compare
<1>2. /\ call.fn \in {"strcmp", "strncmp"} /\ a1 = a0 /\ mem = call.a
      /\ a0 \in 1 .. n + 1
      /\ \A h \in 1 .. a0 - 1 :
           h \in DOMAIN call.a /\ h \in DOMAIN call.b /\ call.a[h] = call.b[h] /\ call.a[h] # 0
  BY <1>1 DEF Comparing
<1>3. /\ call.a \in Seq(Nat) /\ call.b \in Seq(Nat) /\ call.n \in Nat
      /\ Len(call.a) \in Nat /\ Len(call.b) \in Nat
  BY <1>1, CallIs, SMTT(30)
<1>4. n = IF call.fn = "strncmp" THEN call.n ELSE Len(call.a) + Len(call.b)
  BY DEF Bound
<1> HIDE DEF n
<1>5. /\ a0 \in Nat /\ a0 >= 1
      /\ \A h \in 1 .. a0 - 1 : call.a[h] # 0
      /\ \A h \in 1 .. a0 - 1 : call.b[h] # 0
      /\ \A h \in 1 .. a0 - 1 : call.a[h] = call.b[h]
  BY <1>2
<1>6. n \in Nat /\ Str!Counted(call.a, n) /\ Str!Counted(call.b, n) /\ a0 \in 1 .. n
      /\ a0 \in DOMAIN call.a /\ a0 \in DOMAIN call.b
  <2>1. CASE call.fn = "strncmp"
    <3>1. n = call.n /\ Str!Counted(call.a, n) /\ Str!Counted(call.b, n) /\ a0 \in 1 .. n
      BY <1>1, <1>4, <1>5, <1>3, <2>1, LegalIs
    <3>. QED
      BY <1>3, <1>5, <3>1, ReachIs
  <2>2. CASE call.fn = "strcmp"
    <3>1. Str!Terminated(call.a) /\ Str!Terminated(call.b)
      BY <1>1, <2>2, LegalIs
    <3>2. Str!Counted(call.a, a0) /\ Str!Counted(call.b, a0) /\ a0 \in 1 .. a0
      BY <1>5, <3>1 DEF Str!Counted
    <3>3. a0 \in DOMAIN call.a /\ a0 \in DOMAIN call.b
      BY <1>3, <1>5, <3>2, ReachIs
    <3>4. n = Len(call.a) + Len(call.b)
      BY <1>4, <2>2
    <3>5. a0 <= Len(call.a)
      BY <1>3, <3>3
    <3> DEFINE p == Len(call.a)
               q == Len(call.b)
    <3> HIDE DEF p, q
    <3>6. p \in Nat /\ q \in Nat /\ n = p + q /\ a0 <= p
      BY <1>3, <3>4, <3>5 DEF p, q
    <3>7. n \in Nat /\ a0 \in 1 .. n
      BY <1>5, <3>6
    <3>. QED
      BY <3>1, <3>3, <3>7 DEF Str!Counted
  <2>. QED
    BY <1>2, <2>1, <2>2
<1>7. x \in Nat /\ y \in Nat /\ d0' = x - y
  <2>1. x \in Nat /\ y \in Nat
    BY <1>3, <1>6, SMTT(30)
  <2>2. mem[a0] = x /\ call.b[a1] = y
    BY <1>2
  <2>. QED
    BY <1>1, <2>1, <2>2
<1>8. CASE Str!Ends(x, y)
  <2>1. pc' = "done"
    BY <1>1, <1>2, <1>8
  <2>2. Str!Before(Str!Prefix(call.a, n), Str!Prefix(call.b, n)) <=> x < y
    <3>1. \A h \in 1 .. a0 - 1 : call.a[h] = call.b[h] /\ call.a[h] # 0
      BY <1>5
    <3>2. y = 0 \/ x # y
      BY <1>8 DEF Str!Ends
    <3>. QED
      BY <1>3, <1>6, <3>1, <3>2, OrderAt
  <2>3. Str!Before(Str!Prefix(call.b, n), Str!Prefix(call.a, n)) <=> y < x
    <3>1. \A h \in 1 .. a0 - 1 : call.b[h] = call.a[h] /\ call.b[h] # 0
      BY <1>5
    <3>2. x = 0 \/ y # x
      BY <1>8 DEF Str!Ends
    <3>. QED
      BY <1>3, <1>6, <3>1, <3>2, OrderAt
  <2>4. (d0' < 0 <=> x < y) /\ (d0' > 0 <=> y < x)
    BY <1>7
  <2>5. Str!CopiesRight' /\ Str!SearchesRight'
    BY <1>1, <1>2 DEF Str!CopiesRight, Str!SearchesRight, Str!Written
  <2>6. Str!ComparesRight'
    <3>1. /\ d0' < 0 <=> Str!Before(Str!Prefix(call.a, n), Str!Prefix(call.b, n))
          /\ d0' > 0 <=> Str!Before(Str!Prefix(call.b, n), Str!Prefix(call.a, n))
      BY <2>2, <2>3, <2>4
    <3>. QED
      BY <1>1, <1>4, <3>1 DEF Str!ComparesRight
  <2>. QED
    BY <1>1, <2>1, <2>5, <2>6 DEF LoopInv, Str!StringsRight
<1>9. CASE ~Str!Ends(x, y)
  <2>1. y # 0 /\ x = y
    BY <1>9 DEF Str!Ends
  <2>2. d0' = 0 /\ a0' \in 1 .. n + 1 /\ a1' = a0' /\ a0' - 1 = a0
    BY <1>1, <1>2, <1>6, <1>7, <2>1
  <2>3. \A h \in 1 .. a0' - 1 :
          h \in DOMAIN call.a /\ h \in DOMAIN call.b /\ call.a[h] = call.b[h] /\ call.a[h] # 0
    <3>1. \A h \in 1 .. a0 : h = a0 \/ h \in 1 .. a0 - 1
      BY <1>5
    <3>2. \A h \in 1 .. a0 :
            h \in DOMAIN call.a /\ h \in DOMAIN call.b /\ call.a[h] = call.b[h] /\ call.a[h] # 0
      BY <1>2, <1>6, <2>1, <3>1
    <3>. QED
      BY <2>2, <3>2
  <2>4. Comparing'
    BY <1>1, <1>2, <2>2, <2>3 DEF Comparing, n
  <2>5. CASE call.fn = "strcmp"
    <3>1. pc' = "compare"
      BY <1>1, <1>2, <1>9, <2>5 DEF Str!Begins
    <3>. QED
      BY <1>1, <2>4, <2>5, <3>1 DEF LoopInv
  <2>6. CASE call.fn = "strncmp"
    <3>1. pc' = "limit"
      BY <1>1, <1>2, <1>9, <2>6 DEF Str!Begins
    <3>2. d2' = call.n - (a0' - 1)
      BY <1>1, <2>2, <2>6
    <3>. QED
      BY <1>1, <2>4, <2>6, <3>1, <3>2 DEF LoopInv
  <2>. QED
    BY <1>2, <2>5, <2>6
<1>. QED
  BY <1>8, <1>9

(***************************************************************************)
(* The theorem                                                             *)
(***************************************************************************)

\* The invariant of the loops of the string functions: it holds at the start, every
\* step keeps it, and what is promised follows from it.
LEMMA StringsKept ==
  ASSUME Str!Machine
  PROVE  /\ Str!Init => LoopInv
         /\ LoopInv /\ [Str!Next]_Str!vars => LoopInv'
         /\ LoopInv => Str!StringsRight
<1>1. Str!Init => LoopInv
  BY InitKeeps
<1>2. LoopInv /\ [Str!Next]_Str!vars => LoopInv'
  <2>1. SUFFICES ASSUME LoopInv, [Str!Next]_Str!vars PROVE LoopInv'
    OBVIOUS
  <2>2. CASE Str!Next
    BY <2>1, <2>2, ScanKeeps, CopyKeeps, CountKeeps, PadKeeps, CompareKeeps, LimitKeeps, FindKeeps DEF Str!Next
  <2>3. CASE UNCHANGED Str!vars
    BY <2>1, <2>3 DEF Str!vars, LoopInv, Scanning, Copying, Padding, Comparing, Finding, Str!StringsRight,
         Str!CopiesRight, Str!ComparesRight, Str!SearchesRight, Str!Written
  <2>. QED
    BY <2>1, <2>2, <2>3
<1>3. LoopInv => Str!StringsRight
  <2>1. LoopInv /\ pc # "done" => Str!StringsRight
    BY DEF Str!StringsRight, Str!CopiesRight, Str!ComparesRight, Str!SearchesRight
  <2>2. LoopInv /\ pc = "done" => Str!StringsRight
    BY DEF LoopInv
  <2>. QED
    BY <2>1, <2>2
<1>. QED
  BY <1>1, <1>2, <1>3

(***************************************************************************)
(* memset                                                                  *)
(***************************************************************************)

\* What has been filled when l bytes are left.
Block(c, l) == c.p .. c.p + c.n - l - 1
Holds(c, l, x, m) ==
  /\ l \in 0 .. c.n /\ x = c.p + c.n - l
  /\ m = [a \in Set!Bytes |-> IF a \in Block(c, l) THEN Set!Fill ELSE Set!Old]
Left(l) == Holds(call, l, a0, mem)
After(l) == Holds(call', l, a0', mem')

Full == <<Set!Fill, Set!Fill, Set!Fill, Set!Fill>>

\* Bytes left, as the block that is next has them in d1 and d2, with the size of
\* the stores the address and the fill register allow.
Progress ==
  /\ pc = "start"  => Left(d2) /\ d2 = call.n /\ d0 = Set!Given
  /\ pc = "spread" => call.cpu = 68000 /\ Left(d2) /\ d2 >= 15 /\ d0 = Set!Given /\ a0 % 2 = 0
  /\ pc = "longs" /\ call.cpu = 68000 =>
       Left(d2 + d1) /\ d2 >= 4 /\ d2 % 4 = 0 /\ d1 \in 0 .. 3 /\ d0 = Full /\ a0 % 2 = 0
  /\ pc = "tail"   => call.cpu = 68000 /\ Left(d2) /\ d2 < WordMod
  /\ pc = "rest"   => call.cpu = 68020 /\ Left(d2 + 8 - LongMod) /\ d2 >= LongMod - 8
  /\ pc = "half"   => call.cpu = 68020 /\ Left(d2 + 4) /\ d2 >= 3 /\ d0 = Full /\ a0 = 2 * d1
  /\ pc = "longs" /\ call.cpu = 68020 => Left(d2 + 4) /\ d0 = Full /\ a0 % 4 = 0
  /\ pc = "dbf"    => Left(d2 + 1) /\ d2 < WordMod
  /\ pc \in {"end", "done"} => Left(0)

Registers ==
  /\ call \in SetCalls
  /\ pc \in {"start", "spread", "longs", "tail", "rest", "half", "dbf", "end", "done"}
  /\ d0 \in {Set!Given, Full} /\ d1 \in Nat /\ d2 \in 0 .. LongMod - 1
  /\ pc # "start" => result = call.p

SetInv == Registers /\ Progress

LEMMA SpreadsFull == Set!Spread000(Set!Given) = Full /\ Set!Spread020(Set!Given) = Full
BY DEF Set!Spread000, Set!Spread020, Set!SpreadFrom, Set!MoveWord, Set!MoveByte, Set!LslWord, Set!LslLong, Set!Swap, Set!Given, Full

\* Bytes of the fill register that a store writes are the fill byte.
LEMMA LowBytes == d0 \in {Set!Given, Full} => d0[4] = Set!Fill /\ (d0 = Full => d0[3] = Set!Fill /\ d0[2] = Set!Fill /\ d0[1] = Set!Fill)
BY DEF Set!Given, Full

LEMMA CallFacts ==
  ASSUME Set!Machine, call \in SetCalls
  PROVE  /\ call.cpu \in {68000, 68020} /\ call.p \in Nat /\ call.n \in Nat
         /\ call.n < LongMod /\ call.p + call.n <= Top + 1
         /\ WordMod \in Nat /\ LongMod \in Nat /\ Top \in Nat /\ 16 <= WordMod /\ WordMod <= LongMod
BY DEF Set!Machine, Set!Legal

\* A store of k bytes leaves k bytes fewer.
LEMMA StoreStep ==
  ASSUME Set!Machine, call \in SetCalls, call' = call, NEW k \in {1, 2, 4}, NEW l, Left(l), k <= l,
         d0 \in {Set!Given, Full}, k > 1 => d0 = Full, Set!Store(k)
  PROVE  After(l - k) /\ a0' = a0 + k /\ a0 \in Nat /\ a0 <= Top
<1>1. /\ call.p \in Nat /\ call.n \in Nat /\ call.p + call.n <= Top + 1 /\ Top \in Nat
      /\ l \in Nat /\ l <= call.n /\ l - k \in 0 .. call.n /\ k \in Nat
  BY CallFacts DEF Left, Holds
<1>2. a0 = call.p + call.n - l /\ a0 \in Nat /\ a0' = a0 + k
  BY <1>1 DEF Left, Holds, Set!Store
<1>3. \A a \in a0 .. a0 + k - 1 : d0[4 - k + 1 + (a - a0)] = Set!Fill
  <2>1. TAKE a \in a0 .. a0 + k - 1
  <2>2. a - a0 \in 0 .. k - 1
    BY <1>1, <1>2
  <2>3. CASE k = 1
    <3>1. 4 - k + 1 + (a - a0) = 4
      BY <2>2, <2>3
    <3>. QED
      BY <3>1, LowBytes
  <2>4. CASE k > 1
    <3>1. 4 - k + 1 + (a - a0) \in 1 .. 4
      BY <1>1, <2>2, <2>4
    <3>. QED
      BY <2>4, <3>1, LowBytes
  <2>. QED
    BY <1>1, <2>3, <2>4
<1>4. \A a \in Set!Bytes : a \in Block(call, l - k) <=> a \in Block(call, l) \/ a \in a0 .. a0 + k - 1
  BY <1>1, <1>2 DEF Block, Set!Bytes
<1>5. mem' = [a \in Set!Bytes |-> IF a \in Block(call, l - k) THEN Set!Fill ELSE Set!Old]
  BY <1>3, <1>4 DEF Left, Holds, Set!Store
<1>6. a0' = call.p + call.n - (l - k)
  BY <1>1, <1>2
<1>. QED
  BY <1>1, <1>2, <1>5, <1>6 DEF After, Left, Holds

LEMMA StayStep ==
  ASSUME call' = call, Set!NoStore, NEW l, Left(l)
  PROVE  After(l) /\ a0' = a0
BY DEF Set!NoStore, After, Left, Holds, Block

\* What every step from the invariant may use.
LEMMA StepFacts ==
  ASSUME Set!Machine, SetInv
  PROVE  /\ call \in SetCalls /\ d0 \in {Set!Given, Full} /\ d1 \in Nat /\ d2 \in Nat /\ d2 < LongMod
         /\ call.cpu \in {68000, 68020} /\ call.p \in Nat /\ call.n \in Nat /\ call.n < LongMod
         /\ WordMod \in Nat /\ LongMod \in Nat /\ Top \in Nat /\ 16 <= WordMod /\ WordMod <= LongMod
         /\ pc # "start" => result = call.p
         /\ pc = "start" => a0 = call.p
         /\ a0 \in Nat
BY CallFacts DEF SetInv, Registers, Progress, Left, Holds

LEMMA ModFour ==
  ASSUME NEW x \in Nat
  PROVE  /\ x % 4 \in 0 .. 3 /\ x - (x % 4) \in Nat /\ (x - (x % 4)) % 4 = 0
         /\ x >= 4 => x - (x % 4) >= 4
         /\ x >= 4 /\ x % 4 = 0 => (x - 4) % 4 = 0 /\ (x - 4 = 0 \/ x - 4 >= 4)
         /\ (x + 4) % 4 = x % 4 /\ (x + 4) % 2 = x % 2
         /\ x % 2 \in {0, 1} /\ (x % 2 = 1 => (x + 1) % 2 = 0)
         /\ (x + 1) \div 2 \in Nat
         /\ x % 2 = 0 => x = 2 * ((x + 1) \div 2)
         /\ x % 2 = 1 => x + 1 = 2 * ((x + 1) \div 2)
         /\ x % 2 = 0 => (2 * x) % 4 = 0
         /\ x % 2 = 1 => (2 * x + 2) % 4 = 0
OBVIOUS

LEMMA InitHolds == Set!Machine /\ Set!Init => SetInv
<1> SUFFICES ASSUME Set!Machine, Set!Init PROVE SetInv
  OBVIOUS
<1>1. call \in SetCalls /\ a0 = call.p /\ d2 = call.n /\ d1 = 0 /\ d0 = Set!Given /\ pc = "start"
      /\ mem = [a \in Set!Bytes |-> Set!Old]
  BY DEF Set!Init
<1>2. Block(call, call.n) = {}
  BY <1>1, CallFacts DEF Block
<1>3. Left(d2)
  BY <1>1, <1>2, CallFacts DEF Left, Holds
<1>. QED
  BY <1>1, <1>3, CallFacts DEF SetInv, Registers, Progress

LEMMA Start000Step == Set!Machine /\ SetInv /\ Set!Start000 => SetInv'
<1> SUFFICES ASSUME Set!Machine, SetInv, Set!Start000 PROVE SetInv'
  OBVIOUS
<1>1. call' = call /\ d0' = d0 /\ d1' = d1 /\ call.cpu = 68000 /\ pc = "start" /\ result' = a0
  BY DEF Set!Start000, Set!On
<1>2. Left(d2) /\ d2 = call.n /\ d0 = Set!Given /\ a0 = call.p
  BY <1>1, StepFacts DEF SetInv, Progress
<1>3. CASE d2 < 16 /\ pc' = "tail" /\ Set!NoStore /\ d2' = d2
  <2>1. After(d2')
    BY <1>1, <1>2, <1>3, StayStep
  <2>. QED
    BY <1>1, <1>2, <1>3, <2>1, StepFacts DEF SetInv, Registers, Progress, After, Left
<1>4. CASE ~(d2 < 16) /\ pc' = "spread" /\ Set!AddressOdd(a0) /\ Set!Store(1) /\ d2' = Set!Sub(d2, 1)
  <2>1. d2' = d2 - 1 /\ d2' \in 0 .. LongMod - 1 /\ d2' >= 15
    BY <1>4, StepFacts DEF Set!Sub
  <2>2. After(d2 - 1) /\ a0' = a0 + 1
    BY <1>1, <1>2, <1>4, StoreStep, StepFacts
  <2>3. After(d2')
    BY <2>1, <2>2 DEF Left
  <2>4. a0' % 2 = 0
    BY <1>4, <2>2, ModFour, StepFacts DEF Set!AddressOdd
  <2>. QED
    BY <1>1, <1>2, <1>4, <2>1, <2>3, <2>4, StepFacts DEF SetInv, Registers, Progress, After, Left
<1>5. CASE ~(d2 < 16) /\ pc' = "spread" /\ ~Set!AddressOdd(a0) /\ Set!NoStore /\ d2' = d2
  <2>1. After(d2') /\ a0' = a0
    BY <1>1, <1>2, <1>5, StayStep
  <2>2. a0' % 2 = 0
    BY <1>5, <2>1, ModFour, StepFacts DEF Set!AddressOdd
  <2>. QED
    BY <1>1, <1>2, <1>5, <2>1, <2>2, StepFacts DEF SetInv, Registers, Progress, After, Left
<1>. QED
  BY <1>3, <1>4, <1>5 DEF Set!Start000

LEMMA SpreadStep == Set!Machine /\ SetInv /\ Set!Spread => SetInv'
<1> SUFFICES ASSUME Set!Machine, SetInv, Set!Spread PROVE SetInv'
  OBVIOUS
<1>1. /\ call' = call /\ result' = result /\ call.cpu = 68000 /\ pc = "spread" /\ pc' = "longs" /\ Set!NoStore
      /\ d0' = Set!Spread000(d0) /\ d1' = d2 % 4 /\ d2' = Set!Sub(d2, d2 % 4)
  BY DEF Set!Spread, Set!On
<1>2. Left(d2) /\ d2 >= 15 /\ d0 = Set!Given /\ a0 % 2 = 0
  BY <1>1 DEF SetInv, Progress
<1>3. d2 % 4 \in 0 .. 3 /\ d2 - (d2 % 4) \in Nat /\ (d2 - (d2 % 4)) % 4 = 0 /\ d2 - (d2 % 4) >= 4
  BY <1>2, ModFour, StepFacts
<1>4. d1' \in 0 .. 3 /\ d2' = d2 - (d2 % 4)
  BY <1>1, <1>2, <1>3, StepFacts DEF Set!Sub
<1>5. d2' + d1' = d2 /\ d2' \in 0 .. LongMod - 1
  BY <1>1, <1>3, <1>4, StepFacts
<1>6. d2' >= 4 /\ d2' % 4 = 0
  BY <1>3, <1>4
<1>7. After(d2' + d1') /\ a0' = a0
  BY <1>1, <1>2, <1>5, StayStep
<1>. QED
  BY <1>1, <1>2, <1>4, <1>5, <1>6, <1>7, SpreadsFull, StepFacts DEF SetInv, Registers, Progress, After, Left

LEMMA Longs000Step == Set!Machine /\ SetInv /\ Set!Longs000 => SetInv'
<1> SUFFICES ASSUME Set!Machine, SetInv, Set!Longs000 PROVE SetInv'
  OBVIOUS
<1> DEFINE left == Set!Sub(d2, 4)
<1>1. /\ call' = call /\ result' = result /\ d0' = d0 /\ d1' = d1
      /\ call.cpu = 68000 /\ pc = "longs" /\ Set!Store(4)
      /\ \/ left # 0 /\ d2' = left /\ pc' = "longs"
         \/ left = 0 /\ d2' = Set!Low(d1) /\ pc' = "tail"
  BY DEF Set!Longs000, Set!On
<1>2. Left(d2 + d1) /\ d2 >= 4 /\ d2 % 4 = 0 /\ d1 \in 0 .. 3 /\ d0 = Full /\ a0 % 2 = 0
  BY <1>1 DEF SetInv, Progress
<1>3. left = d2 - 4 /\ left \in 0 .. LongMod - 1 /\ left % 4 = 0 /\ (left = 0 \/ left >= 4)
  <2>1. d2 \in Nat /\ d2 < LongMod /\ LongMod \in Nat
    BY StepFacts
  <2>2. left = d2 - 4
    BY <1>2, <2>1 DEF Set!Sub
  <2>3. (d2 - 4) % 4 = 0 /\ (d2 - 4 = 0 \/ d2 - 4 >= 4)
    BY <1>2, <2>1, ModFour
  <2>. QED
    BY <1>2, <2>1, <2>2, <2>3
<1> HIDE DEF left
<1>4. After(left + d1) /\ a0' % 2 = 0
  <2>1. d2 + d1 - 4 = left + d1 /\ 4 <= d2 + d1
    BY <1>2, <1>3, StepFacts
  <2>2. After(d2 + d1 - 4) /\ a0' = a0 + 4
    BY <1>1, <1>2, <2>1, StoreStep, StepFacts
  <2>3. a0' % 2 = 0
    BY <1>2, <2>2, ModFour, StepFacts
  <2>. QED
    BY <2>1, <2>2, <2>3
<1>5. CASE left # 0 /\ d2' = left /\ pc' = "longs"
  <2>1. After(d2' + d1')
    BY <1>1, <1>4, <1>5
  <2>. QED
    BY <1>1, <1>2, <1>3, <1>4, <1>5, <2>1, StepFacts DEF SetInv, Registers, Progress, After, Left
<1>6. CASE left = 0 /\ d2' = Set!Low(d1) /\ pc' = "tail"
  <2>1. Set!Low(d1) = d1
    <3>1. d1 \in Nat /\ d1 < WordMod /\ WordMod \in Nat
      BY <1>2, StepFacts
    <3>. QED
      BY <3>1, Modulo DEF Set!Low
  <2>2. left + d1 = d2' /\ After(d2')
    BY <1>2, <1>4, <1>6, <2>1
  <2>. QED
    BY <1>1, <1>2, <1>6, <2>1, <2>2, StepFacts DEF SetInv, Registers, Progress, After, Left
<1>. QED
  BY <1>1, <1>5, <1>6

LEMMA Tail000Step == Set!Machine /\ SetInv /\ Set!Tail000 => SetInv'
<1> SUFFICES ASSUME Set!Machine, SetInv, Set!Tail000 PROVE SetInv'
  OBVIOUS
<1>1. /\ call' = call /\ result' = result /\ d0' = d0 /\ d1' = d1 /\ call.cpu = 68000 /\ pc = "tail" /\ Set!NoStore
      /\ \/ Set!Low(d2) = 0 /\ pc' = "end" /\ d2' = d2 + WordMod - 1
         \/ Set!Low(d2) # 0 /\ pc' = "dbf" /\ d2' = d2 - 1
  BY DEF Set!Tail000, Set!On
<1>2. Left(d2) /\ d2 < WordMod /\ Set!Low(d2) = d2
  BY <1>1, StepFacts DEF SetInv, Progress, Set!Low
<1>3. After(d2)
  BY <1>1, <1>2, StayStep
<1>4. CASE d2 = 0 /\ pc' = "end" /\ d2' = d2 + WordMod - 1
  <2>1. After(0) /\ d2' \in 0 .. LongMod - 1
    BY <1>3, <1>4, StepFacts
  <2>. QED
    BY <1>1, <1>4, <2>1, StepFacts DEF SetInv, Registers, Progress, After, Left
<1>5. CASE d2 # 0 /\ pc' = "dbf" /\ d2' = d2 - 1
  <2>1. d2' + 1 = d2 /\ d2' \in 0 .. LongMod - 1 /\ d2' < WordMod
    BY <1>2, <1>5, StepFacts
  <2>2. After(d2' + 1)
    BY <1>3, <2>1
  <2>. QED
    BY <1>1, <1>5, <2>1, <2>2, StepFacts DEF SetInv, Registers, Progress, After, Left
<1>. QED
  BY <1>1, <1>2, <1>4, <1>5

LEMMA Start020Step == Set!Machine /\ SetInv /\ Set!Start020 => SetInv'
<1> SUFFICES ASSUME Set!Machine, SetInv, Set!Start020 PROVE SetInv'
  OBVIOUS
<1>1. call' = call /\ call.cpu = 68020 /\ pc = "start" /\ result' = a0
  BY DEF Set!Start020, Set!On
<1>2. Left(d2) /\ d2 = call.n /\ d0 = Set!Given /\ a0 = call.p
  BY <1>1, StepFacts DEF SetInv, Progress
<1>3. CASE Set!Borrows(d2, 8) /\ pc' = "rest" /\ d2' = Set!Sub(d2, 8) /\ Set!NoStore /\ UNCHANGED <<d0, d1>>
  <2>1. d2' = d2 + LongMod - 8 /\ d2' \in 0 .. LongMod - 1 /\ d2' >= LongMod - 8 /\ d2' + 8 - LongMod = d2
    BY <1>3, StepFacts DEF Set!Borrows, Set!Sub
  <2>2. After(d2' + 8 - LongMod)
    BY <1>1, <1>2, <1>3, <2>1, StayStep
  <2>. QED
    BY <1>1, <1>2, <1>3, <2>1, <2>2, StepFacts DEF SetInv, Registers, Progress, After, Left
<1>4. ASSUME ~Set!Borrows(d2, 8) PROVE d2 >= 8 /\ Set!Ahead = d2 - 4
  <2>1. d2 >= 8 /\ Set!Sub(d2, 8) + 4 = d2 - 4 /\ d2 - 4 < LongMod /\ d2 - 4 \in Nat
    BY <1>4, StepFacts DEF Set!Borrows, Set!Sub
  <2>. QED
    <3>0. LongMod \in Nat /\ d2 - 4 < 2 * LongMod
      BY <2>1, StepFacts
    <3>1. (d2 - 4) % LongMod = d2 - 4
      BY <2>1, <3>0, Modulo
    <3>. QED
      BY <2>1, <3>1 DEF Set!Ahead
<1>5. d1' = (a0 + 1) \div 2 => d1' \in Nat /\ (a0 % 2 = 0 => a0 = 2 * d1') /\ (a0 % 2 = 1 => a0 + 1 = 2 * d1')
  <2>1. a0 \in Nat
    BY StepFacts
  <2>. QED
    BY <2>1, ModFour
<1>6. CASE /\ ~Set!Borrows(d2, 8) /\ pc' = "half" /\ d0' = Set!Spread020(d0) /\ d1' = (a0 + 1) \div 2
           /\ a0 % 2 = 0 /\ Set!NoStore /\ d2' = Set!Ahead
  <2>1. d2' + 4 = d2 /\ d2' >= 3 /\ d2' \in 0 .. LongMod - 1
    BY <1>4, <1>6, StepFacts
  <2>2. After(d2' + 4) /\ a0' = a0
    BY <1>1, <1>2, <1>6, <2>1, StayStep
  <2>3. a0' = 2 * d1' /\ d1' \in Nat /\ d0' = Full
    BY <1>2, <1>5, <1>6, <2>2, SpreadsFull
  <2>. QED
    BY <1>1, <1>2, <1>6, <2>1, <2>2, <2>3, StepFacts DEF SetInv, Registers, Progress, After, Left
<1>7. CASE /\ ~Set!Borrows(d2, 8) /\ pc' = "half" /\ d0' = Set!Spread020(d0) /\ d1' = (a0 + 1) \div 2
           /\ a0 % 2 = 1 /\ a0' = a0 + 1 /\ mem' = [mem EXCEPT ![a0] = Set!Spread020(d0)[4]]
           /\ d2' = Set!Sub(Set!Ahead, 1)
  <2>1. d2' + 4 = d2 - 1 /\ d2' >= 3 /\ d2' \in 0 .. LongMod - 1
    BY <1>4, <1>7, StepFacts DEF Set!Sub
  <2>2. Set!Spread020(d0)[4] = Set!Fill /\ d0[4] = Set!Fill
    BY <1>2, SpreadsFull DEF Full, Set!Given
  <2>3. mem' = [a \in Set!Bytes |-> IF a \in a0 .. a0 + 1 - 1 THEN d0[4 - 1 + 1 + (a - a0)] ELSE mem[a]]
    <3>1. a0 \in Nat
      BY StepFacts
    <3>2. a0 .. a0 + 1 - 1 = {a0} /\ 4 - 1 + 1 + (a0 - a0) = 4
      BY <3>1
    <3>3. mem = [a \in Set!Bytes |-> mem[a]]
      BY <1>2 DEF Left, Holds
    <3>. QED
      BY <1>7, <2>2, <3>2, <3>3
  <2>4. Set!Store(1)
    BY <1>7, <2>3 DEF Set!Store
  <2>5. After(d2' + 4)
    <3>1. After(d2 - 1)
      BY <1>1, <1>2, <1>4, <1>7, <2>4, StoreStep, StepFacts
    <3>. QED
      BY <2>1, <3>1
  <2>6. a0' = 2 * d1' /\ d1' \in Nat /\ d0' = Full
    BY <1>2, <1>5, <1>7, SpreadsFull
  <2>. QED
    BY <1>1, <1>2, <1>7, <2>1, <2>5, <2>6, StepFacts DEF SetInv, Registers, Progress, After, Left
<1>. QED
  BY <1>3, <1>6, <1>7 DEF Set!Start020

LEMMA Half020Step == Set!Machine /\ SetInv /\ Set!Half020 => SetInv'
<1> SUFFICES ASSUME Set!Machine, SetInv, Set!Half020 PROVE SetInv'
  OBVIOUS
<1>1. call' = call /\ result' = result /\ d0' = d0 /\ d1' = d1 /\ call.cpu = 68020 /\ pc = "half" /\ pc' = "longs"
  BY DEF Set!Half020, Set!On
<1>2. Left(d2 + 4) /\ d2 >= 3 /\ d0 = Full /\ a0 = 2 * d1
  BY <1>1 DEF SetInv, Progress
<1>3. CASE d1 % 2 = 0 /\ Set!NoStore /\ d2' = d2
  <2>1. After(d2' + 4) /\ a0' = a0
    BY <1>1, <1>2, <1>3, StayStep
  <2>2. a0' % 4 = 0
    BY <1>2, <1>3, <2>1, ModFour, StepFacts
  <2>. QED
    BY <1>1, <1>2, <1>3, <2>1, <2>2, StepFacts DEF SetInv, Registers, Progress, After, Left
<1>4. CASE d1 % 2 = 1 /\ Set!Store(2) /\ d2' = Set!Sub(d2, 2)
  <2>1. d2' = d2 - 2 /\ d2' \in 0 .. LongMod - 1 /\ d2' + 4 = d2 + 4 - 2
    BY <1>2, <1>4, StepFacts DEF Set!Sub
  <2>2. After(d2 + 4 - 2) /\ a0' = a0 + 2
    BY <1>1, <1>2, <1>4, StoreStep, StepFacts
  <2>3. After(d2' + 4) /\ a0' % 4 = 0
    BY <1>2, <1>4, <2>1, <2>2, ModFour, StepFacts
  <2>. QED
    BY <1>1, <1>2, <1>4, <2>1, <2>3, StepFacts DEF SetInv, Registers, Progress, After, Left
<1>. QED
  BY <1>3, <1>4 DEF Set!Half020

\* l bytes are left for the byte loop, which counts from one less.
LEMMA CountedDown ==
  ASSUME Set!Machine, SetInv, NEW l \in Nat, l < 8, After(l), NEW x, x = l - 1 + LongMod,
         call' = call, result' = result, d0' = d0, d1' = d1, pc # "start",
         d2' = x % LongMod, pc' = IF x >= LongMod THEN "dbf" ELSE "end"
  PROVE  SetInv'
<1>1. CASE l = 0
  <2>0. LongMod \in Nat /\ 16 <= LongMod
    BY StepFacts
  <2>1. x = LongMod - 1 /\ x \in Nat /\ x < LongMod /\ x < 2 * LongMod
    BY <1>1, <2>0
  <2>3. x % LongMod = x
    BY <2>0, <2>1, Modulo
  <2>2. pc' = "end" /\ d2' \in 0 .. LongMod - 1 /\ After(0)
    BY <1>1, <2>0, <2>1, <2>3
  <2>. QED
    BY <2>2, StepFacts DEF SetInv, Registers, Progress, After, Left
<1>2. CASE l > 0
  <2>1. x \in Nat /\ ~(x < LongMod) /\ x < 2 * LongMod
    BY <1>2, StepFacts
  <2>2. x % LongMod = x - LongMod
    BY <2>1, Modulo, StepFacts
  <2>5. LongMod \in Nat /\ WordMod \in Nat /\ 16 <= WordMod /\ WordMod <= LongMod
    BY StepFacts
  <2>6. d2' = l - 1
    BY <2>2, <2>5
  <2>3. d2' = l - 1 /\ d2' + 1 = l /\ pc' = "dbf" /\ d2' \in 0 .. LongMod - 1 /\ d2' < WordMod
    BY <1>2, <2>1, <2>5, <2>6
  <2>4. After(d2' + 1)
    BY <2>3
  <2>. QED
    BY <2>3, <2>4, StepFacts DEF SetInv, Registers, Progress, After, Left
<1>. QED
  BY <1>1, <1>2

LEMMA Longs020Step == Set!Machine /\ SetInv /\ Set!Longs020 => SetInv'
<1> SUFFICES ASSUME Set!Machine, SetInv, Set!Longs020 PROVE SetInv'
  OBVIOUS
<1>1. /\ call' = call /\ result' = result /\ d0' = d0 /\ d1' = d1 /\ call.cpu = 68020 /\ pc = "longs" /\ Set!Store(4)
      /\ \/ ~Set!Borrows(d2, 4) /\ pc' = "longs" /\ d2' = d2 - 4
         \/ /\ Set!Borrows(d2, 4) /\ d2' = (Set!Sub(d2, 4) + 3) % LongMod
            /\ pc' = IF Set!Sub(d2, 4) + 3 >= LongMod THEN "dbf" ELSE "end"
  BY DEF Set!Longs020, Set!On
<1>2. Left(d2 + 4) /\ d0 = Full /\ a0 % 4 = 0
  BY <1>1, StepFacts DEF SetInv, Progress
<1>3. After(d2) /\ a0' % 4 = 0
  <2>1. After(d2 + 4 - 4) /\ a0' = a0 + 4 /\ d2 + 4 - 4 = d2
    BY <1>1, <1>2, StoreStep, StepFacts
  <2>. QED
    BY <1>2, <2>1, ModFour, StepFacts
<1>4. CASE ~Set!Borrows(d2, 4) /\ pc' = "longs" /\ d2' = d2 - 4
  <2>1. d2' + 4 = d2 /\ d2' \in 0 .. LongMod - 1
    BY <1>4, StepFacts DEF Set!Borrows
  <2>2. After(d2' + 4)
    BY <1>3, <2>1
  <2>. QED
    BY <1>1, <1>2, <1>3, <1>4, <2>1, <2>2, StepFacts DEF SetInv, Registers, Progress, After, Left
<1>5. CASE /\ Set!Borrows(d2, 4) /\ d2' = (Set!Sub(d2, 4) + 3) % LongMod
           /\ pc' = IF Set!Sub(d2, 4) + 3 >= LongMod THEN "dbf" ELSE "end"
  <2>1. d2 < 4 /\ Set!Sub(d2, 4) + 3 = d2 - 1 + LongMod
    BY <1>5, StepFacts DEF Set!Borrows, Set!Sub
  <2>2. d2 \in Nat /\ d2 < 8
    BY <2>1, StepFacts
  <2>. QED
    BY <1>1, <1>3, <1>5, <2>1, <2>2, CountedDown
<1>. QED
  BY <1>1, <1>4, <1>5

LEMMA Rest020Step == Set!Machine /\ SetInv /\ Set!Rest020 => SetInv'
<1> SUFFICES ASSUME Set!Machine, SetInv, Set!Rest020 PROVE SetInv'
  OBVIOUS
<1>1. /\ call' = call /\ result' = result /\ d0' = d0 /\ d1' = d1 /\ call.cpu = 68020 /\ pc = "rest" /\ Set!NoStore
      /\ d2' = (d2 + 7) % LongMod /\ pc' = IF d2 + 7 >= LongMod THEN "dbf" ELSE "end"
  BY DEF Set!Rest020, Set!On
<1> DEFINE l == d2 + 8 - LongMod
<1>2. Left(l) /\ d2 >= LongMod - 8
  BY <1>1 DEF SetInv, Progress
<1>3. After(l)
  BY <1>1, <1>2, StayStep
<1>4. l \in Nat /\ l < 8 /\ d2 + 7 = l - 1 + LongMod
  BY <1>2, StepFacts
<1> HIDE DEF l
<1>. QED
  BY <1>1, <1>3, <1>4, CountedDown

LEMMA DbfStep == Set!Machine /\ SetInv /\ Set!Dbf => SetInv'
<1> SUFFICES ASSUME Set!Machine, SetInv, Set!Dbf PROVE SetInv'
  OBVIOUS
<1>1. /\ call' = call /\ result' = result /\ d0' = d0 /\ d1' = d1 /\ pc = "dbf" /\ Set!Store(1)
      /\ \/ Set!Low(d2) = 0 /\ pc' = "end" /\ d2' = d2 + WordMod - 1
         \/ Set!Low(d2) # 0 /\ pc' = "dbf" /\ d2' = d2 - 1
  BY DEF Set!Dbf
<1>2. Left(d2 + 1) /\ d2 < WordMod /\ Set!Low(d2) = d2
  BY <1>1, StepFacts DEF SetInv, Progress, Set!Low
<1>3. After(d2)
  <2>1. After(d2 + 1 - 1) /\ d2 + 1 - 1 = d2
    BY <1>1, <1>2, StoreStep, StepFacts
  <2>. QED
    BY <2>1
<1>4. CASE d2 = 0 /\ pc' = "end" /\ d2' = d2 + WordMod - 1
  <2>1. After(0) /\ d2' \in 0 .. LongMod - 1
    BY <1>3, <1>4, StepFacts
  <2>. QED
    BY <1>1, <1>4, <2>1, StepFacts DEF SetInv, Registers, Progress, After, Left
<1>5. CASE d2 # 0 /\ pc' = "dbf" /\ d2' = d2 - 1
  <2>1. d2' + 1 = d2 /\ d2' \in 0 .. LongMod - 1 /\ d2' < WordMod
    BY <1>2, <1>5, StepFacts
  <2>2. After(d2' + 1)
    BY <1>3, <2>1
  <2>. QED
    BY <1>1, <1>5, <2>1, <2>2, StepFacts DEF SetInv, Registers, Progress, After, Left
<1>. QED
  BY <1>1, <1>2, <1>4, <1>5

LEMMA InvStep == Set!Machine /\ SetInv /\ [Set!Next]_Set!vars => SetInv'
<1> SUFFICES ASSUME Set!Machine, SetInv, [Set!Next]_Set!vars PROVE SetInv'
  OBVIOUS
<1>1. CASE Set!End
  BY <1>1 DEF Set!End, SetInv, Registers, Progress, Left, Holds
<1>2. CASE UNCHANGED Set!vars
  BY <1>2 DEF Set!vars, SetInv, Registers, Progress, Left, Holds
<1>. QED
  BY <1>1, <1>2, Start000Step, SpreadStep, Longs000Step, Tail000Step, Start020Step, Half020Step,
     Longs020Step, Rest020Step, DbfStep DEF Set!Next

\* The invariant of memset: it holds at the start, every
\* step keeps it, and what is promised follows from it.
LEMMA SetKept ==
  ASSUME Set!Machine
  PROVE  /\ Set!Init => SetInv
         /\ SetInv /\ [Set!Next]_Set!vars => SetInv'
         /\ SetInv => Set!Filled
<1>1. SetInv => Set!Filled
  <2> SUFFICES ASSUME SetInv PROVE Set!Filled
    OBVIOUS
  <2>1. ASSUME pc = "done"
        PROVE  result = call.p
               /\ \A a \in Set!Bytes : mem[a] = IF a \in call.p .. call.p + call.n - 1 THEN Set!Fill ELSE Set!Old
    <3>1. result = call.p /\ Left(0) /\ call.p \in Nat /\ call.n \in Nat
      BY <2>1, StepFacts DEF SetInv, Progress
    <3>2. Block(call, 0) = call.p .. call.p + call.n - 1
      BY <3>1 DEF Block
    <3>. QED
      BY <3>1, <3>2 DEF Left, Holds
  <2>2. ASSUME pc = "longs"
        PROVE  IF call.cpu = 68000 THEN a0 % 2 = 0 ELSE a0 % 4 = 0
    BY <2>2, StepFacts DEF SetInv, Progress
  <2>. QED
    BY <2>1, <2>2 DEF Set!Filled
<1>2. Set!Init => SetInv
  BY InitHolds
<1>3. SetInv /\ [Set!Next]_Set!vars => SetInv'
  BY InvStep
<1>. QED
  BY <1>1, <1>2, <1>3

(***************************************************************************)
(* User numbers                                                            *)
(***************************************************************************)
InWord(n) == Usr!UG2MU(n) % 65536

\* However often it went to a word and back, the number is what it was, or what one
\* word made of it.
UserInv ==
  /\ given \in Ids /\ kept \in {"long", "word"}
  /\ kept = "long" => id = given \/ id = Usr!MU2UG(InWord(given))
  /\ kept = "word" => id = InWord(given)

\* What a word holds comes back to it.
LEMMA WordAgain ==
  ASSUME NEW n \in Int
  PROVE  InWord(Usr!MU2UG(InWord(n))) = InWord(n)
<1>1. InWord(n) \in Nat /\ InWord(n) <= 65535
  BY DEF InWord, Usr!UG2MU
<1>. QED
  BY <1>1 DEF InWord, Usr!UG2MU, Usr!MU2UG

\* The invariant of user numbers: it holds at the start, every
\* step keeps it, and what is promised follows from it.
LEMMA NumbersKept ==
  ASSUME Usr!Numbers
  PROVE  /\ Usr!Init => UserInv
         /\ UserInv /\ [Usr!Next]_Usr!idVars => UserInv'
         /\ UserInv => Usr!NumberKept
<1>1. Usr!Init => UserInv
  BY DEF Usr!Init, UserInv
<1>2. UserInv /\ [Usr!Next]_Usr!idVars => UserInv'
  <2> SUFFICES ASSUME UserInv, [Usr!Next]_Usr!idVars PROVE UserInv'
    OBVIOUS
  <2>1. given \in Int
    BY DEF UserInv, Usr!Numbers
  <2>2. CASE Usr!ToWord
    <3>1. id = given => id' = InWord(given)
      BY <2>2 DEF Usr!ToWord, InWord
    <3>2. id = Usr!MU2UG(InWord(given)) => id' = InWord(given)
      BY <2>1, <2>2, WordAgain DEF Usr!ToWord, InWord
    <3>. QED
      BY <2>2, <3>1, <3>2 DEF UserInv, Usr!ToWord, InWord, Usr!UG2MU
  <2>3. CASE Usr!ToLong
    <3>1. given' = given /\ InWord(given)' = InWord(given)
      BY <2>3 DEF Usr!ToLong, InWord, Usr!UG2MU
    <3>2. Usr!MU2UG(InWord(given))' = Usr!MU2UG(InWord(given))
      BY <3>1 DEF Usr!MU2UG
    <3>. QED
      BY <2>3, <3>1, <3>2 DEF UserInv, Usr!ToLong
  <2>4. CASE UNCHANGED Usr!idVars
    <3>1. given' = given /\ InWord(given)' = InWord(given)
      BY <2>4 DEF Usr!idVars, InWord, Usr!UG2MU
    <3>2. Usr!MU2UG(InWord(given))' = Usr!MU2UG(InWord(given))
      BY <3>1 DEF Usr!MU2UG
    <3>. QED
      BY <2>4, <3>1, <3>2 DEF UserInv, Usr!idVars
  <2>. QED
    BY <2>2, <2>3, <2>4 DEF Usr!Next
<1>3. UserInv => Usr!NumberKept
  <2> SUFFICES ASSUME UserInv, kept = "long"
               PROVE  /\ given = -2 \/ (given \in Nat /\ given < 65535) => id = given
                      /\ id = 0 => given = 0 \/ given % 65536 = 65535
    BY DEF Usr!NumberKept
  <2>1. given \in Int
    BY DEF UserInv, Usr!Numbers
  <2>2. CASE id = given
    BY <2>2
  <2>3. CASE id = Usr!MU2UG(InWord(given))
    BY <2>1, <2>3 DEF InWord, Usr!UG2MU, Usr!MU2UG
  <2>. QED
    BY <2>2, <2>3 DEF UserInv
<1>. QED
  BY <1>1, <1>2, <1>3

(***************************************************************************)
(* Control messages                                                        *)
(***************************************************************************)

\* ALIGN adds up to three, and does not lead past a limit that is a multiple of four.
LEMMA AlignIs ==
  ASSUME NEW n \in Nat, NEW limit \in Nat, limit % 4 = 0, n <= limit
  PROVE  /\ Cmsg!ALIGN(n) \in Nat /\ n <= Cmsg!ALIGN(n) /\ Cmsg!ALIGN(n) <= n + 3
         /\ Cmsg!ALIGN(n) <= limit
<1> DEFINE q == (n + 3) \div 4
           r == limit \div 4
<1>1. q \in Nat /\ 4 * q <= n + 3 /\ n + 3 <= 4 * q + 3
  OBVIOUS
<1>2. r \in Nat /\ limit = 4 * r
  OBVIOUS
<1>3. Cmsg!ALIGN(n) = 4 * q
  BY <1>1 DEF Cmsg!ALIGN
<1> HIDE DEF q, r
<1>. QED
  BY <1>1, <1>2, <1>3

\* A number below the modulus is its own remainder.
LEMMA ModuloSmall ==
  ASSUME NEW x \in Nat, NEW m \in Nat, x < m
  PROVE  x % m = x
<1>1. x < 2 * m
  OBVIOUS
<1>. QED
  BY <1>1, Modulo

\* The control data of a message, and a header in memory.
LEMMA MessageIs ==
  ASSUME Cmsg!ControlData, msg \in Msgs, NEW a \in 1 .. PtrMod - 1
  PROVE  /\ PtrMod \in Nat \ {0} /\ PtrMod % 4 = 0
         /\ Cmsg!Limit \in Nat /\ Cmsg!Limit < PtrMod
         /\ msg.memory[a] \in Nat /\ msg.memory[a] < PtrMod
<1>1. PtrMod \in Nat /\ PtrMod >= 1 /\ PtrMod % 4 = 0 /\ a \in 0 .. PtrMod - 1
  BY DEF Cmsg!ControlData
<1>2. /\ msg.control \in 1 .. PtrMod - 1 /\ msg.controllen \in Nat
      /\ msg.control + msg.controllen < PtrMod
      /\ msg.memory \in [0 .. PtrMod - 1 -> 0 .. PtrMod - 1]
  BY DEF Cmsg!ControlData
<1>3. msg.memory[a] \in 0 .. PtrMod - 1
  BY <1>1, <1>2
<1>4. msg.memory[a] \in Nat /\ msg.memory[a] < PtrMod
  BY <1>1, <1>3
<1>5. Cmsg!Limit \in Nat /\ Cmsg!Limit < PtrMod
  <2> DEFINE p == msg.control
             l == msg.controllen
  <2>1. p \in Nat /\ l \in Nat /\ p + l < PtrMod
    BY <1>1, <1>2
  <2>2. Cmsg!Limit = p + l
    BY DEF Cmsg!Limit
  <2> HIDE DEF p, l
  <2>. QED
    BY <2>1, <2>2
<1>. QED
  BY <1>1, <1>4, <1>5

\* What CMSG_NXTHDR makes of a length that does not reach the end of memory: NULL,
\* if the next header neither lies within nor overhangs, and that header if it does.
LEMMA NextStraight ==
  ASSUME Cmsg!ControlData, msg \in Msgs, cmsg \in 1 .. PtrMod - 1,
         NEW len, len = msg.memory[cmsg], ~Cmsg!Wraps(cmsg, len)
  PROVE  /\ cmsg + Cmsg!ALIGN(len) \in 1 .. PtrMod - 1
         /\ Cmsg!ALIGN(len) = 0 => len = 0
         /\ Cmsg!Beyond(len) <=> ~Cmsg!There(cmsg + Cmsg!ALIGN(len), len)
         /\ ~Cmsg!Beyond(len) => Cmsg!CMSG_NXTHDR = cmsg + Cmsg!ALIGN(len)
<1> DEFINE aligned == Cmsg!ALIGN(len)
           limit == Cmsg!Limit
<1>1. /\ PtrMod \in Nat \ {0} /\ limit \in Nat /\ limit < PtrMod
      /\ len \in Nat /\ len < PtrMod /\ cmsg \in Nat /\ cmsg >= 1
      /\ PtrMod % 4 = 0
  BY MessageIs
<1>2. aligned \in Nat /\ len <= aligned /\ aligned <= len + 3
  BY <1>1, AlignIs
<1>3. cmsg + len + 12 < PtrMod
  BY <1>1 DEF Cmsg!Wraps, Cmsg!HdrSize
<1>4. (cmsg + len + 12) % PtrMod = cmsg + len + 12
  <2> DEFINE x == cmsg + len + 12
  <2>1. x \in Nat /\ PtrMod \in Nat /\ x < PtrMod
    BY <1>1, <1>3
  <2> HIDE DEF x
  <2>2. x % PtrMod = x
    BY <2>1, ModuloSmall
  <2>. QED
    BY <2>2 DEF x
<1>5. cmsg + aligned \in Nat /\ cmsg + aligned < PtrMod /\ cmsg + aligned >= 1
  BY <1>1, <1>2, <1>3
<1>6. (cmsg + aligned) % PtrMod = cmsg + aligned
  BY <1>1, <1>5, ModuloSmall
<1>7. Cmsg!Beyond(len) <=> cmsg + len + 12 > limit
  BY <1>4 DEF Cmsg!Beyond, Cmsg!HdrSize
<1>8. Cmsg!There(cmsg + aligned, len) <=>
        \/ cmsg + aligned + 12 <= limit
        \/ ~(cmsg + aligned + 12 <= limit) /\ (cmsg + aligned) - (aligned - len) + 12 <= limit
  BY DEF Cmsg!There, Cmsg!Within, Cmsg!Overhangs, Cmsg!HdrSize
<1>9. ~Cmsg!Beyond(len) => Cmsg!CMSG_NXTHDR = cmsg + aligned
  BY <1>6 DEF Cmsg!CMSG_NXTHDR, Cmsg!Cmsg_len
<1> HIDE DEF aligned, limit
<1>10. Cmsg!Beyond(len) <=> ~Cmsg!There(cmsg + aligned, len)
  <2>1. (cmsg + aligned) - (aligned - len) + 12 = cmsg + len + 12
    BY <1>1, <1>2
  <2>2. cmsg + aligned + 12 <= limit => cmsg + len + 12 <= limit
    BY <1>1, <1>2
  <2>3. cmsg + len + 12 > limit <=> ~(cmsg + len + 12 <= limit)
    BY <1>1
  <2>. QED
    BY <1>7, <1>8, <2>1, <2>2, <2>3
<1>11. aligned = 0 => len = 0
  BY <1>1, <1>2
<1>. QED
  BY <1>1, <1>5, <1>9, <1>10, <1>11 DEF aligned

\* And of one that does, if the sum that wrapped is no more than the limit.
LEMMA NextWrapped ==
  ASSUME Cmsg!ControlData, msg \in Msgs, cmsg \in 1 .. PtrMod - 1,
         NEW len, len = msg.memory[cmsg], Cmsg!Wraps(cmsg, len), ~Cmsg!Beyond(len),
         NEW b, b = Cmsg!CMSG_NXTHDR
  PROVE  b \in 0 .. PtrMod - 1 /\ (b <= cmsg \/ b >= PtrMod - 12)
<1> DEFINE aligned == Cmsg!ALIGN(len)
<1>1. /\ PtrMod \in Nat \ {0} /\ PtrMod % 4 = 0
      /\ len \in Nat /\ len < PtrMod /\ cmsg \in Nat /\ cmsg < PtrMod
  BY MessageIs
<1>2. aligned \in Nat /\ len <= aligned /\ aligned <= PtrMod
  BY <1>1, AlignIs
<1>3. cmsg + len + 12 >= PtrMod
  BY DEF Cmsg!Wraps, Cmsg!HdrSize
<1>4. b = (cmsg + aligned) % PtrMod
  BY DEF Cmsg!CMSG_NXTHDR, Cmsg!Cmsg_len
<1> HIDE DEF aligned
<1> DEFINE x == cmsg + aligned
<1>5. x \in Nat /\ x < 2 * PtrMod /\ x - PtrMod <= cmsg /\ x >= PtrMod - 12
  BY <1>1, <1>2, <1>3
<1>6. PtrMod \in Nat /\ b = x % PtrMod
  BY <1>1, <1>4
<1> HIDE DEF x
<1>7. b = IF x < PtrMod THEN x ELSE x - PtrMod
  BY <1>5, <1>6, Modulo
<1>. QED
  BY <1>1, <1>5, <1>7

\* The walk is at the header it has met last, and has come there as is promised.
WalkInv ==
  /\ msg \in Msgs /\ cmsg \in 0 .. PtrMod - 1
  /\ met \in Seq(1 .. PtrMod - 1) /\ Len(met) >= 1
  /\ cmsg # Cmsg!NULL => cmsg = met[Len(met)]
  /\ Cmsg!WalkRight

\* The invariant of the walk: it holds at the start, and every step keeps it.
LEMMA WalkKept ==
  ASSUME Cmsg!ControlData
  PROVE  /\ Cmsg!Init => WalkInv
         /\ WalkInv /\ [Cmsg!Next]_Cmsg!cmsgVars => WalkInv'
         /\ WalkInv => Cmsg!WalkRight
<1>1. Cmsg!Init => WalkInv
  <2> SUFFICES ASSUME Cmsg!Init PROVE WalkInv
    OBVIOUS
  <2>1. msg \in Msgs /\ met = <<cmsg>> /\ cmsg \in 1 .. PtrMod - 1
    BY DEF Cmsg!Init, Cmsg!CMSG_FIRSTHDR, Cmsg!ControlData
  <2>2. met \in Seq(1 .. PtrMod - 1) /\ Len(met) = 1 /\ met[1] = cmsg
    BY <2>1
  <2>3. PtrMod \in Nat /\ cmsg # 0 /\ cmsg \in 0 .. PtrMod - 1
    BY <2>1 DEF Cmsg!ControlData
  <2>4. Cmsg!WalkRight
    BY <2>2, <2>3 DEF Cmsg!WalkRight, Cmsg!NULL
  <2>. QED
    BY <2>1, <2>2, <2>3, <2>4 DEF WalkInv
<1>2. WalkInv /\ [Cmsg!Next]_Cmsg!cmsgVars => WalkInv'
  <2> SUFFICES ASSUME WalkInv, [Cmsg!Next]_Cmsg!cmsgVars PROVE WalkInv'
    OBVIOUS
  <2>1. CASE Cmsg!Walk
    <3> DEFINE n == Len(met)
               len == msg.memory[cmsg]
    <3>1. /\ msg' = msg /\ msg \in Msgs /\ cmsg = met[n] /\ cmsg \in 1 .. PtrMod - 1
          /\ n \in Nat /\ n >= 1 /\ PtrMod \in Nat
      BY <2>1 DEF Cmsg!Walk, WalkInv, Cmsg!NULL, Cmsg!ControlData
    <3>2. cmsg' = Cmsg!CMSG_NXTHDR /\ met' = IF cmsg' = 0 THEN met ELSE Append(met, cmsg')
      BY <2>1 DEF Cmsg!Walk, Cmsg!NULL
    <3>3. \A k \in 2 .. n : Cmsg!Follows(met[k - 1], msg.memory[met[k - 1]], met[k])
      BY DEF WalkInv, Cmsg!WalkRight
    <3>4. \A a, l, b : /\ Cmsg!Follows(a, l, b)' = Cmsg!Follows(a, l, b)
                       /\ Cmsg!There(b, l)' = Cmsg!There(b, l)
      BY <3>1 DEF Cmsg!Follows, Cmsg!There, Cmsg!Within, Cmsg!Overhangs, Cmsg!Limit, Cmsg!Wraps, Cmsg!ALIGN
    <3>5. ASSUME cmsg' = 0 PROVE WalkInv'
      <4>1. met' = met
        BY <3>2, <3>5
      <4>2. Cmsg!Wraps(cmsg, len) \/ ~Cmsg!There(cmsg + Cmsg!ALIGN(len), len)
        <5> SUFFICES ASSUME ~Cmsg!Wraps(cmsg, len) PROVE ~Cmsg!There(cmsg + Cmsg!ALIGN(len), len)
          OBVIOUS
        <5>1. /\ cmsg + Cmsg!ALIGN(len) \in 1 .. PtrMod - 1
              /\ Cmsg!Beyond(len) <=> ~Cmsg!There(cmsg + Cmsg!ALIGN(len), len)
              /\ ~Cmsg!Beyond(len) => Cmsg!CMSG_NXTHDR = cmsg + Cmsg!ALIGN(len)
          BY <3>1, NextStraight
        <5>. QED
          BY <3>2, <3>5, <5>1
      <4>3. Cmsg!WalkRight'
        BY <3>1, <3>3, <3>4, <3>5, <4>1, <4>2 DEF Cmsg!WalkRight, Cmsg!Wraps, Cmsg!ALIGN, Cmsg!HdrSize
      <4>. QED
        BY <3>1, <3>5, <4>1, <4>3 DEF WalkInv, Cmsg!NULL
    <3>6. ASSUME cmsg' # 0 PROVE WalkInv'
      <4>1. met' = Append(met, cmsg') /\ ~Cmsg!Beyond(len)
        BY <3>2, <3>6 DEF Cmsg!CMSG_NXTHDR, Cmsg!Cmsg_len, Cmsg!NULL
      <4>2. cmsg' \in 1 .. PtrMod - 1 /\ Cmsg!Follows(cmsg, len, cmsg')
        <5>1. CASE Cmsg!Wraps(cmsg, len)
          BY <3>1, <3>2, <3>6, <4>1, <5>1, NextWrapped DEF Cmsg!Follows, Cmsg!HdrSize
        <5>2. CASE ~Cmsg!Wraps(cmsg, len)
          <6>1. /\ cmsg + Cmsg!ALIGN(len) \in 1 .. PtrMod - 1
                /\ Cmsg!ALIGN(len) = 0 => len = 0
                /\ Cmsg!There(cmsg + Cmsg!ALIGN(len), len)
                /\ cmsg' = cmsg + Cmsg!ALIGN(len)
            BY <3>1, <3>2, <4>1, <5>2, NextStraight
          <6>2. cmsg' > cmsg \/ len = 0
            <7>1. len \in Nat /\ len <= PtrMod /\ PtrMod % 4 = 0
              BY <3>1, MessageIs
            <7>2. Cmsg!ALIGN(len) \in Nat
              BY <3>1, <7>1, AlignIs
            <7>. QED
              BY <3>1, <6>1, <7>2
          <6>. QED
            BY <5>2, <6>1, <6>2 DEF Cmsg!Follows
        <5>. QED
          BY <5>1, <5>2
      <4>3. /\ met' \in Seq(1 .. PtrMod - 1) /\ Len(met') = n + 1 /\ met'[n + 1] = cmsg'
            /\ \A k \in 1 .. n : met'[k] = met[k]
        BY <4>1, <4>2 DEF WalkInv
      <4>4. ASSUME NEW k \in 2 .. n + 1
            PROVE  Cmsg!Follows(met'[k - 1], msg.memory[met'[k - 1]], met'[k])
        <5>1. CASE k = n + 1
          BY <3>1, <4>2, <4>3, <5>1
        <5>2. CASE k \in 2 .. n
          <6>1. k \in 1 .. n /\ k - 1 \in 1 .. n
            BY <3>1, <5>2
          <6>2. met'[k] = met[k] /\ met'[k - 1] = met[k - 1]
            BY <4>3, <6>1
          <6>. QED
            BY <3>3, <5>2, <6>2
        <5>. QED
          BY <3>1, <5>1, <5>2
      <4>5. Cmsg!WalkRight'
        BY <3>1, <3>4, <3>6, <4>3, <4>4 DEF Cmsg!WalkRight, Cmsg!NULL
      <4>. QED
        BY <3>1, <4>2, <4>3, <4>5 DEF WalkInv
    <3>. QED
      BY <3>5, <3>6
  <2>2. CASE UNCHANGED Cmsg!cmsgVars
    BY <2>2 DEF Cmsg!cmsgVars, WalkInv, Cmsg!WalkRight, Cmsg!Follows, Cmsg!There, Cmsg!Within,
       Cmsg!Overhangs, Cmsg!Limit, Cmsg!Wraps, Cmsg!ALIGN
  <2>. QED
    BY <2>1, <2>2 DEF Cmsg!Next
<1>3. WalkInv => Cmsg!WalkRight
  BY DEF WalkInv
<1>. QED
  BY <1>1, <1>2, <1>3

(***************************************************************************)
(* Interrupts counted                                                      *)
(***************************************************************************)

\* What a quotient and a remainder are, for a divisor that is not a number.
LEMMA Quotients ==
  ASSUME NEW x \in Int, NEW s \in Nat \ {0}
  PROVE  /\ x \div s \in Int /\ x % s \in 0 .. s - 1
         /\ x = s * (x \div s) + (x % s)
<1>1. x % s = x - s * (x \div s)
  BY Z3T(30)
<1>. QED
  BY <1>1

LEMMA Unique ==
  ASSUME NEW s \in Nat \ {0}, NEW q \in Int, NEW r \in 0 .. s - 1
  PROVE  (s * q + r) \div s = q /\ (s * q + r) % s = r
<1> DEFINE x == s * q + r
<1>1. x \in Int /\ x = s * q + r
  OBVIOUS
<1> HIDE DEF x
<1>2. x \div s = q /\ x % s = r
  BY <1>1
<1>. QED
  BY <1>2 DEF x

LEMMA Monotone ==
  ASSUME NEW s \in Nat \ {0}, NEW x \in Int, NEW y \in Int, x <= y
  PROVE  x \div s <= y \div s
<1> DEFINE p == x \div s  q == y \div s  u == x % s  v == y % s
<1>1. p \in Int /\ q \in Int /\ u \in 0 .. s - 1 /\ v \in 0 .. s - 1 /\ x = s * p + u /\ y = s * q + v
  BY Quotients
<1> HIDE DEF p, q, u, v
<1>2. CASE p > q
  <2>1. s * (p - q) >= s
    BY <1>1, <1>2
  <2>2. s * (p - q) = s * p - s * q
    BY <1>1
  <2>. QED
    BY <1>1, <2>1, <2>2
<1>3. p <= q
  BY <1>1, <1>2
<1>. QED
  BY <1>3 DEF p, q

\* A word that was reduced before it is subtracted from.
LEMMA Subtracted ==
  ASSUME NEW s \in Nat \ {0}, NEW x \in Int, NEW n \in Int
  PROVE  ((x % s) - n) % s = (x - n) % s
<1> DEFINE p == x \div s  u == x % s  q == (u - n) \div s  v == (u - n) % s
<1>1. p \in Int /\ u \in 0 .. s - 1 /\ x = s * p + u
  BY Quotients
<1>2. q \in Int /\ v \in 0 .. s - 1 /\ u - n = s * q + v
  BY <1>1, Quotients, SMTT(30)
<1> HIDE DEF p, u, q, v
<1>3. x - n = s * (p + q) + v
  <2>1. s * (p + q) = s * p + s * q
    BY <1>1, <1>2
  <2>. QED
    BY <1>1, <1>2, <2>1
<1>4. (x - n) % s = v
  BY <1>1, <1>2, <1>3, Unique
<1>. QED
  BY <1>4 DEF u, v

\* The ticks that updatestat() takes off are those of the clock, or one more.
LEMMA ClockIs ==
  ASSUME Cnt!Clock, btm \in 0 .. Second - 1, time \in Nat
  PROVE  Cnt!Ticks \in Nat /\ Cnt!ClockInterrupts(btm + time) \in {Cnt!Ticks, Cnt!Ticks + 1}
<1>1. HZ \in Nat /\ Second \in Nat \ {0}
  BY DEF Cnt!Clock
<1> DEFINE q == (btm + time) \div Second
           r == (btm + time) % Second
           m == HZ * (r - btm)
           d == m \div Second
           e == m % Second
           f == (-m) \div Second
           g == (-m) % Second
<1>2. q \in Int /\ r \in 0 .. Second - 1 /\ btm + time = Second * q + r
  <2>1. btm + time \in Int
    BY <1>1
  <2>. QED
    BY <1>1, <2>1, Quotients, Zenon
<1>3. btm \div Second = 0 /\ btm % Second = btm
  <2>1. Second * 0 + btm = btm
    BY <1>1
  <2>. QED
    BY <1>1, <2>1, Unique
<1>4. Cnt!ClockInterrupts(btm + time) = HZ * q + Cnt!Quotient(m, Second)
  BY <1>1, <1>2, <1>3 DEF Cnt!ClockInterrupts
<1> HIDE DEF q, r
<1>5. m \in Int /\ -m \in Int
  BY <1>1, <1>2
<1>6. time * HZ = Second * (HZ * q) + m
  <2>1. time = Second * q + (r - btm)
    BY <1>1, <1>2
  <2>2. \A x, y \in Int : (x + y) * HZ = x * HZ + HZ * y
    BY <1>1
  <2>3. Second * q \in Int /\ r - btm \in Int
    BY <1>1, <1>2
  <2>4. (Second * q + (r - btm)) * HZ = (Second * q) * HZ + m
    BY <2>2, <2>3
  <2>5. (Second * q) * HZ = Second * (HZ * q)
    BY <1>1, <1>2
  <2>. QED
    BY <2>1, <2>4, <2>5
<1> HIDE DEF m
<1>7. d \in Int /\ e \in 0 .. Second - 1 /\ m = Second * d + e
  BY <1>1, <1>5, Quotients
<1>8. f \in Int /\ g \in 0 .. Second - 1 /\ -m = Second * f + g
  BY <1>1, <1>5, Quotients
<1>9. Cnt!Quotient(m, Second) = IF m >= 0 THEN d ELSE -f
  BY DEF Cnt!Quotient
<1> HIDE DEF d, e, f, g
<1>10. HZ * q \in Int
  BY <1>1, <1>2
<1>11. Cnt!Ticks = HZ * q + d
  <2>1. time * HZ = Second * (HZ * q + d) + e
    <3>1. Second * (HZ * q + d) = Second * (HZ * q) + Second * d
      BY <1>1, <1>7, <1>10
    <3>2. Second * (HZ * q) \in Int /\ Second * d \in Int
      BY <1>1, <1>7, <1>10
    <3>. QED
      BY <1>1, <1>5, <1>6, <1>7, <3>1, <3>2
  <2>2. HZ * q + d \in Int
    BY <1>7, <1>10
  <2>. QED
    BY <1>1, <1>7, <2>1, <2>2, Unique DEF Cnt!Ticks
<1>12. -f \in {d, d + 1}
  <2>1. CASE g = 0
    <3>1. m = Second * (-f) + 0
      BY <1>1, <1>5, <1>8, <2>1
    <3>2. d = -f
      BY <1>1, <1>8, <3>1, Unique DEF d
    <3>. QED
      BY <3>2
  <2>2. CASE g # 0
    <3>1. m = Second * (-f - 1) + (Second - g)
      BY <1>1, <1>5, <1>8
    <3>2. d = -f - 1
      BY <1>1, <1>8, <2>2, <3>1, Unique DEF d
    <3>. QED
      BY <1>8, <3>2
  <2>. QED
    BY <2>1, <2>2
<1>13. Cnt!Ticks \in Nat
  <2>1. time * HZ \in Nat /\ 0 <= time * HZ
    BY <1>1
  <2>2. 0 \div Second = 0
    <3>1. Second * 0 + 0 = 0
      BY <1>1
    <3>. QED
      BY <1>1, <3>1, Unique
  <2>3. 0 <= Cnt!Ticks
    BY <1>1, <2>1, <2>2, Monotone DEF Cnt!Ticks
  <2>. QED
    BY <1>7, <1>10, <1>11, <2>3
<1>. QED
  BY <1>4, <1>7, <1>8, <1>9, <1>10, <1>11, <1>12, <1>13

\* The count as it was read, or what the subtraction left of it.
CountInv ==
  /\ btm \in 0 .. Second - 1 /\ time \in Nat /\ devices \in Nat /\ stage \in {"sum", "time"}
  /\ atRead.ticks \in Nat /\ atRead.devices \in Nat
  /\ atRead = [ticks |-> atRead.ticks, devices |-> atRead.devices, passed |-> atRead.passed]
  /\ stage = "time" => /\ atRead.ticks <= Cnt!Ticks
                       /\ v_intr = (atRead.ticks + atRead.devices) % IntrMod
  /\ Cnt!NearlyDevices

\* The invariant of updatestat(): it holds at the start, every
\* step keeps it, and what is promised follows from it.
LEMMA CountKept ==
  ASSUME Cnt!Clock
  PROVE  /\ Cnt!Init => CountInv
         /\ CountInv /\ [Cnt!Next]_Cnt!intrVars => CountInv'
         /\ CountInv => Cnt!NearlyDevices
<1>0. HZ \in Nat /\ Second \in Nat \ {0} /\ IntrMod \in Nat \ {0}
  BY DEF Cnt!Clock
<1>1. Cnt!Init => CountInv
  <2> SUFFICES ASSUME Cnt!Init PROVE CountInv
    OBVIOUS
  <2>1. 0 \in 0 .. IntrMod - 1 /\ IntrMod * 0 + 0 = 0
    BY <1>0
  <2>2. 0 % IntrMod = 0
    BY <1>0, <2>1, Unique
  <2>3. Cnt!NearlyDevices
    BY <2>2 DEF Cnt!Init, Cnt!NearlyDevices
  <2>. QED
    BY <2>3 DEF Cnt!Init, CountInv
<1>2. CountInv /\ [Cnt!Next]_Cnt!intrVars => CountInv'
  <2> SUFFICES ASSUME CountInv, [Cnt!Next]_Cnt!intrVars PROVE CountInv'
    OBVIOUS
  <2>1. ASSUME UNCHANGED <<btm, v_intr, stage, atRead>>, time' \in Nat, time <= time', devices' \in Nat
        PROVE  CountInv'
    <3>1. Cnt!Ticks <= Cnt!Ticks'
      <4>1. time * HZ \in Int /\ time' * HZ \in Int /\ time * HZ <= time' * HZ
        BY <1>0, <2>1 DEF CountInv
      <4>. QED
        BY <1>0, <4>1, Monotone DEF Cnt!Ticks
    <3>2. Cnt!Ticks \in Nat /\ Cnt!Ticks' \in Nat
      <4>1. Cnt!Ticks \in Nat
        BY ClockIs DEF CountInv
      <4>2. Cnt!Ticks' \in Int
        BY <1>0, <2>1 DEF Cnt!Ticks
      <4>. QED
        BY <3>1, <4>1, <4>2
    <3>3. Cnt!NearlyDevices'
      BY <2>1 DEF CountInv, Cnt!NearlyDevices
    <3>. QED
      BY <2>1, <3>1, <3>2, <3>3 DEF CountInv
  <2>2. CASE Cnt!Pass
    BY <2>1, <2>2 DEF Cnt!Pass, CountInv
  <2>3. CASE Cnt!Interrupt
    BY <2>1, <2>3 DEF Cnt!Interrupt, CountInv
  <2>4. CASE Cnt!ReadSum
    <3>1. Cnt!Ticks \in Nat /\ Cnt!Ticks' = Cnt!Ticks
      BY <2>4, ClockIs DEF CountInv, Cnt!ReadSum, Cnt!Ticks
    <3>2. Cnt!NearlyDevices'
      BY <2>4 DEF Cnt!ReadSum, Cnt!NearlyDevices
    <3>. QED
      BY <2>4, <3>1, <3>2 DEF CountInv, Cnt!ReadSum
  <2>5. CASE Cnt!GetTime
    <3> DEFINE clock == Cnt!ClockInterrupts(btm + time)
               k == clock - atRead.ticks
    <3>1. /\ stage = "time" /\ stage' = "sum" /\ UNCHANGED <<btm, time, devices>>
          /\ v_intr' = (v_intr - clock) % IntrMod
          /\ atRead' = [atRead EXCEPT !.passed = Cnt!Ticks - atRead.ticks]
      BY <2>5 DEF Cnt!GetTime
    <3>2. Cnt!Ticks \in Nat /\ clock \in {Cnt!Ticks, Cnt!Ticks + 1}
      BY ClockIs DEF CountInv
    <3>3. atRead' = [ticks |-> atRead.ticks, devices |-> atRead.devices, passed |-> Cnt!Ticks - atRead.ticks]
      BY <3>1 DEF CountInv
    <3>4. atRead.ticks \in Nat /\ atRead.devices \in Nat /\ atRead.ticks <= Cnt!Ticks
          /\ v_intr = (atRead.ticks + atRead.devices) % IntrMod
      BY <3>1 DEF CountInv
    <3> HIDE DEF clock
    <3>5. k \in 0 .. atRead'.passed + 1
      BY <3>2, <3>3, <3>4
    <3>6. v_intr' = (atRead'.devices - k) % IntrMod
      <4>1. v_intr' = ((atRead.ticks + atRead.devices) - clock) % IntrMod
        <5> DEFINE x == atRead.ticks + atRead.devices
        <5>1. x \in Int /\ clock \in Int /\ v_intr = x % IntrMod
          BY <3>2, <3>4
        <5> HIDE DEF x
        <5>2. ((x % IntrMod) - clock) % IntrMod = (x - clock) % IntrMod
          BY <1>0, <5>1, Subtracted
        <5>3. v_intr' = (x - clock) % IntrMod
          BY <3>1, <5>1, <5>2, Zenon
        <5>. QED
          BY <5>3 DEF x
      <4>2. (atRead.ticks + atRead.devices) - clock = atRead'.devices - k
        BY <3>2, <3>3, <3>4
      <4>. QED
        BY <4>1, <4>2
    <3>7. Cnt!NearlyDevices'
      BY <3>5, <3>6 DEF Cnt!NearlyDevices
    <3>. QED
      BY <3>1, <3>3, <3>4, <3>7 DEF CountInv
  <2>6. CASE UNCHANGED Cnt!intrVars
    BY <2>6 DEF Cnt!intrVars, CountInv, Cnt!Ticks, Cnt!NearlyDevices
  <2>. QED
    BY <2>2, <2>3, <2>4, <2>5, <2>6 DEF Cnt!Next
<1>3. CountInv => Cnt!NearlyDevices
  BY DEF CountInv
<1>. QED
  BY <1>1, <1>2, <1>3

(***************************************************************************)
(* stdio's macros                                                          *)
(***************************************************************************)
Chars == Std!Characters
Returned == Chars \cup {EOF}
Stream == [file : Seq(Chars), buffer : Seq(Chars), count : Int]

Streams ==
  /\ step \in {"begin", "putc", "test", "store", "putbuf", "end"} /\ nested \in BOOLEAN /\ lineBuf \in BOOLEAN
  /\ in \in Stream /\ out \in Stream /\ eof \in BOOLEAN
  /\ char \in Returned /\ got \in Seq(Returned) /\ tested \in Nat

\* While a character is on its way into the buffer, there is room for it; after
\* the end of the file there is nothing to read.
Counts ==
  /\ in.count = Len(in.buffer)
  /\ Len(out.buffer) + out.count <= Size
  /\ step \in {"test", "store"} => Len(out.buffer) + out.count <= Size - 1
  /\ eof => in.buffer = <<>> /\ in.file = <<>>

\* w is what is left of g without some characters.
Within(w, g) ==
  \E m \in [DOMAIN w -> DOMAIN g] :
    \A k \in DOMAIN w : w[k] = g[m[k]] /\ (k > 1 => m[k - 1] < m[k])

\* The same of characters and what getc returned, EOF at most for the last of them.
Kept(w, g, ends) ==
  \E m \in [DOMAIN w -> DOMAIN g] :
    \A k \in DOMAIN w :
      /\ w[k] = Std!AsChar(g[m[k]])
      /\ k > 1 => m[k - 1] < m[k]
      /\ g[m[k]] = EOF => ends /\ k = Len(w)

Unread == in.buffer \o in.file

OrderNested ==
  /\ step # "end"
  /\ Len(got) = Len(Std!Written) + tested
  /\ ~(step = "begin" /\ eof) => Within(Std!Written, got)
  /\ step = "begin" /\ eof =>
       /\ Kept(Std!Written, got, TRUE)
       /\ Std!Written # <<>> /\ Std!Written[Len(Std!Written)] = Char255

OrderPlain ==
  /\ tested = 0 /\ (eof <=> step = "end")
  /\ step = "begin" => got = Std!Written /\ Std!Written \o Unread = Content
  /\ step \notin {"begin", "end"} =>
       char \in Chars /\ got = Append(Std!Written, char) /\ got \o Unread = Content
  /\ step = "end" => Std!Written = Content

Order == IF nested THEN OrderNested ELSE OrderPlain

Lines == ~nested => ~Std!Waiting /\ (step = "store" /\ lineBuf => char # Newline)

StdioInv == Streams /\ Counts /\ Order /\ Lines

LEMMA WithinSelf ==
  ASSUME NEW S, NEW w \in Seq(S)
  PROVE  Within(w, w)
<1> DEFINE m == [k \in DOMAIN w |-> k]
<1>1. m \in [DOMAIN w -> DOMAIN w] /\ \A k \in DOMAIN w : w[k] = w[m[k]] /\ (k > 1 => m[k - 1] < m[k])
  OBVIOUS
<1>. QED
  BY <1>1 DEF Within

LEMMA WithinMore ==
  ASSUME NEW S, NEW w \in Seq(S), NEW g \in Seq(S), NEW x \in S, Within(w, g)
  PROVE  Within(w, Append(g, x))
<1>1. PICK m \in [DOMAIN w -> DOMAIN g] : \A k \in DOMAIN w : w[k] = g[m[k]] /\ (k > 1 => m[k - 1] < m[k])
  BY DEF Within
<1>2. DOMAIN g \subseteq DOMAIN Append(g, x) /\ \A k \in DOMAIN g : Append(g, x)[k] = g[k]
  OBVIOUS
<1>3. m \in [DOMAIN w -> DOMAIN Append(g, x)] /\ \A k \in DOMAIN w : w[k] = Append(g, x)[m[k]]
  BY <1>1, <1>2
<1>. QED
  BY <1>1, <1>3 DEF Within

\* The same, but that y comes last in v for x, which is last in h.
WithinTo(v, y, h, x) ==
  \E m \in [DOMAIN v -> DOMAIN h] :
    \A k \in DOMAIN v :
      /\ k # Len(v) => v[k] = h[m[k]]
      /\ k = Len(v) => v[k] = y /\ h[m[k]] = x
      /\ k > 1 => m[k - 1] < m[k]

LEMMA WithinLast ==
  ASSUME NEW S, NEW w \in Seq(S), NEW g \in Seq(S), NEW x \in S, NEW y \in S, Within(w, g),
         NEW v, NEW h, v = Append(w, y), h = Append(g, x)
  PROVE  WithinTo(v, y, h, x)
<1>1. PICK m \in [DOMAIN w -> DOMAIN g] : \A k \in DOMAIN w : w[k] = g[m[k]] /\ (k > 1 => m[k - 1] < m[k])
  BY DEF Within
<1> DEFINE n == [k \in DOMAIN v |-> IF k \in DOMAIN w THEN m[k] ELSE Len(g) + 1]
<1>2. /\ Len(w) \in Nat /\ Len(g) \in Nat /\ DOMAIN w = 1 .. Len(w) /\ DOMAIN g = 1 .. Len(g)
      /\ DOMAIN v = 1 .. Len(w) + 1 /\ DOMAIN h = 1 .. Len(g) + 1 /\ Len(v) = Len(w) + 1
      /\ \A k \in DOMAIN w : v[k] = w[k]
      /\ \A k \in DOMAIN g : h[k] = g[k]
      /\ v[Len(w) + 1] = y /\ h[Len(g) + 1] = x
  OBVIOUS
<1>3. n \in [DOMAIN v -> DOMAIN h]
  BY <1>1, <1>2
<1>4. ASSUME NEW k \in DOMAIN v
      PROVE  /\ k # Len(v) => v[k] = h[n[k]]
             /\ k = Len(v) => v[k] = y /\ h[n[k]] = x
             /\ k > 1 => n[k - 1] < n[k]
  <2>1. CASE k \in DOMAIN w
    <3>1. n[k] = m[k] /\ m[k] \in DOMAIN g /\ v[k] = h[n[k]] /\ k # Len(v)
      BY <1>1, <1>2, <2>1
    <3>2. k > 1 => k - 1 \in DOMAIN w /\ k - 1 \in DOMAIN v
      BY <1>2, <2>1
    <3>. QED
      BY <1>1, <3>1, <3>2
  <2>2. CASE k \notin DOMAIN w
    <3>1. k = Len(w) + 1 /\ n[k] = Len(g) + 1 /\ v[k] = y /\ h[n[k]] = x
      BY <1>2, <2>2
    <3>2. k > 1 => k - 1 \in DOMAIN w /\ k - 1 \in DOMAIN v
      BY <1>2, <3>1
    <3>3. \A j \in DOMAIN w : m[j] < Len(g) + 1
      BY <1>1, <1>2
    <3>. QED
      BY <1>2, <3>1, <3>2, <3>3
  <2>. QED
    BY <2>1, <2>2
<1>. QED
  BY <1>3, <1>4 DEF WithinTo

\* What was put is in order, and stays so when another is put.
LEMMA PutOrder ==
  ASSUME Std!File, NEW w \in Seq(Chars), NEW g \in Seq(Returned), NEW x \in Returned, Within(w, g)
  PROVE  /\ \A ends \in BOOLEAN : Kept(w, g, ends)
         /\ x # EOF => Within(Append(w, Std!AsChar(x)), Append(g, x))
         /\ Kept(Append(w, Std!AsChar(x)), Append(g, x), TRUE)
<1>1. EOF \notin Chars /\ Char255 \in Chars
  BY DEF Std!File, Chars, Std!Characters
<1>2. w \in Seq(Returned) /\ \A k \in DOMAIN w : w[k] \in Chars
  BY DEF Returned
<1>3. ASSUME NEW ends \in BOOLEAN PROVE Kept(w, g, ends)
  <2>1. PICK m \in [DOMAIN w -> DOMAIN g] : \A k \in DOMAIN w : w[k] = g[m[k]] /\ (k > 1 => m[k - 1] < m[k])
    BY DEF Within
  <2>2. \A k \in DOMAIN w : g[m[k]] # EOF /\ w[k] = Std!AsChar(g[m[k]])
    BY <1>1, <1>2, <2>1 DEF Std!AsChar
  <2>. QED
    BY <2>1, <2>2 DEF Kept
<1> DEFINE y == Std!AsChar(x)  v == Append(w, y)  h == Append(g, x)
<1>4. y \in Chars /\ y \in Returned /\ (x # EOF => y = x)
  BY <1>1 DEF Std!AsChar, Returned
<1>5. v \in Seq(Chars) /\ Len(v) = Len(w) + 1 /\ Len(w) \in Nat
  BY <1>4, AppendProperties
<1> HIDE DEF y
<1>6. v = Append(w, y) /\ h = Append(g, x)
  OBVIOUS
<1> HIDE DEF v, h
<1>7. PICK m \in [DOMAIN v -> DOMAIN h] :
             \A k \in DOMAIN v :
               /\ k # Len(v) => v[k] = h[m[k]]
               /\ k = Len(v) => v[k] = y /\ h[m[k]] = x
               /\ k > 1 => m[k - 1] < m[k]
  <2>1. WithinTo(v, y, h, x)
    BY <1>2, <1>4, <1>6, WithinLast
  <2>. QED
    BY <2>1 DEF WithinTo
<1>8. \A k \in DOMAIN v : v[k] \in Chars
  BY <1>5
<1>9. x # EOF => Within(v, h)
  BY <1>4, <1>7 DEF Within
<1>10. \A k \in DOMAIN v : v[k] = Std!AsChar(h[m[k]]) /\ (h[m[k]] = EOF => k = Len(v))
  BY <1>1, <1>4, <1>7, <1>8 DEF y, Std!AsChar
<1>11. Kept(v, h, TRUE)
  BY <1>7, <1>10 DEF Kept
<1>. QED
  BY <1>3, <1>9, <1>11 DEF v, h, y

\* A sequence that is read from its front.
LEMMA FrontRead ==
  ASSUME NEW S, NEW g \in Seq(S), NEW r \in Seq(S), NEW q \in Seq(S), NEW x \in S, r = <<x>> \o q
  PROVE  Append(g, x) \o q = g \o r
<1>1. <<x>> \in Seq(S) /\ Append(g, x) = g \o <<x>>
  BY AppendIsConcat
<1>. QED
  BY <1>1, ConcatAssociative

LEMMA FrontOf ==
  ASSUME NEW S, NEW b \in Seq(S), NEW f \in Seq(S), b # <<>>
  PROVE  b \o f = <<Head(b)>> \o (Tail(b) \o f)
<1>1. Head(b) \in S /\ Tail(b) \in Seq(S) /\ <<Head(b)>> \in Seq(S)
  BY HeadTailProperties
<1>2. b = <<Head(b)>> \o Tail(b)
  <2>1. Len(Tail(b)) = Len(b) - 1 /\ Len(b) \in Nat /\ \A k \in 1 .. Len(Tail(b)) : Tail(b)[k] = b[k + 1]
    BY HeadTailProperties
  <2>2. /\ Len(<<Head(b)>> \o Tail(b)) = Len(b)
        /\ \A k \in 1 .. Len(b) :
             (<<Head(b)>> \o Tail(b))[k] = IF k = 1 THEN Head(b) ELSE Tail(b)[k - 1]
    BY <1>1, <2>1, ConcatProperties
  <2>3. \A k \in 1 .. Len(b) : (<<Head(b)>> \o Tail(b))[k] = b[k]
    BY <2>1, <2>2
  <2>4. <<Head(b)>> \o Tail(b) \in Seq(S)
    BY <1>1, ConcatProperties
  <2>. QED
    BY <2>2, <2>3, <2>4, SeqEqual
<1>. QED
  BY <1>1, <1>2, ConcatAssociative

LEMMA PartOf ==
  ASSUME NEW S, NEW f \in Seq(S), NEW n \in Nat, n >= 1, n <= Len(f)
  PROVE  /\ SubSeq(f, 2, n) \in Seq(S) /\ Len(SubSeq(f, 2, n)) = n - 1
         /\ SubSeq(f, n + 1, Len(f)) \in Seq(S) /\ f[1] \in S
         /\ f = <<f[1]>> \o (SubSeq(f, 2, n) \o SubSeq(f, n + 1, Len(f)))
<1> DEFINE a == SubSeq(f, 2, n)  z == SubSeq(f, n + 1, Len(f))
<1>1. Len(f) \in Nat /\ \A k \in 1 .. Len(f) : f[k] \in S
  OBVIOUS
<1>2. a \in Seq(S) /\ Len(a) = n - 1 /\ \A k \in 1 .. n - 1 : a[k] = f[k + 1]
  BY <1>1, SubSeqProperties
<1>3. z \in Seq(S) /\ Len(z) = Len(f) - n /\ \A k \in 1 .. Len(f) - n : z[k] = f[k + n]
  BY <1>1, SubSeqProperties
<1> HIDE DEF a, z
<1>4. /\ a \o z \in Seq(S) /\ Len(a \o z) = Len(f) - 1
      /\ \A k \in 1 .. Len(f) - 1 : (a \o z)[k] = f[k + 1]
  BY <1>1, <1>2, <1>3, ConcatProperties
<1>5. LET h == <<f[1]>> IN h \in Seq(S) /\ Len(h) = 1 /\ h[1] = f[1] /\ f[1] \in S
  BY <1>1
<1>6. /\ <<f[1]>> \o (a \o z) \in Seq(S) /\ Len(<<f[1]>> \o (a \o z)) = Len(f)
      /\ \A k \in 1 .. Len(f) :
           (<<f[1]>> \o (a \o z))[k] = IF k <= 1 THEN f[1] ELSE (a \o z)[k - 1]
  BY <1>1, <1>4, <1>5, ConcatProperties
<1>7. ASSUME NEW k \in 1 .. Len(f) PROVE (<<f[1]>> \o (a \o z))[k] = f[k]
  <2>1. CASE k = 1
    BY <1>6, <2>1
  <2>2. CASE k # 1
    <3>1. k - 1 \in 1 .. Len(f) - 1 /\ ~(k <= 1) /\ (k - 1) + 1 = k
      BY <1>1, <2>2
    <3>2. (a \o z)[k - 1] = f[k]
      BY <1>4, <3>1
    <3>. QED
      BY <1>6, <3>1, <3>2
  <2>. QED
    BY <2>1, <2>2
<1>8. f = <<f[1]>> \o (a \o z)
  BY <1>1, <1>6, <1>7, SeqEqual
<1>9. a \in Seq(S) /\ Len(a) = n - 1 /\ z \in Seq(S) /\ f[1] \in S
  BY <1>2, <1>3, <1>5
<1>. QED
  BY <1>8, <1>9, Zenon DEF a, z

\* What getc returns: the next of what is unread, or EOF when there is nothing.
LEMMA GetcIs ==
  ASSUME Std!File, Streams, Counts, Std!Getc
  PROVE  /\ in' \in Stream /\ in'.count = Len(in'.buffer) /\ eof' \in BOOLEAN
         /\ char' \in Returned /\ got' = Append(got, char')
         /\ eof => eof'
         /\ eof' => char' = EOF /\ in'.buffer = <<>> /\ in'.file = <<>> /\ Unread = <<>>
         /\ ~eof' => char' \in Chars /\ Unread = <<char'>> \o Unread'
<1>1. /\ in.file \in Seq(Chars) /\ in.buffer \in Seq(Chars) /\ in.count = Len(in.buffer)
      /\ in = [file |-> in.file, buffer |-> in.buffer, count |-> in.count]
      /\ eof \in BOOLEAN /\ (eof => in.buffer = <<>> /\ in.file = <<>>)
  BY DEF Streams, Counts, Stream
<1>2. CASE Std!Room(in)
  <2>1. Len(in.buffer) \in Nat /\ Len(in.buffer) >= 1
    BY <1>1, <1>2 DEF Std!Room
  <2>2. in.buffer # <<>> /\ ~eof
    BY <1>1, <2>1
  <2>3. Tail(in.buffer) \in Seq(Chars) /\ Len(Tail(in.buffer)) = Len(in.buffer) - 1 /\ Head(in.buffer) \in Chars
    BY <1>1, <2>2, HeadTailProperties
  <2>4. /\ in' = [in EXCEPT !.count = @ - 1, !.buffer = Tail(@)] /\ char' = Head(in.buffer)
        /\ got' = Append(got, char') /\ eof' = eof
    <3>1. ~(~Std!Room(in))
      BY <1>2
    <3>. QED
      BY <3>1 DEF Std!Getc
  <2>5. in' = [file |-> in.file, buffer |-> Tail(in.buffer), count |-> Len(in.buffer) - 1]
    BY <1>1, <2>4
  <2>6. Len(in.buffer) - 1 \in Int
    BY <2>1
  <2>7. in' \in Stream
    BY <1>1, <2>3, <2>5, <2>6 DEF Stream
  <2>8. in'.count = Len(in'.buffer)
    BY <2>3, <2>5
  <2>9. Unread = <<char'>> \o Unread'
    BY <1>1, <2>2, <2>4, <2>5, FrontOf DEF Unread
  <2>. QED
    BY <1>1, <2>2, <2>3, <2>4, <2>7, <2>8, <2>9 DEF Returned
<1>3. ASSUME NEW n \in 1 .. Size, Std!Fill(n)
      PROVE  /\ in' \in Stream /\ in'.count = Len(in'.buffer) /\ ~eof' /\ ~eof
             /\ char' \in Chars /\ got' = Append(got, char')
             /\ in.buffer = <<>> => Unread = <<char'>> \o Unread'
  <2>1. n \in Nat /\ n >= 1 /\ n <= Len(in.file) /\ Len(in.file) \in Nat
    BY <1>1, <1>3 DEF Std!Fill, Std!File
  <2>2. /\ in' = [file |-> SubSeq(in.file, n + 1, Len(in.file)), buffer |-> SubSeq(in.file, 2, n), count |-> n - 1]
        /\ char' = in.file[1] /\ got' = Append(got, char') /\ eof' = eof
    BY <1>3 DEF Std!Fill
  <2>3. /\ SubSeq(in.file, 2, n) \in Seq(Chars) /\ Len(SubSeq(in.file, 2, n)) = n - 1
        /\ SubSeq(in.file, n + 1, Len(in.file)) \in Seq(Chars) /\ in.file[1] \in Chars
        /\ in.file = <<in.file[1]>> \o (SubSeq(in.file, 2, n) \o SubSeq(in.file, n + 1, Len(in.file)))
    BY <1>1, <2>1, PartOf
  <2>4. ~eof
    BY <1>1, <2>1
  <2>5. in' \in Stream /\ in'.count = Len(in'.buffer)
    BY <2>1, <2>2, <2>3 DEF Stream
  <2>6. in.buffer = <<>> => Unread = in.file
    BY <1>1, ConcatEmptySeq DEF Unread
  <2>7. Unread' = SubSeq(in.file, 2, n) \o SubSeq(in.file, n + 1, Len(in.file))
    BY <2>2 DEF Unread
  <2>8. in.buffer = <<>> => Unread = <<char'>> \o Unread'
    BY <2>2, <2>3, <2>6, <2>7
  <2>. QED
    BY <2>2, <2>3, <2>4, <2>5, <2>8
<1>4. CASE ~Std!Room(in)
  <2>1. in.buffer = <<>>
    <3>1. Len(in.buffer) \in Nat /\ ~(Len(in.buffer) - 1 >= 0)
      BY <1>1, <1>4 DEF Std!Room
    <3>2. Len(in.buffer) = 0
      BY <3>1
    <3>. QED
      BY <1>1, <3>2, EmptySeq
  <2>2. (\E n \in 1 .. Size : Std!Fill(n)) \/ Std!FillNothing
    BY <1>4 DEF Std!Getc
  <2>3. CASE \E n \in 1 .. Size : Std!Fill(n)
    <3>1. PICK n \in 1 .. Size : Std!Fill(n)
      BY <2>3
    <3>2. /\ in' \in Stream /\ in'.count = Len(in'.buffer) /\ ~eof' /\ ~eof
          /\ char' \in Chars /\ got' = Append(got, char')
          /\ Unread = <<char'>> \o Unread'
      BY <1>3, <2>1, <3>1
    <3>3. eof' \in BOOLEAN
      BY <1>1, <3>1 DEF Std!Fill
    <3>. QED
      BY <3>2, <3>3 DEF Returned
  <2>4. CASE Std!FillNothing
    <3>1. in.file = <<>> /\ eof' = TRUE /\ in' = [in EXCEPT !.count = 0] /\ char' = EOF /\ got' = Append(got, char')
      BY <2>4 DEF Std!FillNothing
    <3>2. in' = [file |-> <<>>, buffer |-> <<>>, count |-> 0]
      BY <1>1, <2>1, <3>1
    <3>3. in' \in Stream /\ in'.count = Len(in'.buffer)
      BY <3>2 DEF Stream
    <3>4. Unread = <<>>
      BY <1>1, <2>1, <3>1, ConcatEmptySeq DEF Unread
    <3>. QED
      BY <3>1, <3>2, <3>3, <3>4 DEF Returned
  <2>. QED
    BY <2>2, <2>3, <2>4
<1>. QED
  BY <1>2, <1>4

\* What put leaves: the characters written are one more, or the same.
LEMMA WrittenIs ==
  ASSUME out \in Stream, NEW x \in Chars
  PROVE  /\ Std!Written \in Seq(Chars)
         /\ out' = [out EXCEPT !.count = @ - 1] => Std!Written' = Std!Written
         /\ out' = [out EXCEPT !.buffer = Append(@, x)] => Std!Written' = Append(Std!Written, x)
         /\ \A n : out' = [file |-> out.file \o out.buffer \o <<x>>, buffer |-> <<>>, count |-> n] =>
                    Std!Written' = Append(Std!Written, x)
         /\ \A n : out' = [file |-> out.file \o out.buffer, buffer |-> <<x>>, count |-> n] =>
                    Std!Written' = Append(Std!Written, x)
<1>1. /\ out.file \in Seq(Chars) /\ out.buffer \in Seq(Chars) /\ out.count \in Int
      /\ out = [file |-> out.file, buffer |-> out.buffer, count |-> out.count]
  BY DEF Stream
<1>2. Std!Written \in Seq(Chars) /\ Std!Written = out.file \o out.buffer
  BY <1>1, ConcatProperties DEF Std!Written
<1>3. \A f, b \in Seq(Chars) : f \o Append(b, x) = Append(f \o b, x)
  <2> TAKE f, b \in Seq(Chars)
  <2>1. Append(b, x) = b \o <<x>> /\ Append(f \o b, x) = (f \o b) \o <<x>>
    <3>1. f \o b \in Seq(Chars)
      BY ConcatProperties
    <3>. QED
      BY <3>1, AppendIsConcat
  <2>2. (f \o b) \o <<x>> = f \o (b \o <<x>>)
    <3>1. <<x>> \in Seq(Chars)
      OBVIOUS
    <3>. QED
      BY <3>1, ConcatAssociative
  <2>. QED
    BY <2>1, <2>2
<1>4. \A f \in Seq(Chars) : f \o <<x>> = Append(f, x) /\ Append(f, x) \in Seq(Chars) /\ f \o <<>> = f
  BY AppendIsConcat, ConcatEmptySeq
<1>5. ASSUME out' = [out EXCEPT !.count = @ - 1] PROVE Std!Written' = Std!Written
  BY <1>1, <1>5 DEF Std!Written
<1>6. ASSUME out' = [out EXCEPT !.buffer = Append(@, x)] PROVE Std!Written' = Append(Std!Written, x)
  <2>1. out'.file = out.file /\ out'.buffer = Append(out.buffer, x)
    BY <1>1, <1>6
  <2>. QED
    BY <1>1, <1>2, <1>3, <2>1 DEF Std!Written
<1>7. ASSUME NEW n, out' = [file |-> out.file \o out.buffer \o <<x>>, buffer |-> <<>>, count |-> n]
      PROVE  Std!Written' = Append(Std!Written, x)
  <2>1. out'.file = Std!Written \o <<x>> /\ out'.buffer = <<>>
    BY <1>2, <1>7
  <2>2. out'.file = Append(Std!Written, x) /\ out'.file \in Seq(Chars)
    BY <1>2, <1>4, <2>1
  <2>3. out'.file \o out'.buffer = out'.file
    BY <1>4, <2>1, <2>2
  <2>. QED
    BY <2>2, <2>3 DEF Std!Written
<1>8. ASSUME NEW n, out' = [file |-> out.file \o out.buffer, buffer |-> <<x>>, count |-> n]
      PROVE  Std!Written' = Append(Std!Written, x)
  <2>1. out'.file = Std!Written /\ out'.buffer = <<x>>
    BY <1>2, <1>8
  <2>2. out'.file \o out'.buffer = Append(Std!Written, x)
    BY <1>2, <1>4, <2>1
  <2>. QED
    BY <2>2 DEF Std!Written
<1>. QED
  BY <1>2, <1>5, <1>6, <1>7, <1>8

\* What evaluating the argument of putc does to what was read, and returns.
LEMMA ArgumentIs ==
  ASSUME Std!File, Streams, Counts, Order, Std!Argument, UNCHANGED nested,
         step \in {"test", "store", "putbuf"}
  PROVE  /\ in' \in Stream /\ in'.count = Len(in'.buffer) /\ eof' \in BOOLEAN
         /\ char' \in Returned /\ got' \in Seq(Returned)
         /\ eof' => in'.buffer = <<>> /\ in'.file = <<>>
         /\ nested => got' = Append(got, char') /\ (eof => eof') /\ (eof' <=> char' = EOF)
         /\ ~nested => UNCHANGED <<in, eof, char, got, Unread>> /\ char' # EOF /\ ~eof'
<1>1. EOF \notin Chars
  BY DEF Std!File, Chars
<1>2. CASE nested
  <2>1. Std!Getc
    BY <1>2 DEF Std!Argument
  <2>2. /\ in' \in Stream /\ in'.count = Len(in'.buffer) /\ eof' \in BOOLEAN
        /\ char' \in Returned /\ got' = Append(got, char') /\ (eof => eof')
        /\ eof' => char' = EOF /\ in'.buffer = <<>> /\ in'.file = <<>>
        /\ ~eof' => char' \in Chars
    BY <2>1, GetcIs
  <2>3. got' \in Seq(Returned)
    BY <2>2, AppendProperties DEF Streams
  <2>. QED
    BY <1>1, <1>2, <2>2, <2>3
<1>3. CASE ~nested
  <2>1. UNCHANGED <<in, eof, char, got>>
    BY <1>3 DEF Std!Argument
  <2>2. ~eof /\ char \in Chars
    BY <1>3 DEF Order, OrderPlain
  <2>. QED
    BY <1>1, <1>3, <2>1, <2>2 DEF Streams, Counts, Unread
<1>. QED
  BY <1>2, <1>3

\* A put that is over has written the character that was read last.
LEMMA PutIs ==
  ASSUME Std!File, StdioInv, Std!Argument, UNCHANGED <<nested, lineBuf, tested>>, step \in {"store", "putbuf"},
         step' = "begin", out' \in Stream, Len(out'.buffer) + out'.count <= Size,
         Std!Written' = Append(Std!Written, Std!AsChar(char')),
         ~nested => ~Std!Waiting'
  PROVE  StdioInv'
<1>1. Streams /\ Counts /\ Order /\ Lines
  BY DEF StdioInv
<1>2. /\ in' \in Stream /\ in'.count = Len(in'.buffer) /\ eof' \in BOOLEAN
      /\ char' \in Returned /\ got' \in Seq(Returned)
      /\ eof' => in'.buffer = <<>> /\ in'.file = <<>>
      /\ nested => got' = Append(got, char') /\ (eof => eof') /\ (eof' <=> char' = EOF)
      /\ ~nested => UNCHANGED <<in, eof, char, got, Unread>> /\ char' # EOF /\ ~eof'
  BY <1>1, ArgumentIs
<1>3. Streams'
  BY <1>1, <1>2 DEF Streams
<1>4. Counts'
  BY <1>2 DEF Counts
<1>5. Std!Written \in Seq(Chars) /\ got \in Seq(Returned)
  <2>1. out \in Stream /\ Newline \in Chars
    BY <1>1 DEF Streams, Chars, Std!Characters
  <2>. QED
    BY <1>1, <2>1, WrittenIs DEF Streams
<1>6. Order'
  <2>1. CASE nested
    <3>1. /\ Len(got) = Len(Std!Written) + tested
          /\ Within(Std!Written, got)
      BY <1>1, <2>1 DEF Order, OrderNested
    <3>2. Std!AsChar(char') \in Chars
      BY <1>2 DEF Std!AsChar, Returned, Chars, Std!Characters
    <3>3. Len(got') = Len(got) + 1 /\ Len(Std!Written') = Len(Std!Written) + 1 /\ Len(Std!Written) \in Nat
      BY <1>2, <1>5, <2>1, <3>2, AppendProperties
    <3>4. Std!Written' # <<>> /\ Std!Written'[Len(Std!Written')] = Std!AsChar(char')
      BY <1>5, <3>2, <3>3, AppendProperties
    <3>5. /\ char' # EOF => Within(Append(Std!Written, Std!AsChar(char')), Append(got, char'))
          /\ Kept(Append(Std!Written, Std!AsChar(char')), Append(got, char'), TRUE)
      BY <1>2, <1>5, <3>1, PutOrder
    <3>6. Std!Written' = Append(Std!Written, Std!AsChar(char')) /\ got' = Append(got, char')
      BY <1>2, <2>1
    <3>7. /\ char' # EOF => Within(Std!Written', got')
          /\ Kept(Std!Written', got', TRUE)
      BY <3>5, <3>6, Zenon
    <3>8. /\ ~eof' => Within(Std!Written, got)'
          /\ Kept(Std!Written, got, TRUE)'
      BY <1>2, <2>1, <3>7 DEF Within, Kept, Std!AsChar
    <3>9. eof' => Std!Written'[Len(Std!Written')] = Char255
      BY <1>2, <2>1, <3>4 DEF Std!AsChar
    <3>10. Len(got') = Len(Std!Written') + tested'
      <4>1. tested \in Nat
        BY <1>1 DEF Streams
      <4>. QED
        BY <3>1, <3>3, <4>1
    <3>. QED
      BY <1>2, <2>1, <3>4, <3>8, <3>9, <3>10 DEF Order, OrderNested
  <2>2. CASE ~nested
    <3>1. step \notin {"begin", "end"} /\ OrderPlain
      BY <1>1, <2>2 DEF Order
    <3>2. char \in Chars /\ got = Append(Std!Written, char) /\ got \o Unread = Content /\ tested = 0
      BY <3>1 DEF OrderPlain
    <3>3. Std!AsChar(char') = char /\ Unread' = Unread /\ got' = got /\ ~eof' /\ tested' = 0
      BY <1>2, <2>2, <3>2 DEF Std!AsChar
    <3>4. Std!Written' = got' /\ Std!Written' \o Unread' = Content
      BY <3>2, <3>3
    <3>. QED
      BY <2>2, <3>3, <3>4 DEF Order, OrderPlain
  <2>. QED
    BY <2>1, <2>2
<1>7. Lines'
  BY DEF Lines
<1>. QED
  BY <1>3, <1>4, <1>6, <1>7 DEF StdioInv

LEMMA ReadKeeps == Std!File /\ StdioInv /\ Std!Read => StdioInv'
<1> SUFFICES ASSUME Std!File, StdioInv, Std!Read PROVE StdioInv'
  OBVIOUS
<1>1. Streams /\ Counts /\ Order /\ Lines
  BY DEF StdioInv
<1>2. /\ step = "begin" /\ ~nested /\ Std!Getc
      /\ step' = IF char' = EOF THEN "end" ELSE "putc"
      /\ UNCHANGED <<nested, lineBuf, out, tested>>
  BY DEF Std!Read
<1>3. /\ in' \in Stream /\ in'.count = Len(in'.buffer) /\ eof' \in BOOLEAN
      /\ char' \in Returned /\ got' = Append(got, char')
      /\ eof' => char' = EOF /\ in'.buffer = <<>> /\ in'.file = <<>> /\ Unread = <<>>
      /\ ~eof' => char' \in Chars /\ Unread = <<char'>> \o Unread'
  BY <1>1, <1>2, GetcIs
<1>4. Std!Written' = Std!Written /\ Std!Waiting' = Std!Waiting
  BY <1>2 DEF Std!Written, Std!Waiting
<1>5. EOF \notin Chars
  BY DEF Std!File, Chars
<1>6. Streams'
  <2>1. got' \in Seq(Returned)
    BY <1>1, <1>3, AppendProperties DEF Streams
  <2>. QED
    BY <1>1, <1>2, <1>3, <2>1 DEF Streams
<1>7. Counts'
  BY <1>1, <1>2, <1>3 DEF Counts
<1>8. /\ tested = 0 /\ got = Std!Written /\ Std!Written \o Unread = Content
  BY <1>1, <1>2 DEF Order, OrderPlain
<1>9. Std!Written \in Seq(Chars) /\ Unread \in Seq(Chars)
  <2>1. /\ in.buffer \in Seq(Chars) /\ in.file \in Seq(Chars) /\ out.buffer \in Seq(Chars) /\ out.file \in Seq(Chars)
    BY <1>1 DEF Streams, Stream
  <2>. QED
    BY <2>1, ConcatProperties DEF Std!Written, Unread
<1>10. Order'
  <2>1. CASE eof'
    <3>1. step' = "end" /\ Std!Written' = Content
      BY <1>2, <1>3, <1>4, <1>8, <1>9, <2>1, ConcatEmptySeq
    <3>. QED
      BY <1>2, <1>8, <2>1, <3>1 DEF Order, OrderPlain
  <2>2. CASE ~eof'
    <3>1. char' \in Chars /\ step' = "putc" /\ Unread = <<char'>> \o Unread'
      BY <1>2, <1>3, <1>5, <2>2
    <3>2. Unread' \in Seq(Chars)
      <4>1. in'.buffer \in Seq(Chars) /\ in'.file \in Seq(Chars)
        BY <1>3 DEF Stream
      <4>. QED
        BY <4>1, ConcatProperties DEF Unread
    <3>3. Append(Std!Written, char') \o Unread' = Content
      <4>1. \A g, r, q \in Seq(Chars) : \A x \in Chars : r = <<x>> \o q => Append(g, x) \o q = g \o r
        BY FrontRead, Zenon
      <4>2. Append(Std!Written, char') \o Unread' = Std!Written \o Unread
        BY <1>9, <3>1, <3>2, <4>1, SMT
      <4>. QED
        BY <1>8, <4>2, Zenon
    <3>4. got' = Append(Std!Written', char') /\ got' \o Unread' = Content
      BY <1>3, <1>4, <1>8, <3>3
    <3>. QED
      BY <1>2, <1>8, <2>2, <3>1, <3>4 DEF Order, OrderPlain
  <2>. QED
    BY <2>1, <2>2
<1>11. Lines'
  BY <1>1, <1>2, <1>4 DEF Lines
<1>. QED
  BY <1>6, <1>7, <1>10, <1>11 DEF StdioInv

LEMMA CountDownKeeps == Std!File /\ StdioInv /\ Std!CountDown => StdioInv'
<1> SUFFICES ASSUME Std!File, StdioInv, Std!CountDown PROVE StdioInv'
  OBVIOUS
<1>1. Streams /\ Counts /\ Order /\ Lines
  BY DEF StdioInv
<1>2. /\ step = "putc" \/ (step = "begin" /\ nested /\ ~eof)
      /\ step' = IF Std!Room(out) THEN "test" ELSE "putbuf"
      /\ out' = [out EXCEPT !.count = @ - 1]
      /\ UNCHANGED <<nested, lineBuf, in, eof, char, got, tested>>
  BY DEF Std!CountDown
<1>3. out \in Stream /\ Size \in Nat /\ Newline \in Chars
  BY <1>1 DEF Streams, Std!File, Chars, Std!Characters
<1>4. out' \in Stream /\ out'.buffer = out.buffer /\ out'.count = out.count - 1
  BY <1>2, <1>3, SMTT(30) DEF Stream
<1>5. Std!Written' = Std!Written /\ Std!Waiting' = Std!Waiting /\ Unread' = Unread
  BY <1>1, <1>2, <1>3, <1>4, WrittenIs DEF Std!Waiting, Streams, Unread
<1>6. Streams'
  BY <1>1, <1>2, <1>4 DEF Streams
<1>7. Counts'
  <2>1. out.count \in Int /\ Len(out.buffer) \in Nat
    BY <1>3 DEF Stream
  <2>2. Len(out'.buffer) + out'.count <= Size - 1
    BY <1>1, <1>3, <1>4, <2>1 DEF Counts
  <2>3. Len(out'.buffer) + out'.count <= Size
    BY <1>3, <1>4, <2>1, <2>2
  <2>. QED
    BY <1>1, <1>2, <2>2, <2>3 DEF Counts
<1>8. Order'
  <2>1. CASE nested
    <3>1. /\ step # "end" /\ Len(got) = Len(Std!Written) + tested /\ Within(Std!Written, got)
      BY <1>1, <1>2, <2>1 DEF Order, OrderNested
    <3>2. step' \in {"test", "putbuf"} /\ Within(Std!Written, got)'
      BY <1>2, <1>5, <3>1 DEF Within
    <3>. QED
      BY <1>2, <1>5, <2>1, <3>1, <3>2 DEF Order, OrderNested
  <2>2. CASE ~nested
    BY <1>1, <1>2, <1>5, <2>2 DEF Order, OrderPlain
  <2>. QED
    BY <2>1, <2>2
<1>9. Lines'
  BY <1>1, <1>2, <1>5 DEF Lines
<1>. QED
  BY <1>6, <1>7, <1>8, <1>9 DEF StdioInv

LEMMA TestKeeps == Std!File /\ StdioInv /\ Std!Test => StdioInv'
<1> SUFFICES ASSUME Std!File, StdioInv, Std!Test PROVE StdioInv'
  OBVIOUS
<1>1. Streams /\ Counts /\ Order /\ Lines
  BY DEF StdioInv
<1>2. /\ step = "test" /\ step' \in {"putbuf", "store"} /\ Std!Argument
      /\ step' = "store" => ~Std!Ends
      /\ tested' = IF nested THEN tested + 1 ELSE tested
      /\ UNCHANGED <<nested, lineBuf, out>>
  BY DEF Std!Test
<1>3. /\ in' \in Stream /\ in'.count = Len(in'.buffer) /\ eof' \in BOOLEAN
      /\ char' \in Returned /\ got' \in Seq(Returned)
      /\ eof' => in'.buffer = <<>> /\ in'.file = <<>>
      /\ nested => got' = Append(got, char')
      /\ ~nested => UNCHANGED <<in, eof, char, got, Unread>>
  BY <1>1, <1>2, ArgumentIs
<1>4. Std!Written' = Std!Written /\ Std!Waiting' = Std!Waiting
  BY <1>2 DEF Std!Written, Std!Waiting
<1>5. Streams'
  BY <1>1, <1>2, <1>3 DEF Streams
<1>6. Counts'
  BY <1>1, <1>2, <1>3 DEF Counts
<1>7. Order'
  <2>1. CASE nested
    <3>1. Std!Written \in Seq(Chars) /\ Std!Written \in Seq(Returned) /\ got \in Seq(Returned)
      <4>1. out \in Stream /\ Newline \in Chars
        BY <1>1 DEF Streams, Chars, Std!Characters
      <4>2. Std!Written \in Seq(Chars)
        BY <4>1, WrittenIs
      <4>. QED
        BY <1>1, <4>2 DEF Returned, Streams
    <3>2. Len(got) = Len(Std!Written) + tested /\ Within(Std!Written, got) /\ tested \in Nat
      BY <1>1, <1>2, <2>1 DEF Order, OrderNested, Streams
    <3>3. Within(Std!Written, Append(got, char'))
      BY <1>3, <3>1, <3>2, WithinMore
    <3>4. Within(Std!Written, got)'
      BY <1>3, <1>4, <2>1, <3>3 DEF Within
    <3>5. Len(got') = Len(got) + 1 /\ Len(Std!Written) \in Nat
      BY <1>3, <2>1, <3>1, AppendProperties
    <3>6. tested' = tested + 1
      BY <1>2, <2>1
    <3>7. Len(got') = Len(Std!Written') + tested'
      BY <1>4, <3>2, <3>5, <3>6
    <3>. QED
      BY <1>2, <2>1, <3>4, <3>7 DEF Order, OrderNested
  <2>2. CASE ~nested
    BY <1>1, <1>2, <1>3, <1>4, <2>2 DEF Order, OrderPlain
  <2>. QED
    BY <2>1, <2>2
<1>8. Lines'
  BY <1>1, <1>2, <1>3, <1>4 DEF Lines, Std!Ends
<1>. QED
  BY <1>5, <1>6, <1>7, <1>8 DEF StdioInv

LEMMA StoreKeeps == Std!File /\ StdioInv /\ Std!Store => StdioInv'
<1> SUFFICES ASSUME Std!File, StdioInv, Std!Store PROVE StdioInv'
  OBVIOUS
<1>1. Streams /\ Counts /\ Order /\ Lines
  BY DEF StdioInv
<1>2. /\ step = "store" /\ step' = "begin" /\ Std!Argument
      /\ out' = [out EXCEPT !.buffer = Append(@, Std!AsChar(char'))]
      /\ UNCHANGED <<nested, lineBuf, tested>>
  BY DEF Std!Store
<1>3. Std!AsChar(char') \in Chars /\ (~nested => char' = char /\ Std!AsChar(char') = char)
  <2>1. char' \in Returned /\ (~nested => char' = char /\ char' # EOF)
    BY <1>1, <1>2, ArgumentIs
  <2>. QED
    BY <2>1 DEF Std!AsChar, Returned, Chars, Std!Characters
<1>4. out \in Stream /\ Size \in Nat /\ out.buffer \in Seq(Chars) /\ out.count \in Int
  BY <1>1 DEF Streams, Stream, Std!File
<1>5. out' \in Stream /\ out'.buffer = Append(out.buffer, Std!AsChar(char')) /\ out'.count = out.count
  <2>1. out = [file |-> out.file, buffer |-> out.buffer, count |-> out.count] /\ out.file \in Seq(Chars)
    BY <1>4 DEF Stream
  <2>2. out' = [file |-> out.file, buffer |-> Append(out.buffer, Std!AsChar(char')), count |-> out.count]
    BY <1>2, <2>1
  <2>3. Append(out.buffer, Std!AsChar(char')) \in Seq(Chars)
    BY <1>3, <1>4
  <2>. QED
    BY <1>4, <2>1, <2>2, <2>3 DEF Stream
<1>6. Len(out'.buffer) + out'.count <= Size
  <2>1. Len(out'.buffer) = Len(out.buffer) + 1 /\ Len(out.buffer) \in Nat
    BY <1>3, <1>4, <1>5, AppendProperties
  <2>2. Len(out.buffer) + out.count <= Size - 1
    BY <1>1, <1>2 DEF Counts
  <2>. QED
    BY <1>4, <1>5, <2>1, <2>2
<1>7. Std!Written' = Append(Std!Written, Std!AsChar(char'))
  BY <1>2, <1>3, <1>4, WrittenIs
<1>8. ~nested => ~Std!Waiting'
  <2>1. /\ Len(out.buffer) \in Nat
        /\ DOMAIN out.buffer = 1 .. Len(out.buffer) /\ DOMAIN out'.buffer = 1 .. Len(out.buffer) + 1
        /\ \A k \in DOMAIN out'.buffer : out'.buffer[k] = IF k \in DOMAIN out.buffer THEN out.buffer[k] ELSE Std!AsChar(char')
    BY <1>3, <1>4, <1>5
  <2>2. ~nested /\ lineBuf => Std!AsChar(char') # Newline /\ \A k \in DOMAIN out.buffer : out.buffer[k] # Newline
    BY <1>1, <1>2, <1>3 DEF Lines, Std!Waiting
  <2>. QED
    BY <1>2, <2>1, <2>2 DEF Std!Waiting
<1>. QED
  BY <1>2, <1>5, <1>6, <1>7, <1>8, PutIs

LEMMA PutBufKeeps == Std!File /\ StdioInv /\ Std!PutBuf => StdioInv'
<1> SUFFICES ASSUME Std!File, StdioInv, Std!PutBuf PROVE StdioInv'
  OBVIOUS
<1>1. Streams /\ Counts /\ Order /\ Lines
  BY DEF StdioInv
<1>2. /\ step = "putbuf" /\ step' = "begin" /\ Std!Argument
      /\ UNCHANGED <<nested, lineBuf, tested>>
  BY DEF Std!PutBuf
<1>3. char' \in Returned /\ Std!AsChar(char') \in Chars /\ (~nested => char' # EOF)
  <2>1. char' \in Returned /\ (~nested => char' # EOF)
    BY <1>1, <1>2, ArgumentIs
  <2>. QED
    BY <2>1 DEF Std!AsChar, Returned, Chars, Std!Characters
<1>4. out \in Stream /\ Size \in Nat \ {0} /\ out.file \in Seq(Chars) /\ out.buffer \in Seq(Chars)
  BY <1>1 DEF Streams, Stream, Std!File
<1>5. /\ out.file \o out.buffer \in Seq(Chars) /\ <<Std!AsChar(char')>> \in Seq(Chars)
      /\ out.file \o out.buffer \o <<Std!AsChar(char')>> \in Seq(Chars)
  BY <1>3, <1>4, ConcatProperties
<1>6. ASSUME NEW n \in {Size, 0},
             out' = [file |-> out.file \o out.buffer \o <<Std!AsChar(char')>>, buffer |-> <<>>, count |-> n]
      PROVE  StdioInv'
  <2>1. out' \in Stream /\ out'.buffer = <<>> /\ Len(out'.buffer) + out'.count <= Size
    BY <1>4, <1>5, <1>6 DEF Stream
  <2>2. Std!Written' = Append(Std!Written, Std!AsChar(char'))
    BY <1>3, <1>4, <1>6, WrittenIs
  <2>3. ~Std!Waiting'
    BY <2>1 DEF Std!Waiting
  <2>. QED
    BY <1>2, <2>1, <2>2, <2>3, PutIs
<1>7. ASSUME ~Std!Ends, out' = [file |-> out.file \o out.buffer, buffer |-> <<Std!AsChar(char')>>, count |-> Size - 1]
      PROVE  StdioInv'
  <2>1. out' \in Stream /\ out'.buffer = <<Std!AsChar(char')>> /\ Len(out'.buffer) + out'.count <= Size
    BY <1>4, <1>5, <1>7 DEF Stream
  <2>2. Std!Written' = Append(Std!Written, Std!AsChar(char'))
    BY <1>3, <1>4, <1>7, WrittenIs
  <2>3. ~nested => ~Std!Waiting'
    <3>1. ~nested => Std!AsChar(char') = char'
      BY <1>3 DEF Std!AsChar
    <3>. QED
      BY <1>2, <1>7, <2>1, <3>1 DEF Std!Waiting, Std!Ends
  <2>. QED
    BY <1>2, <2>1, <2>2, <2>3, PutIs
<1>. QED
  BY <1>6, <1>7 DEF Std!PutBuf

\* The invariant of putc and getc: it holds at the start, every
\* step keeps it, and what is promised follows from it.
LEMMA StdioKept ==
  ASSUME Std!File
  PROVE  /\ Std!Init => StdioInv
         /\ StdioInv /\ [Std!Next]_Std!stdioVars => StdioInv'
         /\ StdioInv => Std!Echoed
<1>1. Std!Init => StdioInv
  <2> SUFFICES ASSUME Std!Init PROVE StdioInv
    OBVIOUS
  <2>1. /\ step = "begin" /\ nested \in BOOLEAN /\ lineBuf \in BOOLEAN
        /\ in = [file |-> Content, buffer |-> <<>>, count |-> 0] /\ eof = FALSE
        /\ out = [file |-> <<>>, buffer |-> <<>>, count |-> 0]
        /\ char = Newline /\ got = <<>> /\ tested = 0
    BY DEF Std!Init
  <2>2. <<>> \in Seq(Chars) /\ Content \in Seq(Chars) /\ Newline \in Chars /\ Size \in Nat
    BY DEF Std!File, Chars, Std!Characters
  <2>3. Streams
    <3>1. <<>> \in Seq(Returned) /\ Newline \in Returned
      BY <2>2 DEF Returned
    <3>2. in \in Stream /\ out \in Stream
      BY <2>1, <2>2 DEF Stream
    <3>. QED
      BY <2>1, <3>1, <3>2 DEF Streams
  <2>4. Counts
    BY <2>1, <2>2 DEF Counts
  <2>5. Std!Written = <<>> /\ Unread = Content /\ Std!Written \o Unread = Content
    BY <2>1, <2>2, ConcatEmptySeq DEF Std!Written, Unread
  <2>6. Within(Std!Written, got)
    BY <2>1, <2>2, <2>5, WithinSelf
  <2>7. Order /\ Lines
    BY <2>1, <2>5, <2>6 DEF Order, OrderNested, OrderPlain, Lines, Std!Waiting
  <2>. QED
    BY <2>3, <2>4, <2>7 DEF StdioInv
<1>2. StdioInv /\ [Std!Next]_Std!stdioVars => StdioInv'
  <2>1. ASSUME StdioInv, UNCHANGED Std!stdioVars PROVE StdioInv'
    <3>1. UNCHANGED <<step, nested, lineBuf, in, out, eof, char, got, tested>>
      BY <2>1 DEF Std!stdioVars
    <3>2. Std!Written' = Std!Written /\ Std!Waiting' = Std!Waiting /\ Unread' = Unread
      BY <3>1 DEF Std!Written, Std!Waiting, Unread
    <3>3. Streams' /\ Counts' /\ Lines'
      BY <2>1, <3>1, <3>2 DEF StdioInv, Streams, Counts, Lines
    <3>4. Order'
      BY <2>1, <3>1, <3>2 DEF StdioInv, Order, OrderNested, OrderPlain, Within, Kept, Std!AsChar
    <3>. QED
      BY <3>3, <3>4 DEF StdioInv
  <2>. QED
    BY <2>1, ReadKeeps, CountDownKeeps, TestKeeps, StoreKeeps, PutBufKeeps DEF Std!Next
<1>3. StdioInv => Std!Echoed
  <2> SUFFICES ASSUME StdioInv PROVE Std!Echoed
    OBVIOUS
  <2>1. Streams /\ Counts /\ Order /\ Lines
    BY DEF StdioInv
  <2>2. /\ Std!Written \in Seq(Chars) /\ got \in Seq(Returned) /\ tested \in Nat /\ eof \in BOOLEAN
        /\ in.buffer \in Seq(Chars) /\ in.file \in Seq(Chars)
    <3>1. out \in Stream /\ in \in Stream /\ Newline \in Chars
      BY <2>1 DEF Streams, Chars, Std!Characters
    <3>. QED
      BY <2>1, <3>1, WrittenIs DEF Streams, Stream
  <2>3. ASSUME step = "begin"
        PROVE  Len(got) = Len(Std!Written) + tested /\ Kept(Std!Written, got, eof)
    <3>1. CASE nested
      <4>1. CASE eof
        BY <2>1, <2>3, <3>1, <4>1 DEF Order, OrderNested, Kept
      <4>2. CASE ~eof
        BY <2>1, <2>2, <2>3, <3>1, <4>2, PutOrder, EOF \in Returned DEF Order, OrderNested, Returned
      <4>. QED
        BY <4>1, <4>2
    <3>2. CASE ~nested
      <4>1. got = Std!Written /\ tested = 0 /\ Len(Std!Written) \in Nat
        BY <2>1, <2>2, <2>3, <3>2 DEF Order, OrderPlain
      <4>2. Within(Std!Written, got)
        BY <2>2, <4>1, WithinSelf
      <4>3. EOF \in Returned
        BY DEF Returned
      <4>4. Kept(Std!Written, got, eof)
        BY <2>2, <4>2, <4>3, PutOrder
      <4>. QED
        BY <4>1, <4>4
    <3>. QED
      BY <3>1, <3>2
  <2>4. ASSUME step = "begin", ~nested
        PROVE  Std!Written \o in.buffer \o in.file = Content /\ tested = 0 /\ ~Std!Waiting
    <3>1. Std!Written \o (in.buffer \o in.file) = Content /\ tested = 0 /\ ~Std!Waiting
      BY <2>1, <2>4 DEF Order, OrderPlain, Lines, Unread
    <3>2. Std!Written \o in.buffer \o in.file = Std!Written \o (in.buffer \o in.file)
      <4>1. \A w, b, f \in Seq(Chars) : w \o b \o f = w \o (b \o f)
        BY ConcatAssociative
      <4>. QED
        BY <2>2, <4>1
    <3>. QED
      BY <3>1, <3>2
  <2>5. ASSUME step = "begin", eof PROVE Std!Written # <<>> /\ Std!Written[Len(Std!Written)] = Char255
    BY <2>1, <2>5 DEF Order, OrderNested, OrderPlain
  <2>6. ASSUME step = "end" PROVE Std!Written = Content /\ tested = 0 /\ ~Std!Waiting
    BY <2>1, <2>6 DEF Order, OrderNested, OrderPlain, Lines
  <2>7. Len(out.buffer) + out.count <= Size /\ in.count = Len(in.buffer)
    BY <2>1 DEF Counts
  <2>. QED
    BY <2>3, <2>4, <2>5, <2>6, <2>7 DEF Std!Echoed, Kept
<1>. QED
  BY <1>1, <1>2, <1>3

(***************************************************************************)
(* All pieces                                                              *)
(***************************************************************************)

\* A step of a program is one of the piece it uses, or changes nothing of it.
LEMMA PieceBegins ==
  ASSUME Init
  PROVE  /\ which = "set" => Set!Init
         /\ which = "str" => Str!Init
         /\ which = "user" => Usr!Init
         /\ which = "cmsg" => Cmsg!Init
         /\ which = "count" => Cnt!Init
         /\ which = "stdio" => Std!Init
BY DEF Init

LEMMA PieceSteps ==
  ASSUME [Next]_vars
  PROVE  /\ which' = which
         /\ which = "set" => [Set!Next]_Set!vars
         /\ which = "str" => [Str!Next]_Str!vars
         /\ which = "user" => [Usr!Next]_Usr!idVars
         /\ which = "cmsg" => [Cmsg!Next]_Cmsg!cmsgVars
         /\ which = "count" => [Cnt!Next]_Cnt!intrVars
         /\ which = "stdio" => [Std!Next]_Std!stdioVars
<1>1. CASE Next
  BY <1>1 DEF Next
<1>2. CASE UNCHANGED vars
  BY <1>2 DEF vars, callVars, userVars, cmsgVars, intrVars, stdioVars, Set!vars, Str!vars, Usr!idVars,
              Cmsg!cmsgVars, Cnt!intrVars, Std!stdioVars
<1>. QED
  BY <1>1, <1>2

\* In every legal call, on either processor and whatever the widths of its
\* registers, memset fills its block from end to end with the byte it was given,
\* touches nothing else, stores longs at aligned addresses only and returns the
\* address of the block (string.h:114-243).
THEOREM FilledTheorem == Spec => []Filled
<1> DEFINE Inv == which = "set" => SetInv
<1>1. Init => Inv
  BY Pieces, PieceBegins, SetKept
<1>2. Inv /\ [Next]_vars => Inv'
  BY Pieces, PieceSteps, SetKept
<1>3. Inv => Filled
  BY Pieces, SetKept DEF Filled
<1>. QED
  BY <1>1, <1>2, <1>3, PTL DEF Spec

\* In every legal call, with strings of any length and whatever a register or a
\* character ranges over, strlen, strcpy, strncpy, strcat, strcmp, strncmp and
\* strrchr write and return what the C library promises (string.h:247-320).
THEOREM StringsRightTheorem == Spec => []StringsRight
<1> DEFINE Inv == which = "str" => LoopInv
<1>1. Init => Inv
  BY Pieces, PieceBegins, StringsKept
<1>2. Inv /\ [Next]_vars => Inv'
  BY Pieces, PieceSteps, StringsKept
<1>3. Inv => StringsRight
  BY Pieces, StringsKept DEF StringsRight
<1>. QED
  BY <1>1, <1>2, <1>3, PTL DEF Spec

\* For any control data anywhere in an address space of any size, whose lengths the
\* walk reads as it goes and which may be any number of that width: until one of
\* them leads beyond the last address the walk over control messages meets the
\* headers that lie within msg_controllen, one after the other, and of others only
\* those that WalkRight names (sys/socket.h:204-213); a number of a user is what it was after
\* any way to the word of a file and back, if the word has room for it
\* (usergroup.h:64-65); what updatestat() has left of the kernel's count falls short
\* of the interrupts of devices by the ticks between its two reads, and one, at most
\* (rstat_proc.c:213-215).
THEOREM NetworkRightTheorem == Spec => []NetworkRight
<1> DEFINE Inv == /\ which = "cmsg" => WalkInv
                  /\ which = "user" => UserInv
                  /\ which = "count" => CountInv
<1>1. Init => Inv
  BY Pieces, PieceBegins, WalkKept, NumbersKept, CountKept
<1>2. Inv /\ [Next]_vars => Inv'
  BY Pieces, PieceSteps, WalkKept, NumbersKept, CountKept
<1>3. Inv => NetworkRight
  BY Pieces, WalkKept, NumbersKept, CountKept DEF NetworkRight
<1>. QED
  BY <1>1, <1>2, <1>3, PTL DEF Spec

\* For any file, buffers of any size and any choice of _fillbuf() and _putbuf(): a
\* program that reads up to EOF and puts what it read leaves the whole file in the
\* output; one that puts getc(in) leaves in it characters of the file, in their
\* order, without those that putc reads to compare and does not put, and EOF as a
\* character after them (stdio.h:123, 126).
THEOREM EchoedTheorem == Spec => []Echoed
<1> DEFINE Inv == which = "stdio" => StdioInv
<1>1. Init => Inv
  BY Pieces, PieceBegins, StdioKept
<1>2. Inv /\ [Next]_vars => Inv'
  BY Pieces, PieceSteps, StdioKept
<1>3. Inv => Echoed
  BY Pieces, StdioKept DEF Echoed
<1>. QED
  BY <1>1, <1>2, <1>3, PTL DEF Spec
=============================================================================
