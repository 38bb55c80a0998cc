------------------------ MODULE ExecRefinementProofs -------------------------
(* Proof that the list macros implement ListSpec, for any number of tasks,     *)
(* lists and nodes (ExecListRefinement).                                       *)
(*                                                                             *)
(* The argument.  By the invariant of ExecListsProofs a list is a chain in     *)
(* memory with the store made that is owed (View).  The contents of the list   *)
(* are the order of that chain: ExecListRefinement reads them in the direction *)
(* whose words the owed store is not among.  Each instruction keeps the links  *)
(* of the view, links one node in or takes one out (Keeps, LinksIn, TakesOut), *)
(* and the order changes as ListSpec says.                                     *)
EXTENDS ExecListsProofs, ExecListRefinement, FiniteSetTheorems, SequenceTheorems,
        WellFoundedInduction

(***************************************************************************)
(* What a chain in memory says, followed in either direction               *)
(***************************************************************************)

\* A nonempty set of naturals has a least element.  "The first place where two
\* things differ" stands in for induction, which the provers cannot do.
LEMMA Least ==
  ASSUME NEW D \in SUBSET Nat, D # {}
  PROVE  \E x \in D : \A y \in D : x <= y
<1>1. IsWellFoundedOn(OpToRel(<, Nat), Nat)
  BY NatLessThanWellFounded, Zenon
<1>2. PICK x \in D : \A y \in D : ~ (<<y, x>> \in OpToRel(<, Nat))
  BY <1>1, WFMin, Zenon
<1>3. \A y \in D : ~ (y < x)
  BY <1>2 DEF OpToRel
<1>. QED
  BY <1>3

\* There is one way to follow the words.
LEMMA FollowsOnce ==
  ASSUME NEW m, NEW a, NEW off, NEW s \in Seq(Nodes), NEW t \in Seq(Nodes),
         Follows(m, a, off, s), Follows(m, a, off, t)
  PROVE  s = t
<1>1. \A u \in Seq(Nodes) : /\ Len(u) \in Nat /\ DOMAIN u = 1 .. Len(u) /\ (u = <<>> <=> Len(u) = 0)
                            /\ \A i \in 1 .. Len(u) : u[i] \in Nodes
  BY LenProperties, ElementOfSeq, EmptySeq
<1>2. ASSUME NEW i \in 1 .. Len(s), i \in 1 .. Len(t) PROVE s[i] = t[i]
  <2> DEFINE D == {j \in 1 .. Len(s) : j \in 1 .. Len(t) /\ s[j] # t[j]}
  <2>1. ASSUME D # {} PROVE FALSE
    <3>1. PICK j \in D : \A k \in D : j <= k
      <4>1. D \in SUBSET Nat
        BY <1>1
      <4>. QED
        BY <2>1, <4>1, Least
    <3>2. j \in 1 .. Len(s) /\ j \in 1 .. Len(t) /\ s[j] # t[j]
      OBVIOUS
    <3>3. s[j] = IF j = 1 THEN a ELSE m[s[j - 1] + off]
      BY <1>1, <3>2 DEF Follows
    <3>4. t[j] = IF j = 1 THEN a ELSE m[t[j - 1] + off]
      BY <1>1, <3>2 DEF Follows
    <3>5. j # 1
      BY <3>2, <3>3, <3>4
    <3>6. s[j - 1] = t[j - 1]
      <4>1. j - 1 \in 1 .. Len(s) /\ j - 1 \in 1 .. Len(t) /\ ~(j <= j - 1)
        BY <1>1, <3>2, <3>5
      <4>. QED
        BY <3>1, <4>1
    <3>. QED
      BY <3>2, <3>3, <3>4, <3>5, <3>6
  <2>. QED
    BY <2>1, <1>2
<1>3. ASSUME NEW u \in Seq(Nodes), NEW v \in Seq(Nodes), Len(u) < Len(v),
             \A i \in 1 .. Len(u) : u[i] = v[i],
             Follows(m, a, off, u), Follows(m, a, off, v)
      PROVE  FALSE
  <2> DEFINE j == Len(u) + 1
  <2>1. j \in 1 .. Len(v) /\ v[j] \in Nodes
    BY <1>1, <1>3
  <2>2. v[j] = IF j = 1 THEN a ELSE m[v[j - 1] + off]
    BY <1>1, <2>1, <1>3 DEF Follows
  <2>3. CASE u = <<>>
    BY <1>1, <1>3, <2>1, <2>2, <2>3 DEF Follows
  <2>4. CASE u # <<>>
    <3>1. Len(u) \in 1 .. Len(u) /\ Last(u) = u[Len(u)]
      BY <1>1, <2>4 DEF Last
    <3>2. v[j - 1] = Last(u) /\ j # 1
      BY <1>1, <1>3, <3>1
    <3>. QED
      BY <1>3, <2>1, <2>2, <2>4, <3>2 DEF Follows
  <2>. QED
    BY <2>3, <2>4
<1>4. Len(s) = Len(t)
  <2>1. CASE Len(s) < Len(t)
    <3>1. \A i \in 1 .. Len(s) : s[i] = t[i]
      BY <1>1, <1>2, <2>1
    <3>. QED
      BY <2>1, <3>1, <1>3
  <2>2. CASE Len(t) < Len(s)
    <3>1. \A i \in 1 .. Len(t) : t[i] = s[i]
      BY <1>1, <1>2, <2>2
    <3>. QED
      BY <2>2, <3>1, <1>3
  <2>. QED
    BY <1>1, <2>1, <2>2
<1>. QED
  BY <1>2, <1>4, SeqEqual

\* So the sequence that follows them is the path.
LEMMA PathIs ==
  ASSUME NEW m, NEW a, NEW off, NEW s \in Paths, Follows(m, a, off, s)
  PROVE  Path(m, a, off) = s
<1>1. Cardinality(Nodes) \in Nat
  BY FiniteAssumption, FS_CardinalityType
<1>2. ASSUME NEW t \in Paths PROVE t \in Seq(Nodes)
  <2>1. PICK k \in 0 .. Cardinality(Nodes) : t \in [1 .. k -> Nodes]
    BY DEF Paths
  <2>. QED
    BY <1>1, <2>1, SeqDef
<1>3. PICK t \in Paths : t = Path(m, a, off) /\ Follows(m, a, off, t)
  BY DEF Path
<1>. QED
  BY <1>2, <1>3, FollowsOnce

\* The nodes of a chain, in their order.
Order(c, k) == [i \in 1 .. k |-> c[i]]

\* It is a sequence of nodes, and no longer than there are nodes.
LEMMA ChainOrder ==
  ASSUME NEW l \in Lists, NEW m, NEW M, NEW k \in Nat, NEW c, Chain(l, m, M, k, c)
  PROVE  /\ Order(c, k) \in Seq(Nodes) /\ Len(Order(c, k)) = k
         /\ \A i \in 1 .. k : Order(c, k)[i] = c[i]
         /\ \A s \in [1 .. k -> Nodes] : s \in Paths
<1>1. Order(c, k) \in [1 .. k -> Nodes] /\ \A i \in 1 .. k : Order(c, k)[i] = c[i]
  BY DEF Order, Chain
<1>2. Order(c, k) \in Seq(Nodes) /\ Len(Order(c, k)) = k
  <2>1. Order(c, k) \in Seq(Nodes)
    BY <1>1, SeqDef
  <2>2. DOMAIN Order(c, k) = 1 .. k
    BY <1>1
  <2>. QED
    BY <2>1, <2>2, LenProperties
<1>3. k <= Cardinality(Nodes) /\ Cardinality(Nodes) \in Nat
  <2>1. Order(c, k) \in Injection(1 .. k, Nodes)
    BY <1>1 DEF Injection, IsInjective, Chain
  <2>2. Cardinality(1 .. k) = k
    BY FS_Interval
  <2>3. Cardinality(1 .. k) <= Cardinality(Nodes)
    BY <2>1, FiniteAssumption, FS_Injection
  <2>. QED
    BY <2>2, <2>3, FiniteAssumption, FS_CardinalityType
<1>4. ASSUME NEW s \in [1 .. k -> Nodes] PROVE s \in Paths
  <2>1. k \in 0 .. Cardinality(Nodes)
    BY <1>3
  <2>. QED
    BY <2>1 DEF Paths
<1>. QED
  BY <1>1, <1>2, <1>4

\* Followed forward from the head, a chain gives its order, whatever the memory
\* holds in the words that are not read;
LEMMA ChainForward ==
  ASSUME NEW l \in Lists, NEW m, NEW m2, NEW M, NEW k \in Nat, NEW c, Chain(l, m, M, k, c),
         \A x \in M \cup {l} : m2[x] = m[x]
  PROVE  Forward(m2, l) = Order(c, k)
<1> DEFINE s == Order(c, k)
<1>1. /\ s \in Seq(Nodes) /\ Len(s) = k /\ DOMAIN s = 1 .. k /\ s \in Paths
      /\ \A i \in 1 .. k : s[i] = c[i]
  <2>1. s \in [1 .. k -> Nodes] /\ DOMAIN s = 1 .. k
    BY DEF Order, Chain
  <2>2. s \in Seq(Nodes) /\ Len(s) = k /\ \A i \in 1 .. k : s[i] = c[i]
    BY ChainOrder
  <2>3. s \in Paths
    BY <2>1, ChainOrder
  <2>. QED
    BY <2>1, <2>2, <2>3
<1>2. ASSUME NEW i \in 0 .. k PROVE m2[c[i]] = c[i + 1]
  <2>1. c[i] \in M \cup {l}
    BY ChainMembers
  <2>2. m[c[i]] = c[i + 1]
    BY DEF Chain
  <2>. QED
    BY <2>1, <2>2
<1>3. c[0] = l /\ c[k + 1] = l + LH_TAIL /\ l + LH_TAIL \notin Nodes
  BY NodeApartFromList DEF Chain, LH_TAIL
<1>4. \A i \in 1 .. k : c[i] \in Nodes /\ c[i] + 0 = c[i]
  BY AddressAssumption DEF Chain
<1> HIDE DEF s
<1>5. ASSUME NEW i \in 1 .. k PROVE s[i] = IF i = 1 THEN m2[l] ELSE m2[s[i - 1] + 0]
  <2>1. CASE i = 1
    <3>1. m2[c[0]] = c[0 + 1]
      BY <1>2
    <3>. QED
      BY <1>1, <1>3, <2>1, <3>1
  <2>2. CASE i # 1
    <3>1. i - 1 \in 1 .. k /\ (i - 1) + 1 = i
      BY <2>2
    <3>2. m2[c[i - 1]] = c[i]
      BY <1>2, <3>1
    <3>. QED
      BY <1>1, <1>4, <2>2, <3>1, <3>2
  <2>. QED
    BY <2>1, <2>2
<1>6. (IF s = <<>> THEN m2[l] ELSE m2[Last(s) + 0]) \notin Nodes
  <2>1. CASE k = 0
    BY <1>1, <1>2, <1>3, <2>1
  <2>2. CASE k # 0
    <3>1. s # <<>> /\ Last(s) = c[k]
      BY <1>1, <2>2 DEF Last
    <3>. QED
      BY <1>2, <1>3, <1>4, <2>2, <3>1
  <2>. QED
    BY <2>1, <2>2
<1>7. Follows(m2, m2[l], 0, s)
  BY <1>1, <1>5, <1>6 DEF Follows
<1>. QED
  BY <1>1, <1>7, PathIs DEF Forward, s

\* and so it does followed back from the tail, and reversed.
LEMMA ChainBackward ==
  ASSUME NEW l \in Lists, NEW m, NEW m2, NEW M, NEW k \in Nat, NEW c, Chain(l, m, M, k, c),
         \A x \in M \cup {l + LH_TAIL} : m2[x + LN_PRED] = m[x + LN_PRED]
  PROVE  Backward(m2, l) = Order(c, k)
<1> DEFINE t == [i \in 1 .. k |-> c[(k - i) + 1]]
<1>1. t \in [1 .. k -> Nodes] /\ \A i \in 1 .. k : t[i] = c[(k - i) + 1]
  BY DEF Chain
<1>2. ASSUME NEW i \in 0 .. k PROVE m2[c[i + 1] + LN_PRED] = c[i]
  <2>1. i + 1 \in 1 .. k + 1
    OBVIOUS
  <2>2. c[i + 1] \in M \cup {l + LH_TAIL}
    BY <2>1, ChainMembers
  <2>3. m[c[i + 1] + LN_PRED] = c[i]
    BY DEF Chain
  <2>. QED
    BY <2>2, <2>3
<1>3. /\ c[0] = l /\ c[k + 1] = l + LH_TAIL /\ l \notin Nodes
      /\ l + LH_TAIL + LN_PRED = l + LH_TAILPRED
  BY NodeApartFromList, AddressAssumption DEF Chain, LH_TAIL, LN_PRED, LH_TAILPRED
<1> HIDE DEF t
<1>4. t \in Seq(Nodes) /\ Len(t) = k /\ DOMAIN t = 1 .. k /\ t \in Paths
  <2>1. t \in Seq(Nodes) /\ DOMAIN t = 1 .. k
    BY <1>1, SeqDef
  <2>. QED
    BY <1>1, <2>1, LenProperties, ChainOrder
<1>5. ASSUME NEW i \in 1 .. k
      PROVE  t[i] = IF i = 1 THEN m2[l + LH_TAILPRED] ELSE m2[t[i - 1] + LN_PRED]
  <2>0. k - i \in 0 .. k /\ (k - i) + 1 \in 0 .. k
    OBVIOUS
  <2>1. CASE i = 1
    <3>1. m2[c[k + 1] + LN_PRED] = c[k] /\ (k - i) + 1 = k
      BY <1>2, <2>1
    <3>. QED
      BY <1>1, <1>3, <2>1, <3>1
  <2>2. CASE i # 1
    <3>1. i - 1 \in 1 .. k /\ (k - (i - 1)) + 1 = ((k - i) + 1) + 1
      BY <2>2
    <3>2. m2[c[((k - i) + 1) + 1] + LN_PRED] = c[(k - i) + 1]
      BY <1>2, <2>0
    <3>. QED
      BY <1>1, <2>2, <3>1, <3>2
  <2>. QED
    BY <2>1, <2>2
<1>6. (IF t = <<>> THEN m2[l + LH_TAILPRED] ELSE m2[Last(t) + LN_PRED]) \notin Nodes
  <2>1. m2[c[0 + 1] + LN_PRED] = c[0]
    BY <1>2
  <2>2. CASE k = 0
    BY <1>4, <1>3, <2>1, <2>2
  <2>3. CASE k # 0
    <3>1. k \in 1 .. k /\ (k - k) + 1 = 1
      BY <2>3
    <3>2. t # <<>> /\ Last(t) = c[1]
      BY <1>1, <1>4, <2>3, <3>1 DEF Last
    <3>. QED
      BY <1>3, <2>1, <3>2
  <2>. QED
    BY <2>2, <2>3
<1>7. Follows(m2, m2[l + LH_TAILPRED], LN_PRED, t)
  BY <1>4, <1>5, <1>6 DEF Follows
<1>8. Backward(m2, l) = Reverse(t)
  BY <1>4, <1>7, PathIs DEF Backward
<1>9. Reverse(t) = Order(c, k)
  <2>1. Reverse(t) = [i \in 1 .. k |-> t[(k - i) + 1]]
    BY <1>4 DEF Reverse
  <2>2. ASSUME NEW i \in 1 .. k PROVE t[(k - i) + 1] = c[i]
    <3>1. (k - i) + 1 \in 1 .. k /\ (k - ((k - i) + 1)) + 1 = i
      OBVIOUS
    <3>. QED
      BY <1>1, <3>1
  <2>. QED
    BY <2>1, <2>2 DEF Order
<1>. QED
  BY <1>8, <1>9

(***************************************************************************)
(* The contents of a list in the middle of a macro                         *)
(*                                                                         *)
(* A macro owes its list at most one store. ADDHEAD and REMTAIL owe a link *)
(* forward, so the list is read backward; the others owe a link back.      *)
(***************************************************************************)

\* The memory with the store owed to list l made.
View(l) ==
  IF \E p \in Actors : Busy(p, l) THEN Repaired(CHOOSE p \in Actors : Busy(p, l)) ELSE mem

\* It is p's turn with list l: p is in a macro on it, or nobody is and p may call one.
Turn(p, l) == /\ Busy(p, l) \/ pc[p] = "idle"
              /\ \A q \in Actors : Busy(q, l) => q = p

\* What the refinement needs of the state: the view of a list that is set up is
\* whole, and the contents are the order of its chain.  It follows from the
\* inductive invariant of ExecListsProofs.
ViewsInv ==
  \A l \in Lists :
    /\ \A p \in Actors : Turn(p, l) => View(l) = Repaired(p)
    /\ \A p \in Actors : Busy(p, l) => View(l) = Repaired(p)
    /\ (\A p \in Actors : ~Busy(p, l)) => View(l) = mem
    /\ ready[l] # "usable" => Contents(l) = <<>> /\ Members(l) = {}
    /\ ready[l] = "usable" =>
         /\ Whole(l, View(l), Members(l))
         /\ \A k \in Nat : \A c : Chain(l, View(l), Members(l), k, c) => Contents(l) = Order(c, k)

\* There is one view: at most one actor is in a macro on the list.
LEMMA ViewIs ==
  ASSUME PointersInv, NEW l \in Lists
  PROVE  /\ \A p \in Actors : Busy(p, l) => View(l) = Repaired(p)
         /\ (\A p \in Actors : ~Busy(p, l)) => View(l) = mem
         /\ \A p \in Actors : Turn(p, l) => View(l) = Repaired(p)
<1>0. ListsInv /\ Shape /\ OneAtATime
  BY ListsOneAtATime DEF PointersInv, LinksInv
<1>1. ASSUME NEW p \in Actors, Busy(p, l) PROVE View(l) = Repaired(p)
  <2>1. \A q \in Actors : Busy(q, l) => q = p
    BY <1>0, <1>1 DEF OneAtATime
  <2>2. p = CHOOSE q \in Actors : Busy(q, l)
    BY <1>1, <2>1
  <2>. QED
    BY <1>1, <2>2 DEF View
<1>2. ASSUME \A p \in Actors : ~Busy(p, l) PROVE View(l) = mem
  BY <1>2 DEF View
<1>3. ASSUME NEW p \in Actors, Turn(p, l), ~Busy(p, l) PROVE View(l) = Repaired(p)
  <2>1. pc[p] = "idle" /\ \A q \in Actors : ~Busy(q, l)
    BY <1>3 DEF Turn
  <2>2. Owed(p) = None
    BY <2>1 DEF Owed
  <2>. QED
    BY <1>0, <1>2, <2>1, <2>2, NothingOwed
<1>. QED
  BY <1>1, <1>2, <1>3

\* A backward macro owes at most a forward link, and the others a backward one.
LEMMA OwedSide ==
  ASSUME PointersInv, NEW p \in Actors, NEW l \in Lists, Busy(p, l), ready[l] = "usable"
  PROVE  \/ /\ pc[p] \in {"AddHead2", "AddHead3", "AddHead4",
                          "RemTail2", "RemTail3", "RemTail4", "RemTail5"}
            /\ \A x \in Members(l) \cup {l + LH_TAIL} : mem[x + LN_PRED] = Repaired(p)[x + LN_PRED]
         \/ /\ pc[p] \notin {"AddHead2", "AddHead3", "AddHead4",
                             "RemTail2", "RemTail3", "RemTail4", "RemTail5"}
            /\ \A x \in Members(l) \cup {l} : mem[x] = Repaired(p)[x]
<1>1. pc[p] \in MacroLabels /\ Result(p, l) /\ Shape /\ l = arg[p].list
  BY DEF Busy, PointersInv, ListsInv, HoldInv, Domains, BusyInitialises, LinksInv, BusySound
<1>2. Members(l) \subseteq Nodes
  BY DEF Members
<1>3. \A w : w # Owed(p).at => mem[w] = Repaired(p)[w]
  BY <1>1 DEF Repaired, Shape
<1>4. \A x \in Nodes \cup {l}, y \in Nodes \cup {l + LH_TAIL} : x # y + LN_PRED /\ x # 0 /\ y + LN_PRED # 0
  BY CellsApart DEF LN_PRED
<1>5. ASSUME Owed(p).at \in Lasts(l) \cup {0},
             NEW x \in Members(l) \cup {l + LH_TAIL}
      PROVE  mem[x + LN_PRED] = Repaired(p)[x + LN_PRED]
  BY <1>2, <1>3, <1>4, <1>5 DEF Lasts
<1>6. ASSUME NEW y \in Firsts(l), Owed(p).at = y + LN_PRED \/ Owed(p).at = 0,
             NEW x \in Members(l) \cup {l}
      PROVE  mem[x] = Repaired(p)[x]
  BY <1>2, <1>3, <1>4, <1>6 DEF Firsts
<1>7. CASE pc[p] \in {"AddHead2", "AddHead3", "AddHead4", "RemTail2", "RemTail3", "RemTail4", "RemTail5"}
  <2>1. Owed(p).at \in Lasts(l) \cup {0}
    <3>1. pc[p] \in {"RemTail4", "RemTail5"} => A1(p) \in Lasts(l)
      BY <1>1 DEF Result, RegistersOf
    <3>. QED
      BY <1>1, <1>7, <3>1 DEF Owed, None, Lasts
  <2>. QED
    BY <1>5, <1>7, <2>1
<1>8. CASE pc[p] \notin {"AddHead2", "AddHead3", "AddHead4", "RemTail2", "RemTail3", "RemTail4", "RemTail5"}
  <2>1. \E y \in Firsts(l) : Owed(p).at = y + LN_PRED \/ Owed(p).at = 0
    <3>0. l + LH_TAIL \in Firsts(l) /\ l + LH_TAILPRED = (l + LH_TAIL) + LN_PRED
      BY AddressAssumption DEF Firsts, LH_TAIL, LN_PRED, LH_TAILPRED
    <3>1. pc[p] = "Remove4" => A0(p) \in Firsts(l)
      BY <1>1 DEF Result, RegistersOf
    <3>2. pc[p] \in {"RemHead4", "RemHeadQ4"} => A1(p) \in Firsts(l)
      BY <1>1 DEF Result, RegistersOf
    <3>. QED
      BY <1>1, <1>8, <3>0, <3>1, <3>2 DEF Owed, None
  <2>. QED
    BY <1>6, <1>8, <2>1
<1>. QED
  BY <1>7, <1>8

\* Contents, which ExecListRefinement reads off memory as it is, in the direction
\* the macro leaves alone, is what the view holds.
LEMMA ContentsIs ==
  ASSUME PointersInv, NEW l \in Lists, ready[l] = "usable", NEW k \in Nat, NEW c,
         Chain(l, View(l), Members(l), k, c)
  PROVE  Contents(l) = Order(c, k)
<1>1. CASE \A p \in Actors : ~Busy(p, l)
  <2>1. View(l) = mem /\ ~BackwardMacro(l)
    BY <1>1, ViewIs DEF BackwardMacro
  <2>2. Forward(mem, l) = Order(c, k)
    BY <2>1, ChainForward
  <2>. QED
    BY <2>1, <2>2 DEF Contents
<1>2. ASSUME NEW p \in Actors, Busy(p, l) PROVE Contents(l) = Order(c, k)
  <2>1. View(l) = Repaired(p) /\ \A q \in Actors : Busy(q, l) => q = p
    <3>1. OneAtATime
      BY ListsOneAtATime DEF PointersInv
    <3>. QED
      BY <1>2, <3>1, ViewIs DEF OneAtATime
  <2> DEFINE Back == {"AddHead2", "AddHead3", "AddHead4", "RemTail2", "RemTail3", "RemTail4", "RemTail5"}
  <2>2. BackwardMacro(l) <=> pc[p] \in Back
    BY <1>2, <2>1 DEF BackwardMacro
  <2>3. CASE pc[p] \in Back
    <3>1. \A x \in Members(l) \cup {l + LH_TAIL} : mem[x + LN_PRED] = View(l)[x + LN_PRED]
      BY <1>2, <2>1, <2>3, OwedSide
    <3>2. Backward(mem, l) = Order(c, k)
      BY <3>1, ChainBackward
    <3>. QED
      BY <2>2, <2>3, <3>2 DEF Contents
  <2>4. CASE pc[p] \notin Back
    <3>1. \A x \in Members(l) \cup {l} : mem[x] = View(l)[x]
      BY <1>2, <2>1, <2>4, OwedSide
    <3>2. Forward(mem, l) = Order(c, k)
      BY <3>1, ChainForward
    <3>. QED
      BY <2>2, <2>4, <3>2 DEF Contents
  <2>. QED
    BY <2>3, <2>4
<1>. QED
  BY <1>1, <1>2

\* ViewsInv follows from the inductive invariant,
LEMMA ViewsAre == PointersInv => ViewsInv
<1> SUFFICES ASSUME PointersInv, NEW l \in Lists
             PROVE  /\ ready[l] # "usable" => Contents(l) = <<>> /\ Members(l) = {}
                    /\ ready[l] = "usable" =>
                         /\ Whole(l, View(l), Members(l))
                         /\ \A k \in Nat : \A c : Chain(l, View(l), Members(l), k, c) => Contents(l) = Order(c, k)
  BY ViewIs DEF ViewsInv
<1>1. ready[l] # "usable" => Contents(l) = <<>> /\ Members(l) = {}
  BY DEF Contents, PointersInv, LinksInv, FreeWhole
<1>2. ASSUME ready[l] = "usable" PROVE Whole(l, View(l), Members(l))
  <2>1. ASSUME NEW p \in Actors, Busy(p, l) PROVE Whole(l, Repaired(p), Members(l))
    BY <1>2, <2>1 DEF Busy, PointersInv, ListsInv, HoldInv, Domains, BusyInitialises, LinksInv, BusySound, Result
  <2>2. (\A p \in Actors : ~Busy(p, l)) => Whole(l, mem, Members(l))
    BY <1>2 DEF PointersInv, LinksInv, FreeWhole
  <2>. QED
    BY <2>1, <2>2, ViewIs
<1>3. ASSUME ready[l] = "usable", NEW k \in Nat, NEW c, Chain(l, View(l), Members(l), k, c)
      PROVE  Contents(l) = Order(c, k)
  BY <1>3, ContentsIs
<1>. QED
  BY <1>1, <1>2, <1>3

\* and so it does after a step.
LEMMA ViewsAfter == PointersInv' => ViewsInv'
  BY ViewsAre, PTL

(***************************************************************************)
(* Putting in and taking out, as operations on sequences                   *)
(***************************************************************************)

\* The order of a chain with a node linked in at an end, or one taken out.
LEMMA InsertOrder ==
  ASSUME NEW k \in Nat, NEW c, NEW n \in Nodes, \A i \in 1 .. k : c[i] \in Nodes
  PROVE  /\ Order(With(c, k, 0, n), k + 1) = <<n>> \o Order(c, k)
         /\ Order(With(c, k, k, n), k + 1) = Append(Order(c, k), n)
<1> DEFINE s == Order(c, k)
<1>1. /\ s \in Seq(Nodes) /\ Len(s) = k /\ \A i \in 1 .. k : s[i] = c[i]
  <2>1. s \in [1 .. k -> Nodes] /\ DOMAIN s = 1 .. k /\ \A i \in 1 .. k : s[i] = c[i]
    BY DEF Order
  <2>2. s \in Seq(Nodes)
    BY <2>1, SeqDef
  <2>. QED
    BY <2>1, <2>2, LenProperties
<1> HIDE DEF s
<1>2. ASSUME NEW t \in Seq(Nodes), Len(t) = k + 1, NEW j \in 0 .. k,
             \A i \in 1 .. k + 1 : t[i] = With(c, k, j, n)[i]
      PROVE  Order(With(c, k, j, n), k + 1) = t
  <2>1. DOMAIN t = 1 .. k + 1 /\ t = [i \in 1 .. k + 1 |-> t[i]]
    BY <1>2, LenProperties
  <2>. QED
    BY <1>2, <2>1 DEF Order
<1>3. Order(With(c, k, 0, n), k + 1) = <<n>> \o s
  <2>1. /\ <<n>> \o s \in Seq(Nodes) /\ Len(<<n>> \o s) = k + 1
        /\ \A i \in 1 .. k + 1 : (<<n>> \o s)[i] = IF i = 1 THEN n ELSE s[i - 1]
    BY <1>1, ConcatProperties
  <2>2. \A i \in 1 .. k + 1 : With(c, k, 0, n)[i] = IF i = 1 THEN n ELSE c[i - 1]
    BY DEF With
  <2>3. \A i \in 1 .. k + 1 : i # 1 => i - 1 \in 1 .. k
    OBVIOUS
  <2>4. 0 \in 0 .. k
    OBVIOUS
  <2>5. \A i \in 1 .. k + 1 : (<<n>> \o s)[i] = With(c, k, 0, n)[i]
    BY <1>1, <2>1, <2>2, <2>3
  <2>. QED
    BY <1>2, <2>1, <2>4, <2>5
<1>4. Order(With(c, k, k, n), k + 1) = Append(s, n)
  <2>1. /\ Append(s, n) \in Seq(Nodes) /\ Len(Append(s, n)) = k + 1
        /\ \A i \in 1 .. k + 1 : Append(s, n)[i] = IF i = k + 1 THEN n ELSE s[i]
    BY <1>1, AppendProperties
  <2>2. \A i \in 1 .. k + 1 : With(c, k, k, n)[i] = IF i = k + 1 THEN n ELSE c[i]
    BY DEF With
  <2>3. \A i \in 1 .. k + 1 : i # k + 1 => i \in 1 .. k
    OBVIOUS
  <2>4. k \in 0 .. k
    OBVIOUS
  <2>5. \A i \in 1 .. k + 1 : Append(s, n)[i] = With(c, k, k, n)[i]
    BY <1>1, <2>1, <2>2, <2>3
  <2>. QED
    BY <1>2, <2>1, <2>4, <2>5
<1>. QED
  BY <1>3, <1>4 DEF s

\* The order of a chain with node j taken out.
LEMMA RemoveOrder ==
  ASSUME NEW k \in Nat, NEW c, NEW j \in 1 .. k, \A i \in 1 .. k : c[i] \in Nodes
  PROVE  /\ Order(Without(c, k, j), k - 1) = RemoveAt(Order(c, k), j)
         /\ j = 1 => Order(Without(c, k, j), k - 1) = Tail(Order(c, k))
         /\ j = k => Order(Without(c, k, j), k - 1) = Front(Order(c, k))
<1> DEFINE s == Order(c, k)
           t == Order(Without(c, k, j), k - 1)
<1>1. /\ s \in Seq(Nodes) /\ Len(s) = k /\ \A i \in 1 .. k : s[i] = c[i]
  <2>1. s \in [1 .. k -> Nodes] /\ DOMAIN s = 1 .. k /\ \A i \in 1 .. k : s[i] = c[i]
    BY DEF Order
  <2>2. s \in Seq(Nodes)
    BY <2>1, SeqDef
  <2>. QED
    BY <2>1, <2>2, LenProperties
<1>2. /\ t \in Seq(Nodes) /\ Len(t) = k - 1
      /\ \A i \in 1 .. k - 1 : t[i] = IF i < j THEN c[i] ELSE c[i + 1]
  <2>1. ASSUME NEW i \in 1 .. k - 1
        PROVE  Without(c, k, j)[i] = (IF i < j THEN c[i] ELSE c[i + 1]) /\ Without(c, k, j)[i] \in Nodes
    BY DEF Without
  <2>2. t \in [1 .. k - 1 -> Nodes] /\ DOMAIN t = 1 .. k - 1 /\ \A i \in 1 .. k - 1 : t[i] = Without(c, k, j)[i]
    BY <2>1 DEF Order
  <2>3. k - 1 \in Nat
    OBVIOUS
  <2>4. t \in Seq(Nodes)
    BY <2>2, <2>3, SeqDef
  <2>. QED
    BY <2>1, <2>2, <2>3, <2>4, LenProperties
<1> HIDE DEF s, t
<1>3. t = RemoveAt(s, j)
  <2> DEFINE u == SubSeq(s, 1, j - 1)
             v == SubSeq(s, j + 1, k)
  <2>1. u \in Seq(Nodes) /\ Len(u) = j - 1 /\ \A i \in 1 .. j - 1 : u[i] = s[i]
    BY <1>1, SubSeqProperties
  <2>2. v \in Seq(Nodes) /\ Len(v) = k - j /\ \A i \in 1 .. k - j : v[i] = s[j + i]
    BY <1>1, SubSeqProperties
  <2> HIDE DEF u, v
  <2>3. /\ u \o v \in Seq(Nodes) /\ Len(u \o v) = k - 1
        /\ \A i \in 1 .. k - 1 : (u \o v)[i] = IF i <= j - 1 THEN u[i] ELSE v[i - (j - 1)]
    BY <2>1, <2>2, ConcatProperties
  <2>4. ASSUME NEW i \in 1 .. k - 1 PROVE (u \o v)[i] = t[i]
    <3>1. CASE i < j
      BY <1>1, <1>2, <2>1, <2>3, <3>1
    <3>2. CASE ~(i < j)
      <4>1. i - (j - 1) \in 1 .. k - j /\ j + (i - (j - 1)) = i + 1 /\ i + 1 \in 1 .. k
        BY <3>2
      <4>2. (u \o v)[i] = v[i - (j - 1)] /\ v[i - (j - 1)] = s[j + (i - (j - 1))]
        BY <2>2, <2>3, <3>2, <4>1
      <4>3. s[i + 1] = c[i + 1] /\ t[i] = c[i + 1]
        BY <1>1, <1>2, <3>2, <4>1
      <4>. QED
        BY <4>1, <4>2, <4>3
    <3>. QED
      BY <3>1, <3>2
  <2>5. u \o v = t
    BY <1>2, <2>3, <2>4, SeqEqual
  <2>. QED
    BY <1>1, <2>5 DEF RemoveAt, u, v
<1>4. j = 1 => t = Tail(s)
  <2> SUFFICES ASSUME j = 1 PROVE t = Tail(s)
    OBVIOUS
  <2>1. Tail(s) \in Seq(Nodes) /\ Len(Tail(s)) = k - 1 /\ \A i \in 1 .. k - 1 : Tail(s)[i] = s[i + 1]
    BY <1>1, HeadTailProperties
  <2>2. \A i \in 1 .. k - 1 : Tail(s)[i] = t[i]
    BY <1>1, <1>2, <2>1
  <2>. QED
    BY <1>2, <2>1, <2>2, SeqEqual
<1>5. j = k => t = Front(s)
  <2> SUFFICES ASSUME j = k PROVE t = Front(s)
    OBVIOUS
  <2>1. /\ SubSeq(s, 1, k - 1) \in Seq(Nodes) /\ Len(SubSeq(s, 1, k - 1)) = k - 1
        /\ \A i \in 1 .. k - 1 : SubSeq(s, 1, k - 1)[i] = s[i]
    BY <1>1, SubSeqProperties
  <2>2. \A i \in 1 .. k - 1 : SubSeq(s, 1, k - 1)[i] = t[i]
    BY <1>1, <1>2, <2>1
  <2>3. t = SubSeq(s, 1, k - 1)
    BY <1>2, <2>1, <2>2, SeqEqual
  <2>. QED
    BY <1>1, <2>3 DEF Front
<1>. QED
  BY <1>3, <1>4, <1>5 DEF s, t

(***************************************************************************)
(* What a step does to the contents of its list                            *)
(***************************************************************************)

\* Where the links of the view stay, so do the contents.
LEMMA SameContents ==
  ASSUME ViewsInv, ViewsInv', NEW l \in Lists, ready[l] = "usable", ready'[l] = "usable",
         SameLinks(l, Members(l), View(l), View(l)'), Members(l)' = Members(l)
  PROVE  Contents(l)' = Contents(l)
<1>1. PICK k \in Nat : \E c \in [0 .. k + 1 -> Nodes \cup {l, l + LH_TAIL}] : Chain(l, View(l), Members(l), k, c)
  BY DEF ViewsInv, Whole
<1>2. PICK c \in [0 .. k + 1 -> Nodes \cup {l, l + LH_TAIL}] : Chain(l, View(l), Members(l), k, c)
  BY <1>1
<1>3. Contents(l) = Order(c, k)
  BY <1>2 DEF ViewsInv
<1>4. Chain(l, View(l)', Members(l)', k, c)
  BY <1>2, ChainFrame
<1>5. Contents(l)' = Order(c, k)
  BY <1>4 DEF ViewsInv
<1>. QED
  BY <1>3, <1>5

\* A node linked in after the header is the first, and before LH_TAIL the last.
LEMMA LinksInContents ==
  ASSUME Shape, ViewsInv, ViewsInv', NEW p \in Actors, NEW l \in Lists, Turn(p, l), Turn(p, l)',
         ready[l] = "usable", ready'[l] = "usable", NEW a, NEW n, LinksIn(p, l, a, n)
  PROVE  /\ a = l => Contents(l)' = <<n>> \o Contents(l)
         /\ Repaired(p)[a] = l + LH_TAIL => Contents(l)' = Append(Contents(l), n)
<1> DEFINE m  == View(l)
           m2 == View(l)'
           M  == Members(l)
<1>0. m = Repaired(p) /\ m2 = Repaired(p)'
  BY DEF ViewsInv
<1>1. n \in Nodes /\ n \notin M /\ Members(l)' = M \cup {n}
  <2>1. p # l
    BY AddressAssumption
  <2>. QED
    BY <2>1, MembersAfter DEF LinksIn, Members
<1>2. /\ a \in M \cup {l} /\ SameBut(l, M, m, m2, a, m[a])
      /\ m2[a] = n /\ m2[n] = m[a] /\ m2[m[a] + LN_PRED] = n /\ m2[n + LN_PRED] = a
  BY <1>0 DEF LinksIn
<1>3. PICK k \in Nat : \E c \in [0 .. k + 1 -> Nodes \cup {l, l + LH_TAIL}] : Chain(l, m, M, k, c)
  BY DEF ViewsInv, Whole
<1>4. PICK c \in [0 .. k + 1 -> Nodes \cup {l, l + LH_TAIL}] : Chain(l, m, M, k, c)
  BY <1>3
<1>5. Contents(l) = Order(c, k)
  BY <1>4 DEF ViewsInv
<1>b. ASSUME NEW j \in 0 .. k, a = c[j] PROVE Contents(l)' = Order(With(c, k, j, n), k + 1)
  <2>1. m[a] = c[j + 1]
    BY <1>4, <1>b DEF Chain
  <2> HIDE DEF m, m2, M
  <2>2. Chain(l, m2, M \cup {n}, k + 1, With(c, k, j, n))
    <3>1. SameBut(l, M, m, m2, c[j], c[j + 1])
      BY <1>2, <1>b, <2>1
    <3>2. m2[c[j]] = n /\ m2[n] = c[j + 1] /\ m2[c[j + 1] + LN_PRED] = n /\ m2[n + LN_PRED] = c[j]
      BY <1>2, <1>b, <2>1
    <3>. QED
      BY <1>1, <1>4, <3>1, <3>2, ChainInsert
  <2>3. Chain(l, View(l)', Members(l)', k + 1, With(c, k, j, n)) /\ k + 1 \in Nat
    BY <1>1, <2>2 DEF m2, M
  <2>. QED
    BY <2>3 DEF ViewsInv
<1>6. \A i \in 1 .. k : c[i] \in Nodes
  BY <1>4 DEF Chain
<1>7. a = l => Contents(l)' = <<n>> \o Contents(l)
  <2>1. c[0] = l /\ 0 \in 0 .. k
    BY <1>4 DEF Chain
  <2> HIDE DEF m, m2, M
  <2>2. a = l => Contents(l)' = Order(With(c, k, 0, n), k + 1)
    BY <1>b, <2>1
  <2>. QED
    BY <1>1, <1>5, <1>6, <2>2, InsertOrder
<1>8. Repaired(p)[a] = l + LH_TAIL => Contents(l)' = Append(Contents(l), n)
  <2> SUFFICES ASSUME m[a] = l + LH_TAIL PROVE Contents(l)' = Append(Contents(l), n)
    BY <1>0
  <2>1. a = c[k]
    <3>1. m[l + LH_TAIL + LN_PRED] = c[k]
      BY <1>4 DEF Chain
    <3>2. m[m[a] + LN_PRED] = a
      BY <1>2, WholeFacts DEF ViewsInv
    <3>. QED
      BY <3>1, <3>2
  <2> HIDE DEF m, m2, M
  <2>2. Contents(l)' = Order(With(c, k, k, n), k + 1)
    BY <1>b, <2>1
  <2>3. Order(With(c, k, k, n), k + 1) = Append(Order(c, k), n)
    BY <1>1, <1>6, InsertOrder
  <2>. QED
    BY <1>5, <2>2, <2>3
<1>. QED
  BY <1>7, <1>8

\* The second, where the cell is not known by name.
LEMMA LinksInLast ==
  ASSUME Shape, ViewsInv, ViewsInv', NEW p \in Actors, NEW l \in Lists, Turn(p, l), Turn(p, l)',
         ready[l] = "usable", ready'[l] = "usable", NEW a, NEW n, LinksIn(p, l, a, n),
         Repaired(p)[a] = l + LH_TAIL
  PROVE  Contents(l)' = Append(Contents(l), n)
BY LinksInContents

\* A node taken out leaves the others in their order; it was the first if LH_HEAD
\* led to it, and the last if LH_TAILPRED did.
LEMMA TakesOutContents ==
  ASSUME Shape, ViewsInv, ViewsInv', NEW p \in Actors, NEW l \in Lists, Turn(p, l), Turn(p, l)',
         ready[l] = "usable", ready'[l] = "usable", NEW n, TakesOut(p, l, n)
  PROVE  /\ Contents(l) # <<>>
         /\ \E j \in DOMAIN Contents(l) :
              /\ Contents(l)[j] = n /\ Contents(l)' = RemoveAt(Contents(l), j)
         /\ Repaired(p)[l] = n => n = Head(Contents(l)) /\ Contents(l)' = Tail(Contents(l))
         /\ Repaired(p)[l + LH_TAILPRED] = n => n = Last(Contents(l)) /\ Contents(l)' = Front(Contents(l))
<1> DEFINE m  == View(l)
           m2 == View(l)'
           M  == Members(l)
<1>0. m = Repaired(p) /\ m2 = Repaired(p)'
  BY DEF ViewsInv
<1>1. n \in Nodes /\ n \in M /\ Members(l)' = M \ {n}
  <2>1. n \in Nodes /\ n \in M /\ where' = [where EXCEPT ![n] = p]
    BY DEF TakesOut, Members
  <2>. QED
    BY <2>1, MembersAfter
<1>2. /\ SameBut(l, M \ {n}, m, m2, m[n + LN_PRED], m[n])
      /\ m2[m[n + LN_PRED]] = m[n] /\ m2[m[n] + LN_PRED] = m[n + LN_PRED]
  BY <1>0 DEF TakesOut
<1>3. PICK k \in Nat : \E c \in [0 .. k + 1 -> Nodes \cup {l, l + LH_TAIL}] : Chain(l, m, M, k, c)
  BY DEF ViewsInv, Whole
<1>4. PICK c \in [0 .. k + 1 -> Nodes \cup {l, l + LH_TAIL}] : Chain(l, m, M, k, c)
  BY <1>3
<1>5. Contents(l) = Order(c, k)
  BY <1>4 DEF ViewsInv
<1>6. PICK j \in 1 .. k : n = c[j]
  <2> HIDE DEF m, m2, M
  <2>1. \A x \in M : \E i \in 1 .. k : x = c[i]
    BY <1>4 DEF Chain, Cells
  <2>. QED
    BY <1>1, <2>1
<1>7. m[n] = c[j + 1] /\ m[n + LN_PRED] = c[j - 1]
  <2>1. j \in 0 .. k /\ j - 1 \in 0 .. k /\ (j - 1) + 1 = j
    OBVIOUS
  <2>. QED
    BY <1>4, <1>6, <2>1 DEF Chain
<1>8. Contents(l)' = Order(Without(c, k, j), k - 1)
  <2> HIDE DEF m, m2, M
  <2>1. Chain(l, m2, M \ {c[j]}, k - 1, Without(c, k, j))
    <3>1. SameBut(l, M \ {c[j]}, m, m2, c[j - 1], c[j + 1])
      BY <1>2, <1>6, <1>7
    <3>2. m2[c[j - 1]] = c[j + 1] /\ m2[c[j + 1] + LN_PRED] = c[j - 1]
      BY <1>2, <1>7
    <3>. QED
      BY <1>4, <3>1, <3>2, ChainRemove
  <2>2. Chain(l, View(l)', Members(l)', k - 1, Without(c, k, j)) /\ k - 1 \in Nat
    BY <1>1, <1>6, <2>1 DEF m2, M
  <2>. QED
    BY <2>2 DEF ViewsInv
<1>9. /\ \A i \in 1 .. k : c[i] \in Nodes
      /\ \A i \in 1 .. k : c[i] = c[j] => i = j
      /\ m[l] = c[1] /\ m[l + LH_TAILPRED] = c[k]
  <2>1. m[c[0]] = c[0 + 1] /\ c[0] = l /\ 0 + 1 = 1
    BY <1>4 DEF Chain
  <2>2. m[c[k + 1] + LN_PRED] = c[k] /\ c[k + 1] + LN_PRED = l + LH_TAILPRED
    BY <1>4, AddressAssumption DEF Chain, LH_TAIL, LN_PRED, LH_TAILPRED
  <2>. QED
    BY <1>4, <2>1, <2>2 DEF Chain
<1>10. /\ Len(Contents(l)) = k /\ DOMAIN Contents(l) = 1 .. k /\ Contents(l) # <<>>
       /\ \A i \in 1 .. k : Contents(l)[i] = c[i]
  <2>1. Order(c, k) \in Seq(Nodes) /\ Len(Order(c, k)) = k /\ \A i \in 1 .. k : Order(c, k)[i] = c[i]
    BY <1>4, ChainOrder
  <2>2. DOMAIN Order(c, k) = 1 .. k /\ Order(c, k) # <<>>
    BY <2>1, LenProperties, EmptySeq
  <2>. QED
    BY <1>5, <2>1, <2>2
<1> HIDE DEF m, m2, M
<1>11. Contents(l)' = RemoveAt(Contents(l), j)
  BY <1>5, <1>8, <1>9, RemoveOrder
<1>12. ASSUME m[l] = n PROVE n = Head(Contents(l)) /\ Contents(l)' = Tail(Contents(l))
  <2>1. j = 1
    <3>1. 1 \in 1 .. k
      OBVIOUS
    <3>. QED
      BY <1>6, <1>9, <1>12, <3>1
  <2>2. Head(Contents(l)) = c[1]
    BY <1>10
  <2>. QED
    BY <1>5, <1>6, <1>8, <1>9, <2>1, <2>2, RemoveOrder
<1>13. ASSUME m[l + LH_TAILPRED] = n PROVE n = Last(Contents(l)) /\ Contents(l)' = Front(Contents(l))
  <2>1. j = k
    <3>1. k \in 1 .. k
      OBVIOUS
    <3>. QED
      BY <1>6, <1>9, <1>13, <3>1
  <2>2. Last(Contents(l)) = c[k]
    BY <1>10 DEF Last
  <2>. QED
    BY <1>5, <1>6, <1>8, <1>9, <2>1, <2>2, RemoveOrder
<1>. QED
  BY <1>0, <1>6, <1>10, <1>11, <1>12, <1>13 DEF m

(***************************************************************************)
(* The instruction at which each macro takes effect                        *)
(***************************************************************************)

\* A step on list l does nothing to the others.
LEMMA OthersContents ==
  ASSUME PointersInv, ViewsInv, ViewsInv', NEW p \in Actors, NEW l \in Lists, Moves(p, l),
         NEW k \in Lists, k # l
  PROVE  Contents(k)' = Contents(k)
<1>0. Shape /\ Local(p, l)
  BY DEF PointersInv, LinksInv, Moves
<1>1. /\ ready'[k] = ready[k] /\ Members(k)' = Members(k)
      /\ \A q \in Actors : q # p => pc'[q] = pc[q] /\ arg'[q] = arg[q]
  BY <1>0, OthersKeepWords DEF Local, OwnRegisters, Shape
<1>2. \A q \in Actors : (Busy(q, k)' <=> Busy(q, k)) /\ (Busy(q, k) => q # p)
  BY <1>1 DEF Busy, Moves, After, MacroLabels, NewListLabels
<1>3. CASE ready[k] # "usable"
  BY <1>1, <1>3 DEF ViewsInv
<1>4. CASE ready[k] = "usable"
  <2>1. ASSUME NEW q \in Actors, Busy(q, k) PROVE SameLinks(k, Members(k), View(k), View(k)')
    <3>1. View(k) = Repaired(q) /\ View(k)' = Repaired(q)' /\ q # p
      BY <1>2, <2>1 DEF ViewsInv
    <3>2. \A w \in Words : mem'[w] = mem[w] => View(k)'[w] = View(k)[w]
      BY <1>0, <3>1, OthersKeepOwed
    <3>. QED
      BY <1>0, <3>2, OthersKeepLinks
  <2>2. ASSUME \A q \in Actors : ~Busy(q, k) PROVE SameLinks(k, Members(k), View(k), View(k)')
    <3>1. View(k) = mem /\ View(k)' = mem'
      BY <1>2, <2>2 DEF ViewsInv
    <3>2. \A w \in Words : mem'[w] = mem[w] => View(k)'[w] = View(k)[w]
      BY <3>1
    <3>. QED
      BY <1>0, <3>2, OthersKeepLinks
  <2>. QED
    BY <1>1, <1>4, <2>1, <2>2, SameContents
<1>. QED
  BY <1>3, <1>4

\* The same, for the function from lists to contents that ListSpec has.
LEMMA OneContents ==
  ASSUME PointersInv, ViewsInv, ViewsInv', NEW p \in Actors, NEW l \in Lists, Moves(p, l),
         NEW s, Contents(l)' = s
  PROVE  [k \in Lists |-> Contents(k)'] = [[k \in Lists |-> Contents(k)] EXCEPT ![l] = s]
<1>1. \A k \in Lists : k # l => Contents(k)' = Contents(k)
  BY OthersContents
<1>. QED
  BY <1>1

\* Arbitration, interrupts, tests and walks do nothing to any.
LEMMA OutsideContents ==
  ASSUME Outside, NEW l \in Lists
  PROVE  Contents(l)' = Contents(l)
<1>1. mem' = mem /\ ready' = ready /\ arg' = arg
  BY DEF Outside
<1> DEFINE Back == {"AddHead2", "AddHead3", "AddHead4", "RemTail2", "RemTail3", "RemTail4", "RemTail5"}
<1>2. \A q \in Actors : (pc'[q] \in Back <=> pc[q] \in Back)
  BY DEF Outside, MacroLabels
<1>3. BackwardMacro(l)' <=> BackwardMacro(l)
  BY <1>1, <1>2 DEF BackwardMacro, Busy
<1>. QED
  BY <1>1, <1>3 DEF Contents

\* It is p's turn with a list before and after its step on it.
LEMMA MovesTurn ==
  ASSUME Shape, NEW p \in Actors, NEW l \in Lists, Moves(p, l)
  PROVE  Turn(p, l) /\ Turn(p, l)'
<1>1. \A q \in Actors : q # p => pc'[q] = pc[q] /\ arg'[q] = arg[q]
  BY DEF Moves, Local, OwnRegisters, Shape
<1>2. Turn(p, l)
  BY DEF Moves, Turn, Busy, MacroLabels, NewListLabels
<1>3. Busy(p, l)' \/ pc'[p] = "idle"
  BY DEF Moves, After, Busy, MacroLabels, NewListLabels
<1>4. \A q \in Actors : Busy(q, l)' => q = p
  BY <1>1 DEF Moves, Busy
<1>. QED
  BY <1>2, <1>3, <1>4 DEF Turn

\* What can be said of a step inside a macro on a list that is set up.
LEMMA MacroStepTurn ==
  ASSUME PointersInv, NEW p \in Actors, NEW l \in Lists, l = arg[p].list, MacroStep(p), pc[p] \in MacroLabels
  PROVE  /\ Shape /\ Moves(p, l) /\ Turn(p, l) /\ Turn(p, l)' /\ Result(p, l)
         /\ ready[l] = "usable" /\ ready'[l] = "usable"
<1>1. LinksInv /\ ListsInv /\ Shape
  BY DEF PointersInv, LinksInv
<1>2. Moves(p, l)
  BY <1>1, MacroStepMoves
<1>3. ready[l] = "usable" /\ Result(p, l)
  BY <1>1 DEF ListsInv, HoldInv, BusyOwns, LinksInv, BusySound
<1>4. ready'[l] = "usable"
  BY <1>3, MacroStepKinds DEF Continues, Ends, NewListLabels, MacroLabels
<1>. QED
  BY <1>1, <1>2, <1>3, <1>4, MovesTurn

\* The last instruction of ADDHEAD is AddHead,
LEMMA AddHeadAbstract ==
  ASSUME PointersInv, ViewsInv, ViewsInv', NEW p \in Actors, NEW l \in Lists, l = arg[p].list, AddHead4(p)
  PROVE  Abstract!AddHead(p, l, arg[p].node)
<1> DEFINE n == arg[p].node
<1>1. /\ Shape /\ Moves(p, l) /\ Turn(p, l) /\ Turn(p, l)' /\ Result(p, l)
      /\ ready[l] = "usable" /\ ready'[l] = "usable"
  BY MacroStepTurn DEF MacroStep, AddHead4, AddHeadEnds, Finish, At, MacroLabels
<1>2. LinksIn(p, l, l, n)
  BY <1>1, AddHead4Links
<1>3. Contents(l)' = <<n>> \o Contents(l)
  BY <1>1, <1>2, LinksInContents
<1>4. where[n] = p /\ where' = [where EXCEPT ![n] = l]
  BY <1>2 DEF LinksIn
<1> HIDE DEF n
<1>5. [k \in Lists |-> Contents(k)'] = [[k \in Lists |-> Contents(k)] EXCEPT ![l] = <<n>> \o Contents(l)]
  BY <1>1, <1>3, OneContents
<1>. QED
  BY <1>4, <1>5 DEF Abstract!AddHead, n

\* and that of ADDTAIL AddTail;
LEMMA AddTailAbstract ==
  ASSUME PointersInv, ViewsInv, ViewsInv', NEW p \in Actors, NEW l \in Lists, l = arg[p].list, AddTail4(p)
  PROVE  Abstract!AddTail(p, l, arg[p].node)
<1> DEFINE n == arg[p].node
<1>1. /\ Shape /\ Moves(p, l) /\ Turn(p, l) /\ Turn(p, l)' /\ Result(p, l)
      /\ ready[l] = "usable" /\ ready'[l] = "usable"
  BY MacroStepTurn DEF MacroStep, AddTail4, Finish, At, MacroLabels
<1>2. LinksIn(p, l, A0(p), n) /\ Repaired(p)[A0(p)] = l + LH_TAIL
  BY <1>1, AddTail4Links
<1>3. Contents(l)' = Append(Contents(l), n)
  <2> DEFINE a == A0(p)
  <2>1. LinksIn(p, l, a, n) /\ Repaired(p)[a] = l + LH_TAIL
    BY <1>2
  <2> HIDE DEF a, n
  <2>. QED
    BY <1>1, <2>1, LinksInLast
<1>4. where[n] = p /\ where' = [where EXCEPT ![n] = l]
  BY <1>2 DEF LinksIn
<1> HIDE DEF n
<1>5. [k \in Lists |-> Contents(k)'] = [[k \in Lists |-> Contents(k)] EXCEPT ![l] = Append(Contents(l), n)]
  BY <1>1, <1>3, OneContents
<1>. QED
  BY <1>4, <1>5 DEF Abstract!AddTail, n

\* the first store of REMHEAD and REMHEADQ is RemHead,
LEMMA RemHeadAbstract ==
  ASSUME PointersInv, ViewsInv, ViewsInv', NEW p \in Actors, NEW l \in Lists, l = arg[p].list,
         RemHead3(p) \/ RemHeadQ3(p)
  PROVE  Abstract!RemHead(p, l)
<1> DEFINE n == arg[p].node
<1>1. /\ Shape /\ Moves(p, l) /\ Turn(p, l) /\ Turn(p, l)' /\ Result(p, l)
      /\ ready[l] = "usable" /\ ready'[l] = "usable"
  BY MacroStepTurn DEF MacroStep, RemHead3, RemHeadTakes, RemHeadQ3, Step, At, MacroLabels
<1>2. TakesOut(p, l, n) /\ Repaired(p)[l] = n
  BY <1>1, RemHead3Links, RemHeadQ3Links
<1>3. Contents(l) # <<>> /\ n = Head(Contents(l)) /\ Contents(l)' = Tail(Contents(l))
  BY <1>1, <1>2, TakesOutContents
<1>4. where' = [where EXCEPT ![Head(Contents(l))] = p]
  BY <1>2, <1>3 DEF TakesOut
<1> HIDE DEF n
<1>5. [k \in Lists |-> Contents(k)'] = [[k \in Lists |-> Contents(k)] EXCEPT ![l] = Tail(Contents(l))]
  BY <1>1, <1>3, OneContents
<1>. QED
  BY <1>3, <1>4, <1>5 DEF Abstract!RemHead

\* that of REMTAIL RemTail,
LEMMA RemTailAbstract ==
  ASSUME PointersInv, ViewsInv, ViewsInv', NEW p \in Actors, NEW l \in Lists, l = arg[p].list, RemTail3(p)
  PROVE  Abstract!RemTail(p, l)
<1> DEFINE n == arg[p].node
<1>1. /\ Shape /\ Moves(p, l) /\ Turn(p, l) /\ Turn(p, l)' /\ Result(p, l)
      /\ ready[l] = "usable" /\ ready'[l] = "usable"
  BY MacroStepTurn DEF MacroStep, RemTail3, Step, At, MacroLabels
<1>2. TakesOut(p, l, n) /\ Repaired(p)[l + LH_TAILPRED] = n
  BY <1>1, RemTail3Links
<1>3. Contents(l) # <<>> /\ n = Last(Contents(l)) /\ Contents(l)' = Front(Contents(l))
  BY <1>1, <1>2, TakesOutContents
<1>4. where' = [where EXCEPT ![Last(Contents(l))] = p]
  BY <1>2, <1>3 DEF TakesOut
<1> HIDE DEF n
<1>5. [k \in Lists |-> Contents(k)'] = [[k \in Lists |-> Contents(k)] EXCEPT ![l] = Front(Contents(l))]
  BY <1>1, <1>3, OneContents
<1>. QED
  BY <1>3, <1>4, <1>5 DEF Abstract!RemTail, Abstract!Front, Abstract!Last, Front, Last

\* and that of REMOVE RemoveNode.
LEMMA RemoveAbstract ==
  ASSUME PointersInv, ViewsInv, ViewsInv', NEW p \in Actors, NEW l \in Lists, l = arg[p].list, Remove3(p)
  PROVE  Abstract!RemoveNode(p, arg[p].node)
<1> DEFINE n == arg[p].node
<1>1. /\ Shape /\ Moves(p, l) /\ Turn(p, l) /\ Turn(p, l)' /\ Result(p, l)
      /\ ready[l] = "usable" /\ ready'[l] = "usable"
  BY MacroStepTurn DEF MacroStep, Remove3, Step, At, MacroLabels
<1>2. TakesOut(p, l, n)
  BY <1>1, Remove3Links
<1>3. PICK j \in DOMAIN Contents(l) : Contents(l)[j] = n /\ Contents(l)' = RemoveAt(Contents(l), j)
  BY <1>1, <1>2, TakesOutContents
<1>4. where[n] = l /\ where' = [where EXCEPT ![n] = p]
  BY <1>2 DEF TakesOut, Members
<1> HIDE DEF n
<1>5. [k \in Lists |-> Contents(k)'] = [[k \in Lists |-> Contents(k)] EXCEPT ![l] = RemoveAt(Contents(l), j)]
  BY <1>1, <1>3, OneContents
<1>. QED
  BY <1>3, <1>4, <1>5 DEF Abstract!RemoveNode, Abstract!RemoveAt, RemoveAt, n

(***************************************************************************)
(* The other instructions, and the theorem                                 *)
(***************************************************************************)

\* Nothing the abstract specification sees changes.
Unchanged == where' = where /\ \A l \in Lists : Contents(l)' = Contents(l)

\* A step that keeps its list keeps all contents.
LEMMA KeepsContents ==
  ASSUME PointersInv, ViewsInv, ViewsInv', NEW p \in Actors, NEW l \in Lists, Moves(p, l),
         ready[l] = "usable", ready'[l] = "usable", Keeps(p, l)
  PROVE  Unchanged
<1>1. View(l) = Repaired(p) /\ View(l)' = Repaired(p)'
  BY MovesTurn DEF ViewsInv, PointersInv, LinksInv
<1>2. SameLinks(l, Members(l), View(l), View(l)') /\ Members(l)' = Members(l) /\ where' = where
  BY <1>1 DEF Keeps, Members
<1>3. Contents(l)' = Contents(l)
  BY <1>2, SameContents
<1>. QED
  BY <1>2, <1>3, OthersContents DEF Unchanged

\* A list without nodes has no contents.
LEMMA EmptyContents ==
  ASSUME ViewsInv, NEW l \in Lists, Members(l) = {}
  PROVE  Contents(l) = <<>>
<1>1. CASE ready[l] # "usable"
  BY <1>1 DEF ViewsInv
<1>2. CASE ready[l] = "usable"
  <2>1. PICK k \in Nat : \E c \in [0 .. k + 1 -> Nodes \cup {l, l + LH_TAIL}] : Chain(l, View(l), {}, k, c)
    BY <1>2 DEF ViewsInv, Whole
  <2>2. PICK c \in [0 .. k + 1 -> Nodes \cup {l, l + LH_TAIL}] : Chain(l, View(l), {}, k, c)
    BY <2>1
  <2>3. k = 0
    <3>1. k # 0 => 1 \in 1 .. k
      OBVIOUS
    <3>. QED
      BY <2>2, <3>1 DEF Chain, Cells
  <2>4. Contents(l) = Order(c, k)
    BY <1>2, <2>2 DEF ViewsInv
  <2>5. Order(c, k) \in Seq(Nodes) /\ Len(Order(c, k)) = 0
    BY <2>2, <2>3, ChainOrder
  <2>. QED
    BY <2>4, <2>5, EmptySeq
<1>. QED
  BY <1>1, <1>2

\* The same, for use after a step.
EmptyOfEmpty == \A l \in Lists : Members(l) = {} => Contents(l) = <<>>

\* It holds after a step as before.
LEMMA EmptyContentsAfter == ViewsInv' => EmptyOfEmpty'
<1>1. ViewsInv => EmptyOfEmpty
  BY EmptyContents DEF EmptyOfEmpty
<1>. QED
  BY <1>1, PTL

\* NEWLIST makes an empty list of none.
LEMMA NewListContents ==
  ASSUME PointersInv, ViewsInv, ViewsInv', NEW p \in Actors, NEW l \in Lists, Moves(p, l),
         NewList1(p, l) \/ (l = arg[p].list /\ (NewList2(p) \/ NewList3(p)))
  PROVE  Unchanged
<1>1. where' = where /\ Members(l)' = Members(l)
  BY DEF NewList1, NewList2, NewList3, NewListEnds, Members
<1>2. ready[l] # "usable"
  <2>1. NewList2(p) \/ NewList3(p) => pc[p] \in NewListLabels
    BY DEF NewList2, NewList3, NewListEnds, Step, Finish, At, NewListLabels
  <2>. QED
    BY <2>1 DEF NewList1, PointersInv, ListsInv, HoldInv, BusyInitialises
<1>3. Members(l) = {}
  BY <1>2 DEF ViewsInv
<1>4. Contents(l)' = Contents(l)
  BY <1>1, <1>3, EmptyContents, EmptyContentsAfter DEF EmptyOfEmpty
<1>. QED
  BY <1>1, <1>4, OthersContents DEF Unchanged

\* The instructions other than those at which a macro takes effect.
LEMMA QuietContents ==
  ASSUME PointersInv, ViewsInv, ViewsInv', NEW p \in Actors, NEW l \in Lists, l = arg[p].list, MacroStep(p),
         ~(AddHead4(p) \/ AddTail4(p) \/ Remove3(p) \/ RemHead3(p) \/ RemHeadQ3(p) \/ RemTail3(p))
  PROVE  Unchanged
<1>1. LinksInv /\ ListsInv
  BY DEF PointersInv
<1>2. CASE NewList2(p) \/ NewList3(p)
  BY <1>1, <1>2, MacroStepMoves, NewListContents
<1>3. CASE ~(NewList2(p) \/ NewList3(p))
  <2>1. pc[p] \in MacroLabels
    BY <1>3 DEF MacroStep, MacroLabels, AddHead2, AddHead3, AddHead4, AddHeadEnds, AddTail2, AddTail3,
       AddTailLinks, AddTail4, Remove2, Remove3, Remove4, RemHead2, RemHead3, RemHeadTakes, RemHead4,
       RemHeadQ2, RemHeadQ3, RemHeadQ4, RemTail2, RemTail3, RemTail4, RemTail5, RemTailEnds, TstLst2_2,
       Step, Finish, At
  <2>2. Shape /\ Moves(p, l) /\ Result(p, l) /\ ready[l] = "usable" /\ ready'[l] = "usable"
    BY <2>1, MacroStepTurn
  <2>3. Keeps(p, l)
    <3>1. CASE AddHead2(p) \/ AddHead3(p) \/ AddTail2(p) \/ AddTail3(p)
      BY <2>2, <3>1, AddHead2Links, AddHead3Links, AddTail2Links, AddTail3Links
    <3>2. CASE Remove2(p) \/ Remove4(p) \/ TstLst2_2(p)
      BY <2>2, <3>2, Remove2Links, Remove4Links, TstLst2_2Links
    <3>3. CASE RemHead2(p) \/ RemHead4(p) \/ RemHeadQ2(p) \/ RemHeadQ4(p)
      BY <2>2, <3>3, RemHead2Links, RemHead4Links, RemHeadQ2Links, RemHeadQ4Links
    <3>4. CASE RemTail2(p) \/ RemTail4(p) \/ RemTail5(p)
      BY <2>2, <3>4, RemTail2Links, RemTail4Links, RemTail5Links
    <3>. QED
      BY <1>3, <3>1, <3>2, <3>3, <3>4 DEF MacroStep
  <2>. QED
    BY <2>2, <2>3, KeepsContents
<1>. QED
  BY <1>2, <1>3

\* Nor does the first instruction of a macro change what a list holds.
LEMMA CallContents ==
  ASSUME PointersInv, ViewsInv, ViewsInv', NEW p \in Actors, NEW l \in Lists, Calls(p, l)
  PROVE  Unchanged
<1>1. LinksInv /\ ListsInv /\ KnownInv /\ Shape
  BY DEF PointersInv, LinksInv
<1>2. Moves(p, l)
  BY <1>1, CallMoves
<1>3. CASE NewList1(p, l)
  BY <1>2, <1>3, NewListContents
<1>4. CASE ~NewList1(p, l)
  <2>1. Usable(p, l) /\ pc[p] = "idle" /\ Active(p)
    BY <1>1, <1>4, CallsBegin, BusyActive DEF ListsInv
  <2>2. Whole(l, mem, Members(l))
    BY <1>1, <2>1, FreeListWhole DEF Busy
  <2>3. \/ \E n \in Nodes : AddHead1(p, l, n) \/ AddTail1(p, l, n) \/ (where[n] = l /\ Remove1(p, n))
        \/ RemHead1(p, l) \/ (RemHeadQ1(p, l) /\ Members(l) # {}) \/ RemTail1(p, l) \/ TstLst2_1(p, l)
    <3>1. RemHeadQ1(p, l) => Members(l) # {}
      BY <1>1, AddressAssumption DEF RemHeadQ1, KnownInv, NoList
    <3>. QED
      BY <1>4, <3>1 DEF Calls
  <2>4. Keeps(p, l) /\ ready' = ready
    BY <1>1, <2>2, <2>3, CallLinks
  <2>. QED
    BY <1>2, <2>1, <2>4, KeepsContents DEF Usable
<1>. QED
  BY <1>3, <1>4

\* REMHEAD and REMTAIL find the word that tells an empty list from another.
LEMMA GivesUp ==
  ASSUME PointersInv, ViewsInv, NEW p \in Actors, NEW l \in Lists, l = arg[p].list,
         RemHead2(p) \/ RemTail2(p), pc'[p] = "idle"
  PROVE  Contents(l) = <<>>
<1>1. pc[p] \in {"RemHead2", "RemTail2"} /\ pc[p] \in MacroLabels
  BY DEF RemHead2, RemTail2, At, MacroLabels
<1>2. Shape /\ Result(p, l) /\ Owed(p) = None
  BY <1>1 DEF PointersInv, LinksInv, BusySound, Owed
<1>3. Whole(l, mem, Members(l))
  BY <1>2, NothingOwed DEF Result
<1>4. CASE RemHead2(p)
  <2>1. A1(p) = mem[l]
    BY <1>2, <1>4 DEF Result, RegistersOf, RemHead2, At
  <2>2. mem[A1(p)] = 0
    BY <1>2, <1>4 DEF RemHead2, Step, Goto, Shape
  <2>. QED
    BY <1>3, <2>1, <2>2, WholeFacts, EmptyContents
<1>5. CASE RemTail2(p)
  <2>1. A1(p) = mem[l + LH_TAILPRED]
    BY <1>2, <1>5 DEF Result, RegistersOf, RemTail2, At
  <2>2. mem[A1(p) + LN_PRED] = 0
    BY <1>2, <1>5 DEF RemTail2, Step, Goto, Shape
  <2>. QED
    BY <1>3, <2>1, <2>2, WholeFacts, EmptyContents
<1>. QED
  BY <1>4, <1>5

\* The second half of ImplementsListSpec.
LEMMA TakesEffectStep ==
  ASSUME PointersInv, ViewsInv, ViewsInv', NEW p \in Actors
  PROVE  TakesEffect(p, arg[p].list, arg[p].node)
<1>1. CASE MacroStep(p)
  <2>1. ListsInv
    BY DEF PointersInv
  <2>2. PICK l \in Lists : l = arg[p].list
    BY <1>1, <2>1, MacroStepList
  <2>. QED
    BY <2>2, AddHeadAbstract, AddTailAbstract, RemHeadAbstract, RemTailAbstract, RemoveAbstract, GivesUp
    DEF TakesEffect
<1>2. CASE ~MacroStep(p)
  BY <1>2 DEF TakesEffect, MacroStep
<1>. QED
  BY <1>1, <1>2

\* Every step is one of ListSpec's or leaves its variables as they are.
LEMMA AbstractStep ==
  ASSUME PointersInv, ViewsInv, ViewsInv', [Next]_vars
  PROVE  [Abstract!Next]_<<[l \in Lists |-> Contents(l)], where>>
<1>0. LinksInv /\ ListsInv
  BY DEF PointersInv
<1>1. Unchanged => UNCHANGED <<[l \in Lists |-> Contents(l)], where>>
  BY DEF Unchanged
<1>2. ASSUME NEW p \in Actors, MacroStep(p) PROVE Unchanged \/ Abstract!Next
  <2>1. PICK l \in Lists : l = arg[p].list
    BY <1>0, <1>2, MacroStepList
  <2> DEFINE n == arg[p].node
  <2>2. CASE AddHead4(p) \/ AddTail4(p) \/ Remove3(p)
    <3>1. n \in Nodes
      <4>1. pc[p] \in MacroLabels /\ (Adding(p) \/ Removing(p))
        BY <2>2 DEF AddHead4, AddHeadEnds, AddTail4, Remove3, Step, Finish, At, MacroLabels, Adding, Removing
      <4>. QED
        BY <1>2, <2>1, <4>1, MacroStepTurn DEF Result, NodeOf
    <3>. QED
      BY <2>1, <2>2, <3>1, AddHeadAbstract, AddTailAbstract, RemoveAbstract DEF Abstract!Next
  <2>3. CASE RemHead3(p) \/ RemHeadQ3(p) \/ RemTail3(p)
    BY <2>1, <2>3, RemHeadAbstract, RemTailAbstract DEF Abstract!Next
  <2>. QED
    BY <1>2, <2>1, <2>2, <2>3, QuietContents
<1>3. ASSUME NEW p \in Actors, NEW l \in Lists, Calls(p, l) PROVE Unchanged
  BY <1>3, CallContents
<1>4. ASSUME \/ \E p \in Actors : NextNode(p) \/ Acquire(p) \/ Release(p) \/ EnableEnds(p)
             \/ \E p \in Actors : \E l \in Lists : TstList(p, l) \/ WalkFrom(p, l)
             \/ ServerEnters \/ ServerReturns \/ UNCHANGED vars
      PROVE  Unchanged
  <2>1. Outside
    BY <1>0, <1>4, OutsideSteps
  <2>. QED
    BY <2>1, OutsideContents DEF Unchanged, Outside
<1>. QED
  BY <1>1, <1>2, <1>3, <1>4, StepParts

\* All lists are empty at the start.
LEMMA AbstractInit == Init /\ ViewsInv => Abstract!Init
<1> SUFFICES ASSUME Init, ViewsInv PROVE Abstract!Init
  OBVIOUS
<1>1. \A l \in Lists : Members(l) = {}
  <2>1. Lists \cap Actors = {}
    BY AddressAssumption
  <2>. QED
    BY <2>1 DEF Init, Members
<1>2. \A l \in Lists : Contents(l) = <<>>
  BY <1>1, EmptyContents
<1>. QED
  BY <1>2 DEF Abstract!Init, Init

\* The macros of lists.i, instruction by instruction, for any number of actors,
\* lists and nodes and under the arbitration they require, implement atomic
\* operations on sequences: ADDHEAD and ADDTAIL put the node at that end, REMHEAD,
\* REMHEADQ and REMTAIL give the node that was at that end, or nothing if there was
\* none, REMOVE takes the node out from among its neighbours, and no other
\* instruction is seen.
THEOREM ImplementsListSpecTheorem == Spec => ImplementsListSpec
<1>1. PointersInv /\ Init => Abstract!Init
  BY ViewsAre, AbstractInit
<1>2. PointersInv /\ PointersInv' /\ [Next]_vars => [Abstract!Next]_<<[l \in Lists |-> Contents(l)], where>>
  BY ViewsAre, ViewsAfter, AbstractStep
<1>3. PointersInv /\ PointersInv' => \A p \in Actors : TakesEffect(p, arg[p].list, arg[p].node)
  BY ViewsAre, ViewsAfter, TakesEffectStep
<1>. QED
  BY <1>1, <1>2, <1>3, PointersInvariance, PTL DEF Spec, ImplementsListSpec, Abstract!Spec
=============================================================================
