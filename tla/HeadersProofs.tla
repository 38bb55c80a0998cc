---------------------------- MODULE HeadersProofs ----------------------------
(* Proofs about the reading of headers, for any tables that keep to what the  *)
(* ASSUMEs of Headers say, any units and any path.                            *)
(*                                                                            *)
(* The argument.  A header is opened when it passes its guard, and its guard  *)
(* is defined from then on.  Every macro that is defined was defined by an    *)
(* opened header (DefinedBy), and a guard, or a macro whose absence an        *)
(* #include tests, only by the header itself or one that hides it: so what is *)
(* skipped has been opened, or is hidden (Settled).  What a header asked for  *)
(* therefore waits above it on the stack, or has been opened, or is hidden    *)
(* (Passed).  An opened header is read to its end, or is still open below;    *)
(* and then, the stack following the #include lines (Chain), it can lead to   *)
(* the header that is read.                                                   *)
EXTENDS Headers, SequenceTheorems, TLAPS

(***************************************************************************)
(* The inductive invariant                                                 *)
(***************************************************************************)
Opened == closed \cup {stack[i].name : i \in {j \in DOMAIN stack : stack[j].at > 0}}
Settled(h) == h \in Opened \/ \E a \in Opened : <<a, h>> \in Hides

Names == Name \cup {NoName}
Frame == [name : Names, at : Nat]
FramesOK ==
  /\ unit \in Units
  /\ stack \in Seq(Frame)
  /\ \A i \in DOMAIN stack : /\ stack[i].name \in DOMAIN Found \cup {NoName}
                             /\ stack[i].at <= Len(Items(stack[i].name)) + 1
                             /\ stack[i].name = NoName => stack[i].at > 0
  /\ Predefined \subseteq defined
  /\ closed \subseteq DOMAIN Found \cup {NoName}
  /\ NoName \in Opened

\* A header with a guard is open once, and not after it was read to its end.
OpenOnce ==
  /\ \A a \in closed \ {NoName} : Found[a].guard \subseteq defined
  /\ \A i \in DOMAIN stack : stack[i].at > 0 /\ stack[i].name # NoName /\ Found[stack[i].name].guard # {} =>
       /\ Found[stack[i].name].guard \subseteq defined
       /\ stack[i].name \notin closed
       /\ \A j \in DOMAIN stack : j # i /\ stack[j].at > 0 => stack[j].name # stack[i].name

\* Every macro was defined by an opened header.
DefinedBy == \A macro \in defined \ Predefined : \E x \in Opened \ {NoName} : macro \in Defined[unit.path][x]

\* What the headers asked for that are open, and that were read to their end.
Passed ==
  \A j \in DOMAIN stack : \A k \in 1 .. stack[j].at - 1 : Due(Items(stack[j].name)[k]) =>
    \A h \in ToSet(Items(stack[j].name)[k].names) : (\E i \in 1 .. j - 1 : stack[i].name = h) \/ Settled(h)
AskedFor ==
  \A a \in closed : \A h \in IF a = NoName THEN ToSet(unit.asked) ELSE Leads(a) : Settled(h)

\* The headers above an open one are among those it leads to.
Chain ==
  \A j \in DOMAIN stack : stack[j].at > 0 /\ stack[j].name # NoName => \A i \in 1 .. j - 1 :
    stack[i].name # NoName /\ Reach[unit.path][stack[i].name] \subseteq Reach[unit.path][stack[j].name]

SureClosed == \A a \in closed \ {NoName} : Sure[unit.path][a] \subseteq closed

\* What First asks for has been read, or is about to be: it lies above on the stack in a
\* header that will be read to its end.
Sound(i) ==
  /\ stack[i].name # NoName /\ ~Hidable(stack[i].name)
  /\ \A j \in i + 1 .. Len(stack) : stack[j].at > 0 => stack[j].name # stack[i].name
FirstReady ==
  Prepared => \A j \in DOMAIN stack : stack[j].name \in DOMAIN First \ {NoName} =>
    \A h \in ToSet(First[stack[j].name]) :
      \/ h \in closed
      \/ stack[j].at = 0 /\ \E i \in 1 .. j - 1 : Sound(i) /\ With(unit.path, stack[i].name, h)

\* A unit that asks for no header of Missing is not stopped; a header of Missing is read
\* to its end only if the one that the package does not have is hidden.
Exposed == \E pair \in Hides : pair[1] \in Opened /\ pair[2] \notin DOMAIN Found
MissingStops ==
  /\ ToSet(unit.asked) \cap Missing = {} => failed = {} /\ \A i \in DOMAIN stack : stack[i].name \notin Missing
  /\ closed \cap Missing # {} => Exposed

HeadersInv ==
  FramesOK /\ OpenOnce /\ DefinedBy /\ Passed /\ AskedFor /\ Chain /\ SureClosed /\ FirstReady /\ MissingStops

(***************************************************************************)
(* What the actions do to the stack                                        *)
(***************************************************************************)
\* The names are opened above what remains of the innermost header; that is left.
Pushed(names) ==
  /\ Len(stack') = Len(names) + Len(stack)
  /\ \A i \in 1 .. Len(names) : stack'[i] = [name |-> names[i], at |-> 0]
  /\ stack'[Len(names) + 1] = [name |-> stack[1].name, at |-> stack[1].at + 1]
  /\ \A i \in 2 .. Len(stack) : stack'[Len(names) + i] = stack[i]
Dropped ==
  /\ Len(stack') = Len(stack) - 1
  /\ \A i \in 1 .. Len(stack') : stack'[i] = stack[i + 1]

Now == Items(stack[1].name)[stack[1].at]
Entered ==
  /\ stack[1].at = 0 /\ Pushed(<<>>)
  /\ ~(Found[stack[1].name].guard # {} /\ Found[stack[1].name].guard \subseteq defined)
  /\ defined' = defined \cup Found[stack[1].name].guard
  /\ closed' = closed
KeptOut ==
  /\ stack[1].at = 0 /\ Dropped
  /\ Found[stack[1].name].guard # {} /\ Found[stack[1].name].guard \subseteq defined
  /\ defined' = defined /\ closed' = closed
Advanced(names) ==
  /\ stack[1].at > 0 /\ stack[1].at <= Len(Items(stack[1].name))
  /\ Pushed(names) /\ closed' = closed
  /\ \/ /\ names = Now.names /\ Now.kind = "include" /\ Holds(Now.when, defined)
        /\ ToSet(names) \subseteq DOMAIN Found /\ defined' = defined
     \/ /\ names = <<>> /\ (Now.kind = "include" => ~Holds(Now.when, defined))
        /\ \/ defined' = defined
           \/ Now.kind = "define" /\ defined' = defined \cup ToSet(Now.names)
Ended ==
  /\ stack[1].at > Len(Items(stack[1].name)) /\ stack[1].at > 0 /\ Dropped
  /\ closed' = closed \cup {stack[1].name} /\ defined' = defined
Still == stack' = stack /\ defined' = defined /\ closed' = closed

\* The elements of a sequence.
LEMMA ToSetIs ==
  ASSUME NEW S, NEW s \in Seq(S)
  PROVE  /\ ToSet(s) \subseteq S /\ DOMAIN s = 1 .. Len(s) /\ Len(s) \in Nat
         /\ \A i \in 1 .. Len(s) : s[i] \in S /\ s[i] \in ToSet(s)
         /\ \A x \in ToSet(s) : \E i \in 1 .. Len(s) : s[i] = x
  BY DEF ToSet

\* An #include with no condition.
LEMMA GetIs ==
  ASSUME NEW names \in Seq(Name)
  PROVE  /\ Get(names) \in HeaderItem /\ Due(Get(names))
         /\ Get(names).kind = "include" /\ Get(names).names = names
<1>1. Get(names) = [kind |-> "include", when |-> Always, names |-> names, uses |-> {}]
  BY DEF Get, When
<1>2. Always = {<<{}, {}>>}
  BY DEF Always
<1>3. <<{}, {}>> \in (SUBSET STRING) \X (SUBSET STRING)
  OBVIOUS
<1>4. Always \in Condition
  BY <1>2, <1>3 DEF Condition
<1>5. Clear(<<{}, {}>>)
  BY DEF Clear
<1>6. Due(Get(names))
  BY <1>1, <1>2, <1>5 DEF Due
<1>7. Get(names) \in HeaderItem
  BY <1>1, <1>4 DEF HeaderItem
<1> QED
  BY <1>1, <1>6, <1>7

\* A sequence of one.
LEMMA Single ==
  ASSUME NEW S, NEW e \in S
  PROVE  << e >> \in Seq(S) /\ Len(<< e >>) = 1 /\ << e >>[1] = e
  OBVIOUS

\* What a frame's items are.
LEMMA ItemsTyped ==
  ASSUME unit \in Units, NEW name \in DOMAIN Found \cup {NoName}
  PROVE  /\ Items(name) \in Seq(HeaderItem)
         /\ name # NoName => Items(name) = Found[name].items /\ Found[name].guard \subseteq STRING
         /\ name = NoName => /\ Len(Items(name)) = 1
                         /\ Items(name)[1].kind = "include" /\ Items(name)[1].names = unit.asked
                         /\ Due(Items(name)[1]) /\ ToSet(unit.asked) \subseteq DOMAIN Found
<1>1. unit.path \in DOMAIN Paths /\ unit.asked \in Seq(DOMAIN Found) /\ DOMAIN Found \subseteq Name
      /\ Found \in [DOMAIN Found -> [guard : SUBSET STRING, items : Seq(HeaderItem)]]
  BY TablesTyped DEF Found
<1>2. CASE name # NoName
  <2>1. Found[name] \in [guard : SUBSET STRING, items : Seq(HeaderItem)]
    BY <1>1, <1>2
  <2> QED
    BY <1>2, <2>1 DEF Items
<1>3. CASE name = NoName
  <2>1. unit.asked \in Seq(Name)
    BY <1>1, SeqMonotonic
  <2>2. Items(name) = << Get(unit.asked) >>
    BY <1>3 DEF Items
  <2>3. Get(unit.asked) \in HeaderItem
    BY <2>1, GetIs
  <2>4. Items(name) \in Seq(HeaderItem) /\ Len(Items(name)) = 1 /\ Items(name)[1] = Get(unit.asked)
    BY <2>2, <2>3, Single
  <2>5. ToSet(unit.asked) \subseteq DOMAIN Found
    BY <1>1, ToSetIs
  <2> QED
    BY <1>3, <2>1, <2>4, <2>5, GetIs
<1> QED
  BY <1>2, <1>3

\* A stack that is not empty.
LEMMA StackShape ==
  ASSUME stack \in Seq(Frame), stack # <<>>
  PROVE  /\ Len(stack) \in Nat \ {0} /\ 1 \in DOMAIN stack /\ DOMAIN stack = 1 .. Len(stack)
         /\ Top = stack[1] /\ stack[1] \in Frame
         /\ Tail(stack) \in Seq(Frame) /\ Len(Tail(stack)) = Len(stack) - 1
         /\ \A i \in 1 .. Len(stack) - 1 : Tail(stack)[i] = stack[i + 1]
  BY DEF Top

\* One sequence after another.
LEMMA Joined ==
  ASSUME NEW S, NEW s \in Seq(S), NEW t \in Seq(S)
  PROVE  /\ s \o t \in Seq(S) /\ Len(s \o t) = Len(s) + Len(t)
         /\ \A i \in 1 .. Len(s) : (s \o t)[i] = s[i]
         /\ \A i \in 1 .. Len(t) : (s \o t)[Len(s) + i] = t[i]
  OBVIOUS

\* The innermost header goes on by an item, with the names opened above it.
LEMMA PushShape ==
  ASSUME stack \in Seq(Frame), stack # <<>>,
         NEW names \in Seq(Name), stack' = Frames(names) \o Rest
  PROVE  stack' \in Seq(Frame) /\ Pushed(names)
<1> DEFINE more == [Top EXCEPT !.at = @ + 1]
<1>1. more = [name |-> stack[1].name, at |-> stack[1].at + 1] /\ more \in Frame
  BY StackShape DEF Frame
<1> HIDE DEF more
<1>2. << more >> \in Seq(Frame) /\ Len(<< more >>) = 1 /\ << more >>[1] = more
  BY <1>1, Single
<1>3. Rest = << more >> \o Tail(stack)
  BY DEF Rest, more
<1>4. Rest \in Seq(Frame) /\ Len(Rest) = Len(stack) /\ Rest[1] = more
  BY <1>2, <1>3, StackShape, Joined
<1>5. ASSUME NEW i \in 2 .. Len(stack) PROVE Rest[i] = stack[i]
  <2>1. i - 1 \in 1 .. Len(stack) - 1 /\ 1 + (i - 1) = i /\ (i - 1) + 1 = i
    BY StackShape
  <2>2. Rest[i] = Tail(stack)[i - 1]
    BY <1>2, <1>3, <2>1, StackShape, Joined
  <2> QED
    BY <2>1, <2>2, StackShape
<1>6. /\ Frames(names) \in Seq(Frame) /\ Len(Frames(names)) = Len(names)
      /\ \A i \in 1 .. Len(names) : Frames(names)[i] = [name |-> names[i], at |-> 0]
  <2>1. DOMAIN names = 1 .. Len(names) /\ Len(names) \in Nat
    OBVIOUS
  <2>2. \A i \in 1 .. Len(names) : [name |-> names[i], at |-> 0] \in Frame
    BY ElementOfSeq DEF Frame, Names
  <2> QED
    BY <2>1, <2>2 DEF Frames
<1> DEFINE opened == Frames(names)
           rest == Rest
<1>7. /\ stack' = opened \o rest /\ Len(opened) = Len(names) /\ Len(rest) = Len(stack)
      /\ opened \in Seq(Frame) /\ rest \in Seq(Frame)
  BY <1>4, <1>6
<1> HIDE DEF opened, rest
<1>8. opened \o rest \in Seq(Frame) /\ Len(opened \o rest) = Len(opened) + Len(rest)
  BY <1>7, Joined, Zenon
<1>9. /\ stack' \in Seq(Frame) /\ Len(stack') = Len(names) + Len(stack)
      /\ \A i \in 1 .. Len(names) : stack'[i] = opened[i]
      /\ \A i \in 1 .. Len(stack) : stack'[Len(names) + i] = rest[i]
  BY <1>7, <1>8
<1> USE DEF opened, rest
<1>10. 1 \in 1 .. Len(stack) /\ \A i \in 2 .. Len(stack) : i \in 1 .. Len(stack)
  BY StackShape
<1>11. stack'[Len(names) + 1] = [name |-> stack[1].name, at |-> stack[1].at + 1]
  BY <1>1, <1>4, <1>9, <1>10
<1>12. ASSUME NEW i \in 2 .. Len(stack) PROVE stack'[Len(names) + i] = stack[i]
  <2>1. stack'[Len(names) + i] = Rest[i]
    BY <1>9, <1>10
  <2> QED
    BY <1>5, <2>1
<1> QED
  BY <1>6, <1>9, <1>11, <1>12 DEF Pushed

\* The actions, by what they do to the stack.
LEMMA StepShapes ==
  ASSUME FramesOK, Next
  PROVE  /\ stack # <<>> /\ unit' = unit /\ failed = {} /\ stack' \in Seq(Frame)
         /\ \/ (Still /\ NotFound)
            \/ failed' = failed /\ (Entered \/ KeptOut \/ Ended \/ \E names \in Seq(Name) : Advanced(names))
<1>1. stack # <<>> /\ failed = {} /\ stack \in Seq(Frame) /\ unit \in Units
  BY DEF FramesOK, Next, Begin, Include, NotFound, Skip, Read, DefineOne, End, Next1, Begun, Reading
<1>2. /\ Top = stack[1] /\ stack[1] \in Frame /\ 1 \in DOMAIN stack
      /\ Tail(stack) \in Seq(Frame) /\ Len(Tail(stack)) = Len(stack) - 1
      /\ \A i \in 1 .. Len(stack) - 1 : Tail(stack)[i] = stack[i + 1]
  BY <1>1, StackShape
<1>3. stack[1].name \in DOMAIN Found \cup {NoName} /\ stack[1].at \in Nat
  BY <1>2 DEF FramesOK, Frame
<1>4. ASSUME stack' = Tail(stack) PROVE stack' \in Seq(Frame) /\ Dropped
  BY <1>2, <1>4 DEF Dropped
<1>5. ASSUME stack' = Rest PROVE stack' \in Seq(Frame) /\ Pushed(<<>>)
  <2>1. <<>> \in Seq(Name) /\ Frames(<<>>) = <<>>
    BY DEF Frames
  <2>2. Rest \in Seq(Frame)
    <3>1. [Top EXCEPT !.at = @ + 1] \in Frame
      BY <1>2 DEF Frame
    <3> QED
      BY <1>2, <3>1, Single, Joined DEF Rest
  <2>3. stack' = Frames(<<>>) \o Rest
    BY <1>5, <2>1, <2>2
  <2> QED
    BY <1>1, <2>1, <2>3, PushShape
<1>6. CASE Begin
  <2>1. stack[1].at = 0 /\ unit' = unit /\ closed' = closed /\ failed' = failed /\ defined' = defined \cup Found[stack[1].name].guard
    BY <1>2, <1>6 DEF Begin, Guard
  <2>2. CASE GuardedOut
    <3>1. stack' = Tail(stack) /\ Found[stack[1].name].guard # {} /\ Found[stack[1].name].guard \subseteq defined
      BY <1>2, <1>6, <2>2 DEF Begin, GuardedOut, Guard
    <3> QED
      BY <1>1, <1>4, <2>1, <3>1 DEF KeptOut
  <2>3. CASE ~GuardedOut
    <3>1. stack' = Rest /\ ~(Found[stack[1].name].guard # {} /\ Found[stack[1].name].guard \subseteq defined)
      BY <1>2, <1>6, <2>3 DEF Begin, GuardedOut, Guard
    <3> QED
      BY <1>1, <1>5, <2>1, <3>1 DEF Entered
  <2> QED
    BY <2>2, <2>3
<1>7. ASSUME NEW kind, Next1(kind)
      PROVE  /\ stack[1].at > 0 /\ stack[1].at <= Len(Items(stack[1].name)) /\ Item = Now /\ Now.kind = kind
             /\ Now \in HeaderItem
  <2>1. stack[1].at > 0 /\ stack[1].at <= Len(Items(stack[1].name)) /\ Item = Now /\ Now.kind = kind
    BY <1>2, <1>7 DEF Next1, Begun, Item, Now
  <2>2. Items(stack[1].name) \in Seq(HeaderItem)
    BY <1>1, <1>3, ItemsTyped
  <2>3. stack[1].at \in 1 .. Len(Items(stack[1].name))
    <3>1. Len(Items(stack[1].name)) \in Nat
      BY <2>2, LenProperties
    <3>2. stack[1].at > 0 /\ stack[1].at <= Len(Items(stack[1].name)) /\ stack[1].at \in Nat
      BY <1>3, <2>1
    <3> QED
      BY <3>1, <3>2
  <2>4. Now \in HeaderItem
    BY <2>2, <2>3, ElementOfSeq DEF Now
  <2> QED
    BY <2>1, <2>4
<1>8. CASE Include
  <2>1. Now \in HeaderItem /\ Now.kind = "include" /\ Item = Now /\ stack[1].at > 0 /\ stack[1].at <= Len(Items(stack[1].name))
    BY <1>7, <1>8 DEF Include
  <2>2. Now.names \in Seq(Name)
    BY <2>1 DEF HeaderItem
  <2>3. stack' \in Seq(Frame) /\ Pushed(Now.names)
    BY <1>1, <1>8, <2>1, <2>2, PushShape DEF Include
  <2>4. Advanced(Now.names)
    BY <1>8, <2>1, <2>3 DEF Include, Advanced
  <2> QED
    BY <1>1, <1>8, <2>2, <2>3, <2>4 DEF Include
<1>9. CASE NotFound
  BY <1>1, <1>9 DEF NotFound, Still
<1>10. <<>> \in Seq(Name)
  OBVIOUS
<1>11. CASE Skip
  <2>1. stack[1].at > 0 /\ stack[1].at <= Len(Items(stack[1].name)) /\ ~Holds(Now.when, defined)
    BY <1>7, <1>11 DEF Skip
  <2> QED
    BY <1>1, <1>5, <1>10, <1>11, <2>1 DEF Skip, Advanced
<1>12. CASE Read
  <2>1. stack[1].at > 0 /\ stack[1].at <= Len(Items(stack[1].name)) /\ Now.kind = "text"
    BY <1>7, <1>12 DEF Read
  <2> QED
    BY <1>1, <1>5, <1>10, <1>12, <2>1 DEF Read, Advanced
<1>13. CASE DefineOne
  <2>1. stack[1].at > 0 /\ stack[1].at <= Len(Items(stack[1].name)) /\ Now.kind = "define" /\ Item = Now
    BY <1>7, <1>13 DEF DefineOne
  <2> QED
    BY <1>1, <1>5, <1>10, <1>13, <2>1 DEF DefineOne, Advanced
<1>14. CASE End
  BY <1>1, <1>2, <1>4, <1>14 DEF End, Begun, Ended
<1> QED
  BY <1>6, <1>8, <1>9, <1>11, <1>12, <1>13, <1>14 DEF Next

\* Where a frame of the next stack comes from, and where a frame of this one goes to.
LEMMA PushedFrames ==
  ASSUME FramesOK, stack # <<>>, stack' \in Seq(Frame), NEW names \in Seq(Name), Pushed(names)
  PROVE  /\ \A i \in DOMAIN stack' :
              \/ i \in 1 .. Len(names) /\ stack'[i].name = names[i] /\ stack'[i].at = 0
              \/ \E j \in DOMAIN stack : /\ i = Len(names) + j /\ stack'[i].name = stack[j].name
                                         /\ stack'[i].at = IF j = 1 THEN stack[1].at + 1 ELSE stack[j].at
         /\ \A j \in DOMAIN stack : /\ Len(names) + j \in DOMAIN stack' /\ stack'[Len(names) + j].name = stack[j].name
                                    /\ stack'[Len(names) + j].at = IF j = 1 THEN stack[1].at + 1 ELSE stack[j].at
         /\ \A i \in 1 .. Len(names) : i \in DOMAIN stack' /\ stack'[i].name = names[i] /\ stack'[i].at = 0
<1>1. /\ stack \in Seq(Frame) /\ DOMAIN stack = 1 .. Len(stack) /\ Len(stack) \in Nat \ {0}
      /\ DOMAIN stack' = 1 .. Len(stack') /\ Len(stack') = Len(names) + Len(stack) /\ Len(names) \in Nat
  <2>1. stack \in Seq(Frame)
    BY DEF FramesOK
  <2>2. DOMAIN stack = 1 .. Len(stack) /\ Len(stack) \in Nat \ {0}
    BY <2>1, StackShape
  <2>3. DOMAIN stack' = 1 .. Len(stack') /\ Len(names) \in Nat
    BY LenProperties
  <2> QED
    BY <2>1, <2>2, <2>3 DEF Pushed
<1>2. ASSUME NEW j \in DOMAIN stack
      PROVE  /\ Len(names) + j \in DOMAIN stack' /\ stack'[Len(names) + j].name = stack[j].name
             /\ stack'[Len(names) + j].at = IF j = 1 THEN stack[1].at + 1 ELSE stack[j].at
  <2>1. Len(names) + j \in DOMAIN stack'
    BY <1>1
  <2>2. CASE j = 1
    BY <2>1, <2>2 DEF Pushed
  <2>3. CASE j # 1
    <3>1. j \in 2 .. Len(stack)
      BY <1>1, <2>3
    <3> QED
      BY <2>1, <2>3, <3>1 DEF Pushed
  <2> QED
    BY <2>2, <2>3
<1>3. ASSUME NEW i \in 1 .. Len(names)
      PROVE  i \in DOMAIN stack' /\ stack'[i].name = names[i] /\ stack'[i].at = 0
  <2>1. i \in DOMAIN stack'
    BY <1>1
  <2>2. stack'[i] = [name |-> names[i], at |-> 0]
    BY DEF Pushed
  <2> QED
    BY <2>1, <2>2
<1>4. ASSUME NEW i \in DOMAIN stack', i \notin 1 .. Len(names)
      PROVE  \E j \in DOMAIN stack : i = Len(names) + j
  <2>1. i - Len(names) \in DOMAIN stack /\ i = Len(names) + (i - Len(names))
    BY <1>1, <1>4
  <2> QED
    BY <2>1
<1> QED
  BY <1>2, <1>3, <1>4

LEMMA DroppedFrames ==
  ASSUME FramesOK, stack # <<>>, stack' \in Seq(Frame), Dropped
  PROVE  /\ \A i \in DOMAIN stack' : i + 1 \in DOMAIN stack /\ stack'[i] = stack[i + 1]
         /\ \A j \in DOMAIN stack \ {1} : j - 1 \in DOMAIN stack' /\ stack'[j - 1] = stack[j]
<1>1. /\ stack \in Seq(Frame) /\ DOMAIN stack = 1 .. Len(stack) /\ Len(stack) \in Nat \ {0}
      /\ DOMAIN stack' = 1 .. Len(stack') /\ Len(stack') = Len(stack) - 1
  <2>1. stack \in Seq(Frame)
    BY DEF FramesOK
  <2>2. DOMAIN stack = 1 .. Len(stack) /\ Len(stack) \in Nat \ {0}
    BY <2>1, StackShape
  <2>3. DOMAIN stack' = 1 .. Len(stack')
    BY LenProperties
  <2> QED
    BY <2>1, <2>2, <2>3 DEF Dropped
<1>2. \A i \in DOMAIN stack' : i + 1 \in DOMAIN stack /\ stack'[i] = stack[i + 1]
  BY <1>1 DEF Dropped
<1>3. \A j \in DOMAIN stack \ {1} : j - 1 \in DOMAIN stack' /\ (j - 1) + 1 = j
  BY <1>1
<1> QED
  BY <1>2, <1>3

(***************************************************************************)
(* The stack                                                               *)
(***************************************************************************)
LEMMA FrameTypes ==
  ASSUME FramesOK
  PROVE  /\ DOMAIN stack = 1 .. Len(stack) /\ Len(stack) \in Nat
         /\ \A i \in DOMAIN stack :
              /\ i \in Nat /\ stack[i] \in Frame /\ stack[i].at \in Nat
              /\ stack[i].name \in DOMAIN Found \cup {NoName} /\ stack[i].name \in Names
              /\ stack[i].at <= Len(Items(stack[i].name)) + 1 /\ (stack[i].name = NoName => stack[i].at > 0)
<1>1. stack \in Seq(Frame)
  BY DEF FramesOK
<1>2. DOMAIN stack = 1 .. Len(stack) /\ Len(stack) \in Nat
  BY <1>1, LenProperties
<1>3. ASSUME NEW i \in DOMAIN stack PROVE i \in Nat /\ stack[i] \in Frame
  BY <1>1, <1>2, ElementOfSeq
<1>4. \A f \in Frame : f.name \in Names /\ f.at \in Nat
  BY DEF Frame
<1> QED
  BY <1>2, <1>3, <1>4 DEF FramesOK

\* What was opened stays so.
LEMMA Grows ==
  ASSUME FramesOK, Next
  PROVE  Opened \subseteq Opened' /\ closed \subseteq closed' /\ \A h : Settled(h) => Settled(h)'
<1>1. /\ stack # <<>> /\ stack' \in Seq(Frame)
      /\ Still \/ Entered \/ KeptOut \/ Ended \/ \E names \in Seq(Name) : Advanced(names)
  BY StepShapes
<1>2. closed \subseteq closed'
  BY <1>1 DEF Still, Entered, KeptOut, Ended, Advanced
<1>3. \A i \in DOMAIN stack : i \in Nat /\ stack[i].at \in Nat
  BY FrameTypes
<1>4. ASSUME NEW i \in DOMAIN stack, stack[i].at > 0
      PROVE  stack[i].name \in closed' \/ \E k \in DOMAIN stack' : stack'[k].at > 0 /\ stack'[k].name = stack[i].name
  <2>1. ASSUME NEW names \in Seq(Name), Pushed(names)
        PROVE  \E k \in DOMAIN stack' : stack'[k].at > 0 /\ stack'[k].name = stack[i].name
    <3>1. /\ Len(names) + i \in DOMAIN stack' /\ stack'[Len(names) + i].name = stack[i].name
          /\ stack'[Len(names) + i].at = IF i = 1 THEN stack[1].at + 1 ELSE stack[i].at
      BY <1>1, <2>1, PushedFrames
    <3>2. stack'[Len(names) + i].at > 0
      BY <1>3, <1>4, <3>1
    <3> QED
      BY <3>1, <3>2
  <2>2. ASSUME Dropped, i # 1
        PROVE  \E k \in DOMAIN stack' : stack'[k].at > 0 /\ stack'[k].name = stack[i].name
    BY <1>1, <1>4, <2>2, DroppedFrames
  <2>3. CASE Still
    BY <1>4, <2>3 DEF Still
  <2>4. CASE Entered
    <3>1. <<>> \in Seq(Name)
      OBVIOUS
    <3> QED
      BY <2>1, <2>4, <3>1 DEF Entered
  <2>5. CASE KeptOut
    BY <1>4, <2>2, <2>5 DEF KeptOut
  <2>6. CASE Ended
    BY <2>2, <2>6 DEF Ended
  <2>7. CASE \E names \in Seq(Name) : Advanced(names)
    BY <2>1, <2>7 DEF Advanced
  <2> QED
    BY <1>1, <2>3, <2>4, <2>5, <2>6, <2>7
<1>5. Opened \subseteq Opened'
  BY <1>2, <1>4 DEF Opened
<1>6. ASSUME NEW h, Settled(h) PROVE Settled(h)'
  BY <1>5, <1>6 DEF Settled
<1> QED
  BY <1>2, <1>5, <1>6

\* FramesOK holds initially, and is kept.
LEMMA FramesInit == Init => FramesOK
<1> SUFFICES ASSUME Init PROVE FramesOK
  OBVIOUS
<1> DEFINE line == [name |-> NoName, at |-> 1]
<1>1. line \in Frame /\ line.name = NoName /\ line.at = 1
  <2>1. NoName \in Names
    BY DEF Names
  <2> QED
    BY <2>1 DEF Frame
<1> HIDE DEF line
<1>2. stack = << line >> /\ unit \in Units /\ defined = Predefined /\ closed = {}
  BY DEF Init, line
<1>3. stack \in Seq(Frame) /\ DOMAIN stack = 1 .. 1 /\ stack[1] = line
  BY <1>1, <1>2, Single, LenProperties
<1>4. Len(Items(NoName)) = 1
  BY <1>2, ItemsTyped
<1>5. NoName \in Opened
  <2>1. 1 \in DOMAIN stack /\ stack[1].at > 0 /\ stack[1].name = NoName
    BY <1>1, <1>3
  <2> QED
    BY <2>1 DEF Opened
<1>6. \A i \in DOMAIN stack : stack[i] = line
  BY <1>3
<1> QED
  BY <1>1, <1>2, <1>3, <1>4, <1>5, <1>6 DEF FramesOK

LEMMA FramesNext == FramesOK /\ Next => FramesOK'
<1> SUFFICES ASSUME FramesOK, Next PROVE FramesOK'
  OBVIOUS
<1>1. /\ stack # <<>> /\ stack' \in Seq(Frame) /\ unit' = unit
      /\ Still \/ Entered \/ KeptOut \/ Ended \/ \E names \in Seq(Name) : Advanced(names)
  BY StepShapes
<1>2. Found' = Found /\ \A name : Items(name)' = Items(name)
  BY <1>1 DEF Found, Items
<1>3. unit' \in Units /\ Predefined \subseteq defined'
  BY <1>1 DEF FramesOK, Still, Entered, KeptOut, Ended, Advanced
<1>4. /\ 1 \in DOMAIN stack
      /\ \A i \in DOMAIN stack : /\ stack[i].name \in DOMAIN Found \cup {NoName} /\ stack[i].at \in Nat
                                 /\ stack[i].at <= Len(Items(stack[i].name)) + 1
                                 /\ stack[i].name = NoName => stack[i].at > 0
  <2>1. 1 \in DOMAIN stack
    BY <1>1, StackShape DEF FramesOK
  <2> QED
    BY <2>1, FrameTypes
<1>5. closed' \subseteq DOMAIN Found \cup {NoName}
  BY <1>1, <1>4 DEF FramesOK, Still, Entered, KeptOut, Ended, Advanced
<1>6. \A name \in DOMAIN Found \cup {NoName} : Len(Items(name)) \in Nat
  <2>1. \A name \in DOMAIN Found \cup {NoName} : Items(name) \in Seq(HeaderItem)
    BY ItemsTyped DEF FramesOK
  <2> QED
    BY <2>1, LenProperties
<1> DEFINE Fits(name, at) ==
      name \in DOMAIN Found \cup {NoName} /\ at <= Len(Items(name)) + 1 /\ (name = NoName => at > 0)
<1>7. ASSUME NEW i \in DOMAIN stack' PROVE Fits(stack'[i].name, stack'[i].at)
  <2>1. ASSUME NEW names \in Seq(Name), Pushed(names), ToSet(names) \subseteq DOMAIN Found,
               stack[1].at <= Len(Items(stack[1].name)) \/ stack[1].at = 0
        PROVE  Fits(stack'[i].name, stack'[i].at)
    <3>1. CASE i \in 1 .. Len(names) /\ stack'[i].name = names[i] /\ stack'[i].at = 0
      <4>1. names[i] \in DOMAIN Found /\ names[i] # NoName
        <5>1. names[i] \in Name /\ names[i] \in ToSet(names)
          BY <3>1, ToSetIs
        <5> QED
          BY <2>1, <5>1 DEF Name
      <4>2. Len(Items(names[i])) \in Nat
        BY <1>6, <4>1
      <4>3. Fits(names[i], 0)
        BY <4>1, <4>2
      <4> HIDE DEF Fits
      <4> QED
        BY <3>1, <4>3
    <3>2. ASSUME NEW j \in DOMAIN stack, stack'[i].name = stack[j].name,
                 stack'[i].at = IF j = 1 THEN stack[1].at + 1 ELSE stack[j].at
          PROVE  Fits(stack'[i].name, stack'[i].at)
      <4>1. Len(Items(stack[j].name)) \in Nat
        BY <1>4, <1>6
      <4>2. Fits(stack[j].name, stack[j].at)
        BY <1>4
      <4>3. j = 1 => Fits(stack[1].name, stack[1].at + 1)
        BY <1>4, <2>1, <4>1
      <4> HIDE DEF Fits
      <4> QED
        BY <3>2, <4>2, <4>3
    <3> QED
      BY <1>1, <2>1, <3>1, <3>2, PushedFrames
  <2>2. CASE Still
    BY <1>4, <2>2 DEF Still
  <2>3. CASE Entered
    <3>1. <<>> \in Seq(Name) /\ ToSet(<<>>) = {}
      BY DEF ToSet
    <3> QED
      BY <2>1, <2>3, <3>1 DEF Entered
  <2>4. CASE KeptOut \/ Ended
    BY <1>1, <1>4, <2>4, DroppedFrames DEF KeptOut, Ended
  <2>5. ASSUME NEW names \in Seq(Name), Advanced(names) PROVE Fits(stack'[i].name, stack'[i].at)
    <3>1. ToSet(names) \subseteq DOMAIN Found
      BY <2>5 DEF Advanced, ToSet
    <3> QED
      BY <2>1, <2>5, <3>1 DEF Advanced
  <2> QED
    BY <1>1, <2>2, <2>3, <2>4, <2>5
<1>8. NoName \in Opened'
  BY Grows DEF FramesOK
<1> QED
  BY <1>1, <1>2, <1>3, <1>5, <1>7, <1>8 DEF FramesOK

(***************************************************************************)
(* What has been opened and defined                                        *)
(***************************************************************************)
\* The innermost header passes its guard.
LEMMA EnteredFrames ==
  ASSUME FramesOK, stack # <<>>, stack' \in Seq(Frame), Entered
  PROVE  /\ 1 \in DOMAIN stack /\ DOMAIN stack' = DOMAIN stack
         /\ stack[1].name \in DOMAIN Found /\ stack[1].name # NoName
         /\ \A i \in DOMAIN stack : /\ stack'[i].name = stack[i].name
                                    /\ stack'[i].at = IF i = 1 THEN 1 ELSE stack[i].at
<1> DEFINE none == <<>>
<1>1. none \in Seq(Name) /\ Len(none) = 0 /\ Pushed(none) /\ stack[1].at = 0
  BY DEF Entered
<1> HIDE DEF none
<1>2. \A i \in DOMAIN stack : i \in Nat /\ 0 + i = i
  BY FrameTypes
<1>3. ASSUME NEW i \in DOMAIN stack
      PROVE  /\ i \in DOMAIN stack' /\ stack'[i].name = stack[i].name
             /\ stack'[i].at = IF i = 1 THEN 1 ELSE stack[i].at
  <2>1. /\ Len(none) + i \in DOMAIN stack' /\ stack'[Len(none) + i].name = stack[i].name
        /\ stack'[Len(none) + i].at = IF i = 1 THEN stack[1].at + 1 ELSE stack[i].at
    BY <1>1, PushedFrames
  <2> QED
    BY <1>1, <1>2, <2>1
<1>4. ASSUME NEW i \in DOMAIN stack' PROVE i \in DOMAIN stack
  <2>1. \A k \in DOMAIN stack' :
          \/ k \in 1 .. Len(none) /\ stack'[k].name = none[k] /\ stack'[k].at = 0
          \/ \E j \in DOMAIN stack : /\ k = Len(none) + j /\ stack'[k].name = stack[j].name
                                     /\ stack'[k].at = IF j = 1 THEN stack[1].at + 1 ELSE stack[j].at
    <3>1. none \in Seq(Name) /\ Pushed(none)
      BY <1>1
    <3> QED
      BY <3>1, PushedFrames
  <2>2. i \notin 1 .. Len(none)
    BY <1>1
  <2>3. PICK j \in DOMAIN stack : i = Len(none) + j
    BY <2>1, <2>2
  <2>4. Len(none) + j = j
    BY <1>1, <1>2
  <2> QED
    BY <2>3, <2>4
<1>5. 1 \in DOMAIN stack
  BY StackShape DEF FramesOK
<1>6. stack[1].name \in DOMAIN Found /\ stack[1].name # NoName
  BY <1>1, <1>5, FrameTypes
<1> QED
  BY <1>3, <1>4, <1>5, <1>6

\* The innermost header is open, and goes on by an item of its own.
LEMMA AdvancedFrame ==
  ASSUME FramesOK, stack # <<>>, NEW names, Advanced(names)
  PROVE  /\ 1 \in DOMAIN stack /\ stack[1].at > 0 /\ stack[1].at \in 1 .. Len(Items(stack[1].name))
         /\ stack[1].name \in Opened /\ Now \in HeaderItem /\ Now \in ToSet(Items(stack[1].name))
<1>1. 1 \in DOMAIN stack
  BY StackShape DEF FramesOK
<1>2. stack[1].name \in DOMAIN Found \cup {NoName} /\ stack[1].at \in Nat
  BY <1>1, FrameTypes
<1>3. Items(stack[1].name) \in Seq(HeaderItem)
  BY <1>2, ItemsTyped DEF FramesOK
<1>4. Len(Items(stack[1].name)) \in Nat
  BY <1>3, LenProperties
<1>5. stack[1].at > 0 /\ stack[1].at \in 1 .. Len(Items(stack[1].name))
  BY <1>2, <1>4 DEF Advanced
<1>6. Now \in HeaderItem /\ Now \in ToSet(Items(stack[1].name))
  BY <1>3, <1>5, ToSetIs DEF Now
<1> QED
  BY <1>1, <1>5, <1>6 DEF Opened

\* OpenOnce holds initially, and is kept.
LEMMA OpenOnceInit == Init => OpenOnce
<1> SUFFICES ASSUME Init PROVE OpenOnce
  OBVIOUS
<1>1. closed = {} /\ \A i \in DOMAIN stack : stack[i].name = NoName
  BY DEF Init
<1> QED
  BY <1>1 DEF OpenOnce

LEMMA OpenOnceNext == FramesOK /\ OpenOnce /\ Next => OpenOnce'
<1> SUFFICES ASSUME FramesOK, OpenOnce, Next PROVE OpenOnce'
  OBVIOUS
<1>1. /\ stack # <<>> /\ stack' \in Seq(Frame) /\ unit' = unit
      /\ Still \/ Entered \/ KeptOut \/ Ended \/ \E names \in Seq(Name) : Advanced(names)
  BY StepShapes
<1>2. Found' = Found
  BY <1>1 DEF Found
<1> DEFINE Guarded(i) == stack[i].at > 0 /\ stack[i].name # NoName /\ Found[stack[i].name].guard # {}
           guard(i) == Found[stack[i].name].guard
<1>3. ASSUME NEW i \in DOMAIN stack, Guarded(i)
      PROVE  /\ guard(i) \subseteq defined /\ stack[i].name \notin closed
             /\ \A j \in DOMAIN stack : j # i /\ stack[j].at > 0 => stack[j].name # stack[i].name
  BY <1>3 DEF OpenOnce
<1>4. \A a \in closed \ {NoName} : Found[a].guard \subseteq defined
  BY DEF OpenOnce
<1>5. \A i \in DOMAIN stack : i \in Nat
  BY FrameTypes
<1>6. CASE Still
  BY <1>1, <1>2, <1>6 DEF Still, OpenOnce
<1>7. CASE Entered
  <2>1. /\ 1 \in DOMAIN stack /\ DOMAIN stack' = DOMAIN stack
        /\ \A i \in DOMAIN stack : stack'[i].name = stack[i].name /\ stack'[i].at = IF i = 1 THEN 1 ELSE stack[i].at
    BY <1>1, <1>7, EnteredFrames
  <2>2. closed' = closed /\ defined' = defined \cup guard(1) /\ ~(guard(1) # {} /\ guard(1) \subseteq defined)
        /\ stack[1].name # NoName
    BY <1>1, <1>7, EnteredFrames DEF Entered
  <2>3. ASSUME NEW i \in DOMAIN stack, i = 1 \/ stack[i].at > 0, stack[i].name # NoName, guard(i) # {},
               NEW j \in DOMAIN stack, j # i, j = 1 \/ stack[j].at > 0
        PROVE  stack[j].name # stack[i].name
    <3>1. CASE i # 1 /\ j # 1
      BY <1>3, <2>3, <3>1
    <3>2. CASE i = 1 \/ j = 1
      <4>1. ASSUME NEW k \in DOMAIN stack, k # 1, stack[k].at > 0, stack[k].name = stack[1].name, guard(1) # {} PROVE FALSE
        BY <1>3, <2>2, <4>1
      <4> QED
        BY <2>3, <3>2, <4>1
    <3> QED
      BY <3>1, <3>2
  <2>4. ASSUME NEW i \in DOMAIN stack, i = 1 \/ stack[i].at > 0, stack[i].name # NoName, guard(i) # {}
        PROVE  guard(i) \subseteq defined' /\ stack[i].name \notin closed'
    BY <1>3, <1>4, <2>2, <2>4
  <2> QED
    BY <1>2, <1>4, <2>1, <2>2, <2>3, <2>4 DEF OpenOnce
<1>8. CASE \E names \in Seq(Name) : Advanced(names)
  <2>1. PICK names \in Seq(Name) : Advanced(names)
    BY <1>8
  <2>2. closed' = closed /\ defined \subseteq defined'
    BY <2>1 DEF Advanced
  <2>3. stack[1].at > 0
    BY <1>1, <2>1, AdvancedFrame
  <2>4. ASSUME NEW i \in DOMAIN stack', stack'[i].at > 0
        PROVE  \E j \in DOMAIN stack : i = Len(names) + j /\ stack'[i].name = stack[j].name /\ stack[j].at > 0
    BY <1>1, <2>1, <2>3, <2>4, PushedFrames DEF Advanced
  <2>5. ASSUME NEW i \in DOMAIN stack', stack'[i].at > 0, stack'[i].name # NoName, Found[stack'[i].name].guard # {}
        PROVE  /\ Found[stack'[i].name].guard \subseteq defined' /\ stack'[i].name \notin closed'
               /\ \A j \in DOMAIN stack' : j # i /\ stack'[j].at > 0 => stack'[j].name # stack'[i].name
    <3>1. PICK k \in DOMAIN stack : i = Len(names) + k /\ stack'[i].name = stack[k].name /\ stack[k].at > 0
      BY <2>4, <2>5
    <3>2. ASSUME NEW j \in DOMAIN stack', j # i, stack'[j].at > 0 PROVE stack'[j].name # stack'[i].name
      <4>1. PICK m \in DOMAIN stack : j = Len(names) + m /\ stack'[j].name = stack[m].name /\ stack[m].at > 0
        BY <2>4, <3>2
      <4> QED
        BY <1>3, <2>5, <3>1, <3>2, <4>1
    <3> QED
      BY <1>3, <2>2, <2>5, <3>1, <3>2
  <2> QED
    BY <1>2, <1>4, <2>2, <2>5 DEF OpenOnce
<1>9. CASE KeptOut \/ Ended
  <2>1. \A i \in DOMAIN stack' : i + 1 \in DOMAIN stack /\ stack'[i] = stack[i + 1]
    BY <1>1, <1>9, DroppedFrames DEF KeptOut, Ended
  <2>2. defined' = defined /\ 1 \in DOMAIN stack /\ (closed' = closed \/ (closed' = closed \cup {stack[1].name} /\ stack[1].at > 0))
    <3>1. 1 \in DOMAIN stack
      BY <1>1, StackShape DEF FramesOK
    <3> QED
      BY <1>9, <3>1 DEF KeptOut, Ended
  <2>3. \A i \in DOMAIN stack' : i \in Nat /\ i + 1 # 1
    <3>1. \A i \in DOMAIN stack' : i \in Nat \ {0}
      BY <1>1, LenProperties
    <3> QED
      BY <3>1
  <2>4. ASSUME NEW i \in DOMAIN stack', stack'[i].at > 0, stack'[i].name # NoName, Found[stack'[i].name].guard # {}
        PROVE  /\ Found[stack'[i].name].guard \subseteq defined' /\ stack'[i].name \notin closed'
               /\ \A j \in DOMAIN stack' : j # i /\ stack'[j].at > 0 => stack'[j].name # stack'[i].name
    <3>1. i + 1 \in DOMAIN stack /\ Guarded(i + 1) /\ stack'[i].name = stack[i + 1].name
      BY <2>1, <2>4
    <3>2. ASSUME NEW j \in DOMAIN stack', j # i, stack'[j].at > 0 PROVE stack'[j].name # stack'[i].name
      <4>1. j + 1 \in DOMAIN stack /\ j + 1 # i + 1 /\ stack[j + 1].at > 0 /\ stack'[j].name = stack[j + 1].name
        BY <2>1, <2>3, <3>2
      <4> QED
        BY <1>3, <3>1, <4>1
    <3> QED
      BY <1>3, <2>2, <2>3, <3>1, <3>2
  <2>5. ASSUME NEW a \in closed' \ {NoName} PROVE Found[a].guard \subseteq defined'
    <3>1. CASE a \in closed
      BY <1>4, <2>2, <2>5, <3>1
    <3>2. CASE a = stack[1].name /\ stack[1].at > 0
      BY <1>3, <2>2, <2>5, <3>2
    <3> QED
      BY <2>2, <3>1, <3>2
  <2> QED
    BY <1>2, <2>4, <2>5 DEF OpenOnce
<1> QED
  BY <1>1, <1>6, <1>7, <1>8, <1>9

\* The macros of a header.
LEMMA DefinedIs ==
  ASSUME unit \in Units, NEW c \in DOMAIN Found
  PROVE  /\ Defined[unit.path][c] = DefinedIn(Found[c]) /\ Found[c].guard \subseteq Defined[unit.path][c]
         /\ \A item \in ToSet(Found[c].items) : item.kind = "define" => ToSet(item.names) \subseteq Defined[unit.path][c]
         /\ Defined[unit.path][c] \subseteq Macros[unit.path] /\ Predefined \subseteq Macros[unit.path]
<1>1. unit.path \in DOMAIN Paths /\ c \in DOMAIN Paths[unit.path] /\ Found = Paths[unit.path]
  BY TablesTyped DEF Found
<1>2. Defined[unit.path][c] = DefinedIn(Found[c])
  BY <1>1 DEF Defined
<1>3. /\ Found[c].guard \subseteq DefinedIn(Found[c])
      /\ \A item \in ToSet(Found[c].items) : item.kind = "define" => ToSet(item.names) \subseteq DefinedIn(Found[c])
  BY DEF DefinedIn
<1>4. Found[c] \in Range(Paths[unit.path])
  BY <1>1 DEF Range
<1>5. Macros[unit.path] = Predefined \cup UNION {DefinedIn(header) : header \in Range(Paths[unit.path])}
  BY <1>1 DEF Macros
<1> QED
  BY <1>2, <1>3, <1>4, <1>5

\* DefinedBy holds initially, and is kept.
LEMMA DefinedByInit == Init => DefinedBy
  BY DEF Init, DefinedBy

LEMMA DefinedByNext == FramesOK /\ DefinedBy /\ Next => DefinedBy'
<1> SUFFICES ASSUME FramesOK, DefinedBy, Next PROVE DefinedBy'
  OBVIOUS
<1>1. /\ stack # <<>> /\ stack' \in Seq(Frame) /\ unit' = unit
      /\ Still \/ Entered \/ KeptOut \/ Ended \/ \E names \in Seq(Name) : Advanced(names)
  BY StepShapes
<1>2. Opened \subseteq Opened' /\ unit \in Units
  BY Grows DEF FramesOK
<1>3. ASSUME NEW macro \in defined' \ Predefined, macro \notin defined
      PROVE  \E x \in Opened' \ {NoName} : macro \in Defined[unit.path][x]
  <2>1. CASE Entered
    <3>1. macro \in Found[stack[1].name].guard
      BY <1>3, <2>1 DEF Entered
    <3>2. /\ 1 \in DOMAIN stack' /\ stack'[1].at > 0 /\ stack'[1].name = stack[1].name
          /\ stack[1].name \in DOMAIN Found /\ stack[1].name # NoName
      BY <1>1, <2>1, EnteredFrames
    <3>3. stack[1].name \in Opened'
      BY <3>2 DEF Opened
    <3> QED
      BY <1>2, <3>1, <3>2, <3>3, DefinedIs
  <2>2. ASSUME NEW names \in Seq(Name), Advanced(names)
        PROVE  \E x \in Opened' \ {NoName} : macro \in Defined[unit.path][x]
    <3>1. Now.kind = "define" /\ macro \in ToSet(Now.names)
      BY <1>3, <2>2 DEF Advanced
    <3>2. /\ stack[1].at \in 1 .. Len(Items(stack[1].name)) /\ stack[1].name \in Opened
          /\ Now \in ToSet(Items(stack[1].name)) /\ 1 \in DOMAIN stack
      BY <1>1, <2>2, AdvancedFrame
    <3>3. stack[1].name # NoName
      <4>1. SUFFICES ASSUME stack[1].name = NoName PROVE FALSE
        OBVIOUS
      <4>2. Len(Items(stack[1].name)) = 1 /\ Items(stack[1].name)[1].kind = "include"
        BY <1>2, <4>1, ItemsTyped
      <4>3. stack[1].at = 1
        BY <3>2, <4>2
      <4> QED
        BY <3>1, <4>2, <4>3 DEF Now
    <3>4. stack[1].name \in DOMAIN Found
      BY <3>2, <3>3, FrameTypes
    <3>5. Items(stack[1].name) = Found[stack[1].name].items
      BY <3>3 DEF Items
    <3> QED
      BY <1>2, <3>1, <3>2, <3>3, <3>4, <3>5, DefinedIs
  <2> QED
    BY <1>1, <1>3, <2>1, <2>2 DEF Still, KeptOut, Ended
<1>4. ASSUME NEW macro \in defined \ Predefined
      PROVE  \E x \in Opened' \ {NoName} : macro \in Defined[unit.path][x]
  BY <1>2 DEF DefinedBy
<1>5. (Defined[unit.path])' = Defined[unit.path]
  BY <1>1 DEF Defined
<1> QED
  BY <1>1, <1>3, <1>4, <1>5 DEF DefinedBy

\* What was opened is found along the path, or is the program.
LEMMA OpenedNamed == FramesOK => Opened \subseteq DOMAIN Found \cup {NoName}
  BY DEF FramesOK, Opened

\* A header that its guard keeps out was opened, or is hidden by one that was.
LEMMA GuardedSettled ==
  ASSUME FramesOK, DefinedBy, NEW c \in DOMAIN Found, Found[c].guard # {}, Found[c].guard \subseteq defined
  PROVE  Settled(c)
<1>1. unit.path \in DOMAIN Paths /\ Found = Paths[unit.path]
  BY TablesTyped DEF FramesOK, Found
<1>2. PICK macro \in Found[c].guard \ Predefined : Own(unit.path, macro, c)
  BY <1>1, GuardsOwn
<1>3. PICK x \in Opened \ {NoName} : macro \in Defined[unit.path][x]
  BY <1>2 DEF DefinedBy
<1>4. x = c \/ <<x, c>> \in Hides
  BY <1>1, <1>2, <1>3, OpenedNamed DEF Own
<1> QED
  BY <1>3, <1>4 DEF Settled

\* The program's own #include lines have no condition.
LEMMA AskedHolds ==
  ASSUME NEW item \in ToSet(Items(NoName)), NEW macros
  PROVE  Holds(item.when, macros)
<1>1. item = Get(unit.asked)
  BY DEF Items, ToSet
<1>2. item.when = {<<{}, {}>>}
  BY <1>1 DEF Get, When, Always
<1> QED
  BY <1>2 DEF Holds

\* What an #include is skipped for was opened, or is hidden by one that was.
LEMMA SkippedSettled ==
  ASSUME FramesOK, DefinedBy, NEW a \in DOMAIN Found \cup {NoName}, NEW item \in ToSet(Items(a)),
         Due(item), ~Holds(item.when, defined), NEW h \in ToSet(item.names)
  PROVE  Settled(h)
<1>1. unit.path \in DOMAIN Paths /\ Found = Paths[unit.path] /\ Predefined \subseteq defined
  BY TablesTyped DEF FramesOK, Found
<1>2. a # NoName
  BY AskedHolds
<1>3. a \in DOMAIN Found /\ item \in ToSet(Found[a].items)
  BY <1>2 DEF Items
<1>4. PICK w \in item.when : Clear(w)
  BY DEF Due
<1>5. PICK macro \in w[2] : macro \in defined \ Predefined
  BY <1>1, <1>4 DEF Holds, Clear
<1>6. Own(unit.path, macro, h)
  BY <1>1, <1>3, <1>4, <1>5, GuardsOwn
<1>7. PICK x \in Opened \ {NoName} : macro \in Defined[unit.path][x]
  BY <1>5 DEF DefinedBy
<1>8. x = h \/ <<x, h>> \in Hides
  BY <1>1, <1>6, <1>7, OpenedNamed DEF Own
<1> QED
  BY <1>7, <1>8 DEF Settled

\* Passed holds initially, and is kept.
LEMMA PassedInit == Init => Passed
<1> SUFFICES ASSUME Init PROVE Passed
  OBVIOUS
<1>1. \A i \in DOMAIN stack : stack[i].at = 1
  BY DEF Init
<1>2. \A i \in DOMAIN stack : 1 .. stack[i].at - 1 = {}
  BY <1>1
<1> QED
  BY <1>2 DEF Passed

LEMMA PassedNext == FramesOK /\ DefinedBy /\ Passed /\ Next => Passed'
<1> SUFFICES ASSUME FramesOK, DefinedBy, Passed, Next PROVE Passed'
  OBVIOUS
<1>1. /\ stack # <<>> /\ stack' \in Seq(Frame) /\ unit' = unit
      /\ Still \/ Entered \/ KeptOut \/ Ended \/ \E names \in Seq(Name) : Advanced(names)
  BY StepShapes
<1>2. \A name : Items(name)' = Items(name)
  BY <1>1 DEF Found, Items
<1>3. \A h : Settled(h) => Settled(h)'
  BY Grows
<1>4. \A i \in DOMAIN stack' : i \in Nat \ {0}
  BY <1>1, LenProperties
<1>5. \A j \in DOMAIN stack : j \in Nat \ {0} /\ stack[j].at \in Nat
  BY FrameTypes
<1> SUFFICES ASSUME NEW i \in DOMAIN stack', NEW k \in 1 .. stack'[i].at - 1, Due(Items(stack'[i].name)[k]),
                    NEW h \in ToSet(Items(stack'[i].name)[k].names)
             PROVE  (\E m \in 1 .. i - 1 : stack'[m].name = h) \/ Settled(h)'
  BY <1>2 DEF Passed, Due, Clear
<1>6. ASSUME NEW j \in DOMAIN stack, stack'[i].name = stack[j].name, k \in 1 .. stack[j].at - 1
      PROVE  (\E m \in 1 .. j - 1 : stack[m].name = h) \/ Settled(h)
  BY <1>6 DEF Passed
<1>7. ASSUME NEW names \in Seq(Name), Pushed(names),
             stack[1].at \in 1 .. stack'[i].at - 1 /\ stack'[i].name = stack[1].name => 
               (k = stack[1].at => h \in ToSet(names) \/ Settled(h))
      PROVE  (\E m \in 1 .. i - 1 : stack'[m].name = h) \/ Settled(h)'
  <2>1. Len(names) \in Nat
    BY LenProperties
  <2>2. ~(stack'[i].at = 0)
    <3>1. k \in Int /\ 1 <= k /\ k <= stack'[i].at - 1
      OBVIOUS
    <3> QED
      BY <3>1
  <2>3. PICK j \in DOMAIN stack : /\ i = Len(names) + j /\ stack'[i].name = stack[j].name
                                  /\ stack'[i].at = IF j = 1 THEN stack[1].at + 1 ELSE stack[j].at
    BY <1>1, <1>7, <2>2, PushedFrames
  <2>4. ASSUME NEW m \in 1 .. j - 1, stack[m].name = h PROVE \E n \in 1 .. i - 1 : stack'[n].name = h
    <3>1. m \in DOMAIN stack /\ Len(names) + m \in 1 .. i - 1
      BY <1>5, <2>1, <2>3, FrameTypes
    <3>2. stack'[Len(names) + m].name = h
      BY <1>1, <1>7, <2>4, <3>1, PushedFrames
    <3> QED
      BY <3>1, <3>2
  <2>5. CASE k \in 1 .. stack[j].at - 1
    BY <1>3, <1>6, <2>3, <2>4, <2>5
  <2>6. CASE ~(k \in 1 .. stack[j].at - 1)
    <3>1. j = 1 /\ k = stack[1].at
      BY <1>5, <2>3, <2>6
    <3>2. h \in ToSet(names) \/ Settled(h)
      BY <1>7, <2>3, <3>1
    <3>3. ASSUME h \in ToSet(names) PROVE \E n \in 1 .. i - 1 : stack'[n].name = h
      <4>1. PICK n \in 1 .. Len(names) : names[n] = h
        BY <3>3, ToSetIs
      <4>2. n \in 1 .. i - 1
        BY <2>1, <2>3, <3>1
      <4>3. stack'[n].name = h
        BY <1>1, <1>7, <4>1, PushedFrames
      <4> QED
        BY <4>2, <4>3
    <3> QED
      BY <1>3, <3>2, <3>3
  <2> QED
    BY <2>5, <2>6
<1>8. ASSUME Dropped, NEW c, c = stack[1].name, Settled(c)'
      PROVE  (\E m \in 1 .. i - 1 : stack'[m].name = h) \/ Settled(h)'
  <2>1. i + 1 \in DOMAIN stack /\ stack'[i] = stack[i + 1]
    BY <1>1, <1>8, DroppedFrames
  <2>2. (\E m \in 1 .. (i + 1) - 1 : stack[m].name = h) \/ Settled(h)
    BY <1>6, <2>1
  <2>3. ASSUME NEW m \in 1 .. (i + 1) - 1, stack[m].name = h, m # 1 PROVE \E n \in 1 .. i - 1 : stack'[n].name = h
    <3>1. m \in DOMAIN stack \ {1} /\ m - 1 \in 1 .. i - 1
      BY <1>4, <2>1, <2>3, FrameTypes
    <3>2. stack'[m - 1] = stack[m]
      BY <1>1, <1>8, <3>1, DroppedFrames
    <3> QED
      BY <2>3, <3>1, <3>2
  <2>4. ASSUME NEW m \in 1 .. (i + 1) - 1, stack[m].name = h, m = 1 PROVE Settled(h)'
    <3>1. h = c
      BY <1>8, <2>4
    <3> QED
      BY <1>8, <3>1
  <2> QED
    BY <1>3, <2>2, <2>3, <2>4
<1>9. CASE Still
  BY <1>3, <1>6, <1>9 DEF Still
<1>10. CASE Entered
  <2>1. <<>> \in Seq(Name) /\ ~(stack[1].at \in 1 .. stack'[i].at - 1)
    BY <1>10 DEF Entered
  <2> QED
    BY <1>7, <1>10, <2>1 DEF Entered
<1>11. 1 \in DOMAIN stack /\ stack[1].name \in DOMAIN Found \cup {NoName} /\ (stack[1].name = NoName => stack[1].at > 0)
  BY <1>1, StackShape, FrameTypes DEF FramesOK
<1>12. CASE KeptOut
  <2>1. PICK c \in DOMAIN Found : c = stack[1].name
    BY <1>11, <1>12 DEF KeptOut
  <2>2. Settled(c)
    BY <1>12, <2>1, GuardedSettled DEF KeptOut
  <2> QED
    BY <1>3, <1>8, <1>12, <2>1, <2>2 DEF KeptOut
<1>13. CASE Ended
  <2>1. PICK c \in DOMAIN Found \cup {NoName} : c = stack[1].name
    BY <1>11
  <2>2. c \in closed'
    BY <1>13, <2>1 DEF Ended
  <2>3. Settled(c)'
    BY <2>2 DEF Settled, Opened
  <2> QED
    BY <1>8, <1>13, <2>1, <2>3 DEF Ended
<1>14. ASSUME NEW names \in Seq(Name), Advanced(names)
       PROVE  (\E m \in 1 .. i - 1 : stack'[m].name = h) \/ Settled(h)'
  <2>1. ASSUME stack'[i].name = stack[1].name, k = stack[1].at PROVE h \in ToSet(names) \/ Settled(h)
    <3>1. Items(stack'[i].name)[k] = Now /\ Due(Now) /\ h \in ToSet(Now.names) /\ Now.kind = "include"
      BY <2>1 DEF Now, Due
    <3>2. CASE names = Now.names
      BY <3>1, <3>2
    <3>3. CASE ~Holds(Now.when, defined)
      <4>1. Now \in ToSet(Items(stack[1].name))
        BY <1>1, <1>14, AdvancedFrame
      <4> QED
        BY <1>11, <3>1, <3>3, <4>1, SkippedSettled
    <3> QED
      BY <1>14, <3>1, <3>2, <3>3 DEF Advanced
  <2> QED
    BY <1>7, <1>14, <2>1 DEF Advanced
<1> QED
  BY <1>1, <1>9, <1>10, <1>12, <1>13, <1>14

\* AskedFor holds initially, and is kept.
LEMMA AskedForInit == Init => AskedFor
  BY DEF Init, AskedFor

LEMMA AskedForNext == FramesOK /\ Passed /\ AskedFor /\ Next => AskedFor'
<1> SUFFICES ASSUME FramesOK, Passed, AskedFor, Next PROVE AskedFor'
  OBVIOUS
<1>1. /\ stack # <<>> /\ unit' = unit
      /\ Still \/ Entered \/ KeptOut \/ Ended \/ \E names \in Seq(Name) : Advanced(names)
  BY StepShapes
<1>2. \A a : Leads(a)' = Leads(a)
  BY <1>1 DEF Leads, Found, Due, Clear
<1>3. \A h : Settled(h) => Settled(h)'
  BY Grows
<1>4. ASSUME Ended, NEW h \in IF stack[1].name = NoName THEN ToSet(unit.asked) ELSE Leads(stack[1].name)
      PROVE  Settled(h)
  <2>1. 1 \in DOMAIN stack
    BY <1>1, StackShape DEF FramesOK
  <2>2. stack[1].name \in DOMAIN Found \cup {NoName} /\ stack[1].at \in Nat
    BY <2>1, FrameTypes
  <2>3. Items(stack[1].name) \in Seq(HeaderItem)
    BY <2>2, ItemsTyped DEF FramesOK
  <2>4. Len(Items(stack[1].name)) \in Nat /\ stack[1].at > Len(Items(stack[1].name))
    BY <1>4, <2>3, LenProperties DEF Ended
  <2>5. \A k \in 1 .. Len(Items(stack[1].name)) : k \in 1 .. stack[1].at - 1
    BY <2>2, <2>4
  <2>6. 1 .. 1 - 1 = {}
    OBVIOUS
  <2>7. ASSUME NEW k \in 1 .. Len(Items(stack[1].name)), Due(Items(stack[1].name)[k]),
               h \in ToSet(Items(stack[1].name)[k].names)
        PROVE  Settled(h)
    BY <2>1, <2>5, <2>6, <2>7 DEF Passed
  <2>8. CASE stack[1].name = NoName
    <3>1. /\ Len(Items(stack[1].name)) = 1 /\ Due(Items(stack[1].name)[1])
          /\ Items(stack[1].name)[1].names = unit.asked
      BY <2>8, ItemsTyped DEF FramesOK
    <3>2. 1 \in 1 .. Len(Items(stack[1].name)) /\ h \in ToSet(Items(stack[1].name)[1].names)
      BY <1>4, <2>8, <3>1
    <3> QED
      BY <2>7, <3>1, <3>2
  <2>9. CASE stack[1].name # NoName
    <3>1. Items(stack[1].name) = Found[stack[1].name].items
      BY <2>9 DEF Items
    <3>2. PICK item \in ToSet(Items(stack[1].name)) : Due(item) /\ h \in ToSet(item.names)
      BY <1>4, <2>9, <3>1 DEF Leads
    <3>3. PICK k \in 1 .. Len(Items(stack[1].name)) : Items(stack[1].name)[k] = item
      BY <2>3, ToSetIs
    <3> QED
      BY <2>7, <3>2, <3>3
  <2> QED
    BY <2>8, <2>9
<1>5. ASSUME NEW a \in closed', NEW h \in IF a = NoName THEN ToSet(unit.asked) ELSE Leads(a)
      PROVE  Settled(h)
  <2>1. CASE a \in closed
    BY <1>5, <2>1 DEF AskedFor
  <2>2. CASE a \notin closed
    <3>1. Ended /\ a = stack[1].name
      BY <1>1, <1>5, <2>2 DEF Still, Entered, KeptOut, Ended, Advanced
    <3> QED
      BY <1>4, <1>5, <3>1
  <2> QED
    BY <2>1, <2>2
<1> QED
  BY <1>1, <1>2, <1>3, <1>5 DEF AskedFor

\* What the invariant says of the text that is read, and of a unit that is over.
LEMMA ReadOnceHolds == FramesOK /\ OpenOnce => ReadOnce
<1> SUFFICES ASSUME FramesOK, OpenOnce, Next1("text"), Top.name # NoName, Guard # {}
             PROVE  /\ Top.name \notin closed
                    /\ \A i \in 2 .. Len(stack) : stack[i].at > 0 => stack[i].name # Top.name
  BY DEF ReadOnce
<1>1. stack # <<>> /\ stack \in Seq(Frame)
  BY DEF Next1, Begun, Reading, FramesOK
<1>2. 1 \in DOMAIN stack /\ Top = stack[1] /\ DOMAIN stack = 1 .. Len(stack)
  BY <1>1, StackShape
<1>3. stack[1].at > 0 /\ stack[1].name # NoName /\ Found[stack[1].name].guard # {}
  BY <1>2 DEF Next1, Begun, Guard
<1>4. /\ stack[1].name \notin closed
      /\ \A j \in DOMAIN stack : j # 1 /\ stack[j].at > 0 => stack[j].name # stack[1].name
  BY <1>2, <1>3 DEF OpenOnce
<1>5. \A i \in 2 .. Len(stack) : i \in 1 .. Len(stack) /\ i # 1
  OBVIOUS
<1> QED
  BY <1>2, <1>4, <1>5

LEMMA NothingMissedHolds == FramesOK /\ AskedFor => NothingMissed
<1> SUFFICES ASSUME FramesOK, AskedFor, stack = <<>>,
                    NEW h \in (ToSet(unit.asked) \cup UNION {Leads(a) : a \in closed \ {NoName}}) \ closed
             PROVE  \E a \in closed : <<a, h>> \in Hides
  BY DEF NothingMissed, Over
<1>1. DOMAIN stack = {}
  OBVIOUS
<1>2. Opened = closed
  BY <1>1 DEF Opened
<1>3. NoName \in closed
  BY <1>2 DEF FramesOK
<1>4. Settled(h)
  BY <1>3 DEF AskedFor
<1> QED
  BY <1>2, <1>4 DEF Settled

(***************************************************************************)
(* What the headers lead to                                                *)
(***************************************************************************)
\* An #include that is taken, or that includes on this compiler, may be taken.
LEMMA DuePossible ==
  ASSUME FramesOK, DefinedBy, NEW item
  PROVE  /\ Due(item) => Possible(Macros[unit.path], item)
         /\ item.kind = "include" /\ Holds(item.when, defined) => Possible(Macros[unit.path], item)
<1>1. unit.path \in DOMAIN Paths /\ unit \in Units /\ Predefined \subseteq defined
  BY TablesTyped DEF FramesOK
<1>2. Macros[unit.path] = Predefined \cup UNION {DefinedIn(header) : header \in Range(Paths[unit.path])}
  BY <1>1 DEF Macros
<1>3. ASSUME NEW macro \in defined PROVE macro \in Macros[unit.path]
  <2>1. CASE macro \in Predefined
    BY <1>2, <2>1
  <2>2. CASE macro \notin Predefined
    <3>1. PICK x \in Opened \ {NoName} : macro \in Defined[unit.path][x]
      BY <2>2 DEF DefinedBy
    <3>2. x \in DOMAIN Found
      BY <3>1, OpenedNamed
    <3> QED
      BY <1>1, <3>1, <3>2, DefinedIs
  <2> QED
    BY <2>1, <2>2
<1>4. ASSUME Due(item) PROVE Possible(Macros[unit.path], item)
  <2>1. Predefined \subseteq Macros[unit.path]
    BY <1>2
  <2> QED
    BY <1>4, <2>1 DEF Due, Clear, Possible
<1>5. ASSUME item.kind = "include", Holds(item.when, defined) PROVE Possible(Macros[unit.path], item)
  <2>1. PICK w \in item.when : w[1] \subseteq defined /\ w[2] \cap defined = {}
    BY <1>5 DEF Holds
  <2>2. w[1] \subseteq Macros[unit.path] /\ w[2] \cap Predefined = {}
    BY <1>1, <1>3, <2>1
  <2> QED
    BY <1>5, <2>2 DEF Possible
<1> QED
  BY <1>4, <1>5

\* What an #include of a header leads to.
LEMMA LeadsInto ==
  ASSUME unit \in Units, NEW a \in DOMAIN Found
  PROVE  /\ a \in Reach[unit.path][a]
         /\ \A item \in ToSet(Found[a].items) : Possible(Macros[unit.path], item) =>
              \A h \in ToSet(item.names) \cap DOMAIN Found :
                Reach[unit.path][h] \subseteq Reach[unit.path][a] /\ h \in Reach[unit.path][a]
<1>1. unit.path \in DOMAIN Paths /\ Found = Paths[unit.path]
  BY TablesTyped DEF Found
<1>2. \A h \in DOMAIN Found : h \in Reach[unit.path][h]
  BY <1>1, ReachClosed
<1>3. \A item \in ToSet(Found[a].items) : Possible(Macros[unit.path], item) =>
        \A h \in ToSet(item.names) \cap DOMAIN Found : Reach[unit.path][h] \subseteq Reach[unit.path][a]
  BY <1>1, ReachClosed
<1> QED
  BY <1>2, <1>3

\* Chain holds initially, and is kept.
LEMMA ChainInit == Init => Chain
<1> SUFFICES ASSUME Init PROVE Chain
  OBVIOUS
<1>1. \A i \in DOMAIN stack : stack[i].name = NoName
  BY DEF Init
<1> QED
  BY <1>1 DEF Chain

LEMMA ChainNext == FramesOK /\ DefinedBy /\ Chain /\ Next => Chain'
<1> SUFFICES ASSUME FramesOK, DefinedBy, Chain, Next PROVE Chain'
  OBVIOUS
<1>1. /\ stack # <<>> /\ stack' \in Seq(Frame) /\ unit' = unit
      /\ Still \/ Entered \/ KeptOut \/ Ended \/ \E names \in Seq(Name) : Advanced(names)
  BY StepShapes
<1> DEFINE reach(a) == Reach[unit.path][a]
<1>2. \A a : reach(a)' = reach(a)
  BY <1>1
<1>3. \A i \in DOMAIN stack' : i \in Nat \ {0}
  BY <1>1, LenProperties
<1>4. \A j \in DOMAIN stack : j \in Nat \ {0} /\ stack[j].at \in Nat
  BY FrameTypes
<1>5. 1 \in DOMAIN stack
  BY <1>1, StackShape DEF FramesOK
<1> SUFFICES ASSUME NEW j \in DOMAIN stack', stack'[j].at > 0, stack'[j].name # NoName, NEW i \in 1 .. j - 1
             PROVE  stack'[i].name # NoName /\ reach(stack'[i].name) \subseteq reach(stack'[j].name)
  BY <1>2 DEF Chain
<1>6. ASSUME NEW m \in DOMAIN stack, stack[m].at > 0, stack[m].name # NoName, NEW n \in 1 .. m - 1
      PROVE  stack[n].name # NoName /\ reach(stack[n].name) \subseteq reach(stack[m].name)
  BY <1>6 DEF Chain
<1>7. CASE Still
  BY <1>6, <1>7 DEF Still
<1>8. CASE Entered
  <2>1. /\ DOMAIN stack' = DOMAIN stack
        /\ \A k \in DOMAIN stack : stack'[k].name = stack[k].name /\ stack'[k].at = IF k = 1 THEN 1 ELSE stack[k].at
    BY <1>1, <1>8, EnteredFrames
  <2>2. j # 1 /\ i \in DOMAIN stack
    BY <1>3, <1>4, <2>1, FrameTypes
  <2> QED
    BY <1>6, <2>1, <2>2
<1>9. CASE KeptOut \/ Ended
  <2>1. \A k \in DOMAIN stack' : k + 1 \in DOMAIN stack /\ stack'[k] = stack[k + 1]
    BY <1>1, <1>9, DroppedFrames DEF KeptOut, Ended
  <2>2. i \in DOMAIN stack'
    BY <1>1, <1>3, LenProperties
  <2>3. i + 1 \in 1 .. (j + 1) - 1
    BY <1>3, <2>1
  <2> QED
    BY <1>6, <2>1, <2>2, <2>3
<1>10. ASSUME NEW names \in Seq(Name), Advanced(names)
       PROVE  stack'[i].name # NoName /\ reach(stack'[i].name) \subseteq reach(stack'[j].name)
  <2>1. Len(names) \in Nat /\ Pushed(names) /\ stack[1].at > 0
    BY <1>10, LenProperties DEF Advanced
  <2>2. PICK m \in DOMAIN stack : j = Len(names) + m /\ stack'[j].name = stack[m].name /\ stack[m].at > 0
    BY <1>1, <2>1, PushedFrames
  <2>3. i \in DOMAIN stack'
    BY <1>1, <1>3, LenProperties
  <2>4. ASSUME NEW n \in DOMAIN stack, i = Len(names) + n, stack'[i].name = stack[n].name
        PROVE  stack'[i].name # NoName /\ reach(stack'[i].name) \subseteq reach(stack'[j].name)
    <3>1. n \in 1 .. m - 1
      BY <1>3, <1>4, <2>1, <2>2, <2>4
    <3> QED
      BY <1>6, <2>2, <2>4, <3>1
  <2>5. ASSUME i \in 1 .. Len(names), stack'[i].name = names[i]
        PROVE  stack'[i].name # NoName /\ reach(stack'[i].name) \subseteq reach(stack'[j].name)
    <3>1. names = Now.names /\ Now.kind = "include" /\ Holds(Now.when, defined) /\ ToSet(names) \subseteq DOMAIN Found
      BY <1>10, <2>5 DEF Advanced
    <3>2. names[i] \in ToSet(names) /\ names[i] \in Name
      BY <2>5, ToSetIs
    <3>3. stack'[i].name # NoName
      BY <2>5, <3>2 DEF Name
    <3>4. stack[1].name # NoName
      <4>1. CASE m = 1
        BY <2>2, <4>1
      <4>2. CASE m # 1
        <5>1. 1 \in 1 .. m - 1
          BY <1>4, <4>2
        <5> QED
          BY <1>6, <2>2, <5>1
      <4> QED
        BY <4>1, <4>2
    <3>5. Now \in ToSet(Found[stack[1].name].items) /\ stack[1].name \in DOMAIN Found
      <4>1. Now \in ToSet(Items(stack[1].name))
        BY <1>1, <1>10, AdvancedFrame
      <4> QED
        BY <1>5, <3>4, <4>1, FrameTypes DEF Items
    <3>6. reach(names[i]) \subseteq reach(stack[1].name)
      BY <3>1, <3>2, <3>5, DuePossible, LeadsInto DEF FramesOK
    <3>7. reach(stack[1].name) \subseteq reach(stack[m].name)
      <4>1. m = 1 \/ 1 \in 1 .. m - 1
        BY <1>4
      <4> QED
        BY <1>6, <2>2, <4>1
    <3> QED
      BY <2>2, <2>5, <3>3, <3>6, <3>7
  <2> QED
    BY <1>1, <2>1, <2>3, <2>4, <2>5, PushedFrames
<1> QED
  BY <1>1, <1>7, <1>8, <1>9, <1>10

(***************************************************************************)
(* What has been read to its end                                           *)
(***************************************************************************)
\* What the innermost header leads to, and does not lead back, is not open.
LEMMA NotOpen ==
  ASSUME FramesOK, Chain, stack # <<>>, stack[1].at > 0, stack[1].name # NoName,
         NEW b \in Name, b \in DOMAIN Found => b \in Reach[unit.path][stack[1].name], Reads(Reach[unit.path], stack[1].name, b)
  PROVE  \A j \in DOMAIN stack : stack[j].at > 0 => stack[j].name # b
<1> SUFFICES ASSUME NEW j \in DOMAIN stack, stack[j].at > 0, stack[j].name = b PROVE FALSE
  OBVIOUS
<1>1. 1 \in DOMAIN stack /\ j \in Nat \ {0} /\ stack[j].name \in DOMAIN Found \cup {NoName} /\ stack[1].name \in DOMAIN Found
  <2>1. 1 \in DOMAIN stack
    BY StackShape DEF FramesOK
  <2>2. j \in Nat \ {0}
    BY FrameTypes
  <2> QED
    BY <2>1, <2>2, FrameTypes
<1>2. b # NoName /\ b \in DOMAIN Found
  BY <1>1 DEF Name
<1>3. stack[1].name \notin Reach[unit.path][b]
  BY <1>2 DEF Reads
<1>4. stack[1].name \in Reach[unit.path][stack[1].name]
  BY <1>1, LeadsInto DEF FramesOK
<1>5. j = 1 \/ 1 \in 1 .. j - 1
  BY <1>1
<1>6. Reach[unit.path][stack[1].name] \subseteq Reach[unit.path][b]
  BY <1>2, <1>5 DEF Chain
<1> QED
  BY <1>3, <1>4, <1>6

\* What has been read when a header was read to its end.
LEMMA WithClosed ==
  ASSUME NEW p \in DOMAIN Paths, NEW read, read \subseteq DOMAIN Paths[p] \cup {NoName},
         NEW b \in read, b # NoName, Sure[p][b] \subseteq read, NEW h, With(p, b, h)
  PROVE  h \in read
<1>1. b \in DOMAIN Paths[p]
  OBVIOUS
<1>2. Sure[p][b] \subseteq Name
  BY <1>1, SureRead
<1>3. Sure[p][b] \subseteq DOMAIN Paths[p]
  BY <1>2 DEF Name
<1> QED
  BY <1>1, <1>3 DEF With

\* What has been read when the innermost header has come past some of its items.
LEMMA AfterClosed ==
  ASSUME FramesOK, DefinedBy, Passed, Chain, SureClosed, stack # <<>>, stack[1].at > 0, stack[1].name # NoName,
         NEW h, After(unit.path, stack[1].name, {Found[stack[1].name].items[j] : j \in 1 .. stack[1].at - 1}, h)
  PROVE  h \in closed
<1>1. 1 \in DOMAIN stack
  BY StackShape DEF FramesOK
<1>2. stack[1].name \in DOMAIN Found /\ stack[1].at \in Nat /\ stack[1].at <= Len(Items(stack[1].name)) + 1
  BY <1>1, FrameTypes
<1>3. Items(stack[1].name) = Found[stack[1].name].items /\ Items(stack[1].name) \in Seq(HeaderItem)
  BY <1>2, ItemsTyped DEF FramesOK, Items
<1>4. PICK k \in 1 .. stack[1].at - 1 :
        /\ Due(Items(stack[1].name)[k])
        /\ \E b \in ToSet(Items(stack[1].name)[k].names) : Reads(Reach[unit.path], stack[1].name, b) /\ With(unit.path, b, h)
  BY <1>3 DEF After
<1>5. PICK b \in ToSet(Items(stack[1].name)[k].names) : Reads(Reach[unit.path], stack[1].name, b) /\ With(unit.path, b, h)
  BY <1>4
<1>6. k \in 1 .. Len(Items(stack[1].name))
  <2>1. Len(Items(stack[1].name)) \in Nat
    BY <1>3, LenProperties
  <2> QED
    BY <1>2, <2>1
<1>7. Items(stack[1].name)[k] \in HeaderItem /\ Items(stack[1].name)[k] \in ToSet(Found[stack[1].name].items)
  BY <1>3, <1>6, ToSetIs
<1>8. b \in Name
  <2>1. Items(stack[1].name)[k].names \in Seq(Name)
    BY <1>7 DEF HeaderItem
  <2> QED
    BY <2>1, ToSetIs
<1>9. b \in DOMAIN Found => b \in Reach[unit.path][stack[1].name]
  BY <1>2, <1>4, <1>7, DuePossible, LeadsInto DEF FramesOK
<1>10. Settled(b)
  <2>1. 1 .. 1 - 1 = {}
    OBVIOUS
  <2> QED
    BY <1>1, <1>4, <2>1 DEF Passed
<1>11. b \in Opened
  <2>1. ~Hidable(b)
    BY <1>5 DEF Reads
  <2>2. \A a : <<a, b>>[2] = b
    OBVIOUS
  <2> QED
    BY <1>10, <2>1, <2>2 DEF Settled, Hidable
<1>12. b \in closed
  BY <1>5, <1>8, <1>9, <1>11, NotOpen DEF Opened
<1>13. unit.path \in DOMAIN Paths /\ Found = Paths[unit.path]
  BY TablesTyped DEF FramesOK, Found
<1>14. b # NoName /\ Sure[unit.path][b] \subseteq closed /\ closed \subseteq DOMAIN Found \cup {NoName}
  BY <1>8, <1>12 DEF SureClosed, FramesOK, Name
<1> QED
  BY <1>5, <1>12, <1>13, <1>14, WithClosed

\* SureClosed holds initially, and is kept.
LEMMA SureClosedInit == Init => SureClosed
  BY DEF Init, SureClosed

LEMMA SureClosedNext == FramesOK /\ DefinedBy /\ Passed /\ Chain /\ SureClosed /\ Next => SureClosed'
<1> SUFFICES ASSUME FramesOK, DefinedBy, Passed, Chain, SureClosed, Next PROVE SureClosed'
  OBVIOUS
<1>1. /\ stack # <<>> /\ unit' = unit
      /\ Still \/ Entered \/ KeptOut \/ Ended \/ \E names \in Seq(Name) : Advanced(names)
  BY StepShapes
<1>2. closed \subseteq closed'
  BY Grows
<1>3. ASSUME Ended, stack[1].name # NoName, NEW h \in Sure[unit.path][stack[1].name]
      PROVE  h \in closed
  <2>1. 1 \in DOMAIN stack
    BY <1>1, StackShape DEF FramesOK
  <2>2. stack[1].name \in DOMAIN Found /\ stack[1].at \in Nat
    BY <1>3, <2>1, FrameTypes
  <2>3. Items(stack[1].name) = Found[stack[1].name].items /\ Items(stack[1].name) \in Seq(HeaderItem)
    BY <1>3, <2>2, ItemsTyped DEF FramesOK, Items
  <2>4. unit.path \in DOMAIN Paths /\ Found = Paths[unit.path]
    BY TablesTyped DEF FramesOK, Found
  <2>5. After(unit.path, stack[1].name, ToSet(Found[stack[1].name].items), h)
    BY <1>3, <2>2, <2>4, SureRead
  <2>6. ToSet(Found[stack[1].name].items) \subseteq {Found[stack[1].name].items[j] : j \in 1 .. stack[1].at - 1}
    <3>1. Len(Items(stack[1].name)) \in Nat /\ stack[1].at > Len(Items(stack[1].name))
      BY <1>3, <2>3, LenProperties DEF Ended
    <3>2. \A j \in 1 .. Len(Items(stack[1].name)) : j \in 1 .. stack[1].at - 1
      BY <2>2, <3>1
    <3> QED
      BY <2>3, <3>2, ToSetIs
  <2>7. After(unit.path, stack[1].name, {Found[stack[1].name].items[j] : j \in 1 .. stack[1].at - 1}, h)
    BY <2>5, <2>6 DEF After
  <2>8. stack[1].at > 0
    BY <1>3 DEF Ended
  <2> QED
    BY <1>1, <1>3, <2>7, <2>8, AfterClosed
<1>4. ASSUME NEW a \in closed' \ {NoName}, NEW h \in Sure[unit.path][a] PROVE h \in closed'
  <2>1. CASE a \in closed
    BY <1>2, <1>4, <2>1 DEF SureClosed
  <2>2. CASE a \notin closed
    <3>1. Ended /\ a = stack[1].name
      BY <1>1, <1>4, <2>2 DEF Still, Entered, KeptOut, Ended, Advanced
    <3> QED
      BY <1>2, <1>3, <1>4, <3>1
  <2> QED
    BY <2>1, <2>2
<1> QED
  BY <1>1, <1>4 DEF SureClosed

(***************************************************************************)
(* What First asks for                                                     *)
(***************************************************************************)
\* What First asks for has a name.
LEMMA FirstNamed ==
  ASSUME NEW a \in DOMAIN First, NEW b \in ToSet(First[a])
  PROVE  b \in Name /\ b # NoName /\ ~Hidable(b)
<1>1. First[a] \in Seq(Name)
  BY TablesTyped
<1>2. b \in Name
  BY <1>1, ToSetIs
<1>3. ~Hidable(b)
  BY UsesSure
<1> QED
  BY <1>2, <1>3 DEF Name

\* What a text may count on, in a program that is prepared, has been read.
LEMMA KnownClosed ==
  ASSUME FramesOK, DefinedBy, Passed, Chain, SureClosed, FirstReady, Prepared,
         stack # <<>>, stack[1].at > 0, stack[1].name # NoName,
         NEW h, Known(unit.path, stack[1].name, stack[1].at, h)
  PROVE  h \in closed
<1>1. unit.path \in DOMAIN Paths /\ Found = Paths[unit.path] /\ 1 \in DOMAIN stack
  BY TablesTyped, StackShape DEF FramesOK, Found
<1>2. CASE Before(unit.path, stack[1].name, h)
  <2>1. stack[1].name \in DOMAIN First
    BY <1>2 DEF Before
  <2>2. PICK b \in ToSet(First[stack[1].name]) : With(unit.path, b, h)
    BY <1>2 DEF Before
  <2>3. b # NoName
    BY <2>1, FirstNamed
  <2>4. b \in closed
    BY <1>1, <2>1, <2>2 DEF FirstReady
  <2>5. Sure[unit.path][b] \subseteq closed /\ closed \subseteq DOMAIN Found \cup {NoName}
    BY <2>3, <2>4 DEF SureClosed, FramesOK
  <2> QED
    BY <1>1, <2>2, <2>3, <2>4, <2>5, WithClosed
<1>3. CASE After(unit.path, stack[1].name, {Found[stack[1].name].items[j] : j \in 1 .. stack[1].at - 1}, h)
  BY <1>3, AfterClosed
<1> QED
  BY <1>1, <1>2, <1>3 DEF Known

\* FirstReady holds initially, and is kept.
LEMMA FirstReadyInit == Init => FirstReady
<1> SUFFICES ASSUME Init PROVE FirstReady
  OBVIOUS
<1>1. \A i \in DOMAIN stack : stack[i].name = NoName
  BY DEF Init
<1> QED
  BY <1>1 DEF FirstReady

\* The headers that an #include opens find what First asks for, or it lies above them.
LEMMA OpenedReady ==
  ASSUME FramesOK, DefinedBy, Passed, Chain, SureClosed, FirstReady, Prepared, stack # <<>>, stack' \in Seq(Frame),
         NEW names \in Seq(Name), Advanced(names), NEW n \in 1 .. Len(names), names[n] \in DOMAIN First,
         NEW h \in ToSet(First[names[n]])
  PROVE  h \in closed \/ \E m \in 1 .. n - 1 :
                            /\ With(unit.path, names[m], h) /\ names[m] # NoName /\ ~Hidable(names[m])
                            /\ \A j \in DOMAIN stack : stack[j].at > 0 => stack[j].name # names[m]
<1>1. names = Now.names /\ Now.kind = "include" /\ Holds(Now.when, defined) /\ stack[1].at > 0
  BY DEF Advanced
<1>2. /\ 1 \in DOMAIN stack /\ stack[1].at \in 1 .. Len(Items(stack[1].name))
      /\ Now \in ToSet(Items(stack[1].name))
  BY AdvancedFrame
<1>3. stack[1].name \in DOMAIN Found \cup {NoName}
  BY <1>2, FrameTypes
<1>4. /\ Len(names) \in Nat /\ n \in Nat /\ \A m \in 1 .. n - 1 : m \in 1 .. Len(names)
      /\ \A m \in 1 .. Len(names) : names[m] \in Name /\ names[m] \in ToSet(names)
  <2>1. Len(names) \in Nat /\ \A m \in 1 .. Len(names) : names[m] \in Name /\ names[m] \in ToSet(names)
    BY ToSetIs
  <2>2. n \in Nat /\ \A m \in 1 .. n - 1 : m \in 1 .. Len(names)
    BY <2>1
  <2> QED
    BY <2>1, <2>2
<1>5. CASE stack[1].name = NoName
  <2>1. Len(Items(stack[1].name)) = 1 /\ Items(stack[1].name)[1].names = unit.asked
    BY <1>5, ItemsTyped DEF FramesOK
  <2>2. stack[1].at = 1
    BY <1>2, <2>1
  <2>3. names = unit.asked /\ n \in DOMAIN unit.asked
    <3>1. names = unit.asked
      BY <1>1, <2>1, <2>2 DEF Now
    <3> QED
      BY <3>1, ToSetIs
  <2>4. h \in ToSet(SubSeq(names, 1, n - 1))
    BY <2>3 DEF Prepared
  <2>5. PICK m \in 1 .. n - 1 : names[m] = h
    <3>1. SubSeq(names, 1, n - 1) = [i \in 1 .. n - 1 |-> names[i]]
      <4>1. 1 \in Int /\ n - 1 \in Int /\ 1 + 1 - 1 = 1 /\ \A i \in 1 .. n - 1 : i + 1 - 1 = i
        BY <1>4
      <4>2. n - 1 <= Len(names) /\ 1 >= 1
        BY <1>4
      <4> QED
        BY <1>4, <4>1, <4>2
    <3> QED
      BY <2>4, <3>1 DEF ToSet
  <2>6. ~Hidable(h) /\ h # NoName
    BY FirstNamed
  <2>7. ASSUME NEW j \in DOMAIN stack, stack[j].at > 0 PROVE stack[j].name # h
    <3>1. j \in Nat \ {0}
      BY FrameTypes
    <3>2. CASE stack[j].name = NoName
      BY <2>6, <3>2
    <3>3. CASE stack[j].name # NoName
      <4>1. j # 1 /\ 1 \in 1 .. j - 1
        BY <1>5, <3>1, <3>3
      <4> QED
        BY <1>5, <2>7, <3>3, <4>1 DEF Chain
    <3> QED
      BY <3>2, <3>3
  <2>8. With(unit.path, h, h)
    BY DEF With
  <2> QED
    BY <2>5, <2>6, <2>7, <2>8
<1>6. CASE stack[1].name # NoName
  <2>1. unit.path \in DOMAIN Paths /\ Found = Paths[unit.path]
    BY TablesTyped DEF FramesOK, Found
  <2>2. stack[1].name \in DOMAIN Found /\ Items(stack[1].name) = Found[stack[1].name].items
        /\ Now = Found[stack[1].name].items[stack[1].at] /\ stack[1].at \in DOMAIN Found[stack[1].name].items
    <3>1. Items(stack[1].name) \in Seq(HeaderItem)
      BY <1>3, ItemsTyped DEF FramesOK
    <3> QED
      BY <1>2, <1>3, <1>6, <3>1, ToSetIs DEF Items, Now
  <2>3. Possible(Macros[unit.path], Now)
    BY <1>1, DuePossible
  <2>4. n \in DOMAIN Now.names
    BY <1>1, ToSetIs
  <2>5. Known(unit.path, stack[1].name, stack[1].at, h) \/ Beside(unit.path, stack[1].name, names, n, h)
    BY <1>1, <2>1, <2>2, <2>3, <2>4, UsesSure
  <2>6. CASE Known(unit.path, stack[1].name, stack[1].at, h)
    BY <1>1, <1>6, <2>6, KnownClosed
  <2>7. CASE Beside(unit.path, stack[1].name, names, n, h)
    <3>1. PICK m \in 1 .. n - 1 : Reads(Reach[unit.path], stack[1].name, names[m]) /\ With(unit.path, names[m], h)
      BY <2>7 DEF Beside
    <3>2. names[m] \in Name /\ names[m] \in ToSet(names)
      BY <1>4
    <3>3. names[m] # NoName /\ ~Hidable(names[m])
      BY <3>1, <3>2 DEF Name, Reads
    <3>4. names[m] \in DOMAIN Found => names[m] \in Reach[unit.path][stack[1].name]
      <4>1. Now \in ToSet(Found[stack[1].name].items)
        BY <1>2, <2>2
      <4>2. \A b \in ToSet(Now.names) \cap DOMAIN Found : b \in Reach[unit.path][stack[1].name]
        <5>1. unit \in Units
          BY DEF FramesOK
        <5> QED
          BY <2>2, <2>3, <4>1, <5>1, LeadsInto
      <4>3. names[m] \in ToSet(Now.names)
        BY <1>1, <3>2
      <4> QED
        BY <4>2, <4>3
    <3>5. \A j \in DOMAIN stack : stack[j].at > 0 => stack[j].name # names[m]
      BY <1>1, <1>6, <3>1, <3>2, <3>4, NotOpen
    <3> QED
      BY <3>1, <3>3, <3>5
  <2> QED
    BY <2>5, <2>6, <2>7
<1> QED
  BY <1>5, <1>6

LEMMA FirstReadyNext ==
  FramesOK /\ DefinedBy /\ Passed /\ Chain /\ SureClosed /\ FirstReady /\ Next => FirstReady'
<1> SUFFICES ASSUME FramesOK, DefinedBy, Passed, Chain, SureClosed, FirstReady, Next, Prepared PROVE FirstReady'
  <2>1. ASSUME FramesOK, DefinedBy, Passed, Chain, SureClosed, FirstReady, Next, ~Prepared PROVE FirstReady'
    <3>1. unit' = unit
      BY <2>1, StepShapes
    <3>2. ~Prepared'
      BY <2>1, <3>1 DEF Prepared
    <3> QED
      BY <3>2 DEF FirstReady
  <2> QED
    BY <2>1
<1>1. /\ stack # <<>> /\ stack' \in Seq(Frame) /\ unit' = unit
      /\ Still \/ Entered \/ KeptOut \/ Ended \/ \E names \in Seq(Name) : Advanced(names)
  BY StepShapes
<1>2. closed \subseteq closed' /\ FramesOK' /\ SureClosed'
  BY Grows, FramesNext, SureClosedNext
<1>3. \A i \in DOMAIN stack' : i \in Nat \ {0}
  BY <1>1, LenProperties
<1>4. /\ 1 \in DOMAIN stack
      /\ \A i \in DOMAIN stack : i \in Nat \ {0} /\ stack[i].at \in Nat /\ stack[i].name \in DOMAIN Found \cup {NoName}
  BY <1>1, StackShape, FrameTypes DEF FramesOK
<1>5. DOMAIN stack = 1 .. Len(stack) /\ DOMAIN stack' = 1 .. Len(stack') /\ Len(stack) \in Nat /\ Len(stack') \in Nat
  BY <1>1, FrameTypes, LenProperties
<1> DEFINE Free(b) == b # NoName /\ ~Hidable(b)
           Alone(i) == \A k \in i + 1 .. Len(stack) : stack[k].at > 0 => stack[k].name # stack[i].name
           Waits(j, h) == \E i \in 1 .. j - 1 : Free(stack[i].name) /\ Alone(i) /\ With(unit.path, stack[i].name, h)
           AloneNext(i) == \A k \in i + 1 .. Len(stack') : stack'[k].at > 0 => stack'[k].name # stack'[i].name
           WaitsNext(j, h) ==
             \E i \in 1 .. j - 1 : Free(stack'[i].name) /\ AloneNext(i) /\ With(unit.path, stack'[i].name, h)
<1> SUFFICES ASSUME NEW j \in DOMAIN stack', stack'[j].name \in DOMAIN First \ {NoName},
                    NEW h \in ToSet(First[stack'[j].name]), h \notin closed'
             PROVE  stack'[j].at = 0 /\ WaitsNext(j, h)
  BY <1>1 DEF FirstReady, Sound
<1>6. ASSUME NEW m \in DOMAIN stack, stack[m].name = stack'[j].name
      PROVE  stack[m].at = 0 /\ Waits(m, h)
  <2>1. h \notin closed
    BY <1>2
  <2> QED
    BY <1>6, <2>1 DEF FirstReady, Sound
<1>7. CASE Still
  BY <1>6, <1>7 DEF Still
<1>8. CASE Entered
  <2>1. /\ DOMAIN stack' = DOMAIN stack
        /\ \A k \in DOMAIN stack : stack'[k].name = stack[k].name /\ stack'[k].at = IF k = 1 THEN 1 ELSE stack[k].at
    BY <1>1, <1>8, EnteredFrames
  <2>2. stack[j].at = 0 /\ Waits(j, h)
    BY <1>6, <2>1
  <2>3. PICK i \in 1 .. j - 1 : Free(stack[i].name) /\ Alone(i) /\ With(unit.path, stack[i].name, h)
    BY <2>2
  <2>4. i \in DOMAIN stack /\ j # 1 /\ \A k \in i + 1 .. Len(stack) : k \in DOMAIN stack /\ k # 1
    BY <1>3, <1>5, <2>1
  <2>5. AloneNext(i)
    BY <1>5, <2>1, <2>3, <2>4
  <2>6. stack'[j].at = 0 /\ stack'[i].name = stack[i].name
    BY <2>1, <2>2, <2>4
  <2> HIDE DEF Free, Alone, AloneNext
  <2> QED
    BY <2>3, <2>5, <2>6
<1>9. CASE KeptOut \/ Ended
  <2>1. \A k \in DOMAIN stack' : k + 1 \in DOMAIN stack /\ stack'[k] = stack[k + 1]
    BY <1>1, <1>9, DroppedFrames DEF KeptOut, Ended
  <2>2. stack[j + 1].at = 0 /\ Waits(j + 1, h)
    BY <1>6, <2>1
  <2>3. PICK i \in 1 .. (j + 1) - 1 : Free(stack[i].name) /\ Alone(i) /\ With(unit.path, stack[i].name, h)
    BY <2>2
  <2>4. CASE i # 1
    <3>1. i - 1 \in DOMAIN stack' /\ i - 1 \in 1 .. j - 1 /\ (i - 1) + 1 = i
      BY <1>3, <1>5, <2>4
    <3>2. stack'[i - 1] = stack[i]
      BY <2>1, <3>1
    <3>3. ASSUME NEW k \in (i - 1) + 1 .. Len(stack'), stack'[k].at > 0 PROVE stack'[k].name # stack'[i - 1].name
      <4>1. k \in DOMAIN stack'
        BY <1>3, <1>5, <3>1
      <4>2. stack'[k] = stack[k + 1] /\ k + 1 \in i + 1 .. Len(stack)
        BY <1>5, <2>1, <3>1, <4>1
      <4> QED
        BY <2>3, <3>2, <3>3, <4>2
    <3>4. AloneNext(i - 1)
      BY <3>3
    <3>5. stack'[j].at = 0
      BY <2>1, <2>2
    <3> HIDE DEF Free, Alone, AloneNext
    <3> QED
      BY <2>3, <3>1, <3>2, <3>4, <3>5
  <2>5. CASE i = 1
    <3>1. PICK c : c = stack[1].name
      OBVIOUS
    <3>2. Free(c) /\ With(unit.path, c, h) /\ c \in DOMAIN Found
      BY <1>4, <2>3, <2>5, <3>1
    <3>3. c \in closed'
      <4>1. CASE Ended
        BY <3>1, <4>1 DEF Ended
      <4>2. CASE KeptOut
        <5>1. Settled(c)
          BY <3>1, <3>2, <4>2, GuardedSettled DEF KeptOut
        <5>2. \A a : <<a, c>>[2] = c
          OBVIOUS
        <5>3. c \in Opened
          BY <3>2, <5>1, <5>2 DEF Settled, Hidable
        <5>4. \A k \in DOMAIN stack : stack[k].at > 0 => stack[k].name # c
          <6>1. \A k \in DOMAIN stack : k = 1 \/ k \in 1 + 1 .. Len(stack)
            BY <1>5
          <6>2. stack[1].at = 0
            BY <4>2 DEF KeptOut
          <6> QED
            BY <2>3, <2>5, <3>1, <6>1, <6>2
        <5> QED
          BY <1>2, <5>3, <5>4 DEF Opened
      <4> QED
        BY <1>9, <4>1, <4>2
    <3>4. unit.path \in DOMAIN Paths /\ Found = Paths[unit.path] /\ Found' = Found
      BY <1>1, TablesTyped DEF FramesOK, Found
    <3>5. closed' \subseteq DOMAIN Found \cup {NoName} /\ Sure[unit.path][c] \subseteq closed'
      BY <1>1, <1>2, <3>2, <3>3, <3>4 DEF FramesOK, SureClosed
    <3>6. h \in closed'
      BY <3>2, <3>3, <3>4, <3>5, WithClosed
    <3> QED
      BY <3>6
  <2> QED
    BY <2>4, <2>5
<1>10. ASSUME NEW names \in Seq(Name), Advanced(names)
       PROVE  stack'[j].at = 0 /\ WaitsNext(j, h)
  <2>1. Len(names) \in Nat /\ Pushed(names) /\ stack[1].at > 0
    BY <1>10, LenProperties DEF Advanced
  <2>2. \A k \in DOMAIN stack : /\ Len(names) + k \in DOMAIN stack' /\ stack'[Len(names) + k].name = stack[k].name
                                /\ stack'[Len(names) + k].at = IF k = 1 THEN stack[1].at + 1 ELSE stack[k].at
    BY <1>1, <2>1, PushedFrames
  <2>3. \A k \in DOMAIN stack' :
          \/ k \in 1 .. Len(names) /\ stack'[k].name = names[k] /\ stack'[k].at = 0
          \/ \E m \in DOMAIN stack : k = Len(names) + m /\ stack'[k].name = stack[m].name /\ (stack'[k].at > 0 => stack[m].at > 0)
    BY <1>1, <2>1, PushedFrames
  <2>4. \A k \in 1 .. Len(names) : k \in DOMAIN stack' /\ stack'[k].name = names[k]
    BY <1>1, <2>1, PushedFrames
  <2>5. CASE j \in 1 .. Len(names) /\ stack'[j].name = names[j] /\ stack'[j].at = 0
    <3>1. PICK m \in 1 .. j - 1 :
                /\ With(unit.path, names[m], h) /\ names[m] # NoName /\ ~Hidable(names[m])
                /\ \A k \in DOMAIN stack : stack[k].at > 0 => stack[k].name # names[m]
      BY <1>1, <1>2, <1>10, <2>5, OpenedReady
    <3>2. m \in 1 .. Len(names)
      BY <2>1, <2>5
    <3>3. stack'[m].name = names[m]
      BY <2>4, <3>2
    <3>4. ASSUME NEW k \in m + 1 .. Len(stack'), stack'[k].at > 0 PROVE stack'[k].name # names[m]
      <4>1. k \in DOMAIN stack'
        BY <1>5, <3>2
      <4> QED
        BY <2>3, <3>1, <3>4, <4>1
    <3> QED
      BY <2>5, <3>1, <3>3, <3>4
  <2>6. ASSUME NEW m \in DOMAIN stack, j = Len(names) + m, stack'[j].name = stack[m].name
        PROVE  stack'[j].at = 0 /\ WaitsNext(j, h)
    <3>1. stack[m].at = 0 /\ Waits(m, h)
      BY <1>6, <2>6
    <3>2. PICK i \in 1 .. m - 1 : Free(stack[i].name) /\ Alone(i) /\ With(unit.path, stack[i].name, h)
      BY <3>1
    <3>3. i \in DOMAIN stack /\ Len(names) + i \in 1 .. j - 1 /\ m # 1
      BY <1>4, <1>5, <2>1, <2>6
    <3>4. stack'[j].at = 0 /\ stack'[Len(names) + i].name = stack[i].name
      BY <2>2, <2>6, <3>1, <3>3
    <3>5. ASSUME NEW k \in (Len(names) + i) + 1 .. Len(stack'), stack'[k].at > 0 PROVE stack'[k].name # stack[i].name
      <4>1. k \in DOMAIN stack' /\ k \notin 1 .. Len(names)
        BY <1>5, <2>1, <3>3
      <4>2. PICK n \in DOMAIN stack : k = Len(names) + n /\ stack'[k].name = stack[n].name /\ stack[n].at > 0
        BY <2>3, <3>5, <4>1
      <4>3. n \in i + 1 .. Len(stack)
        BY <1>4, <1>5, <2>1, <3>3, <4>2
      <4> QED
        BY <3>2, <4>2, <4>3
    <3>6. AloneNext(Len(names) + i)
      BY <3>4, <3>5
    <3> HIDE DEF Free, Alone, AloneNext
    <3> QED
      BY <3>2, <3>3, <3>4, <3>6
  <2> QED
    BY <2>3, <2>5, <2>6
<1> QED
  BY <1>1, <1>7, <1>8, <1>9, <1>10

\* What the invariant says of the text that is read, in a program that is prepared.
LEMMA SelfContainedHolds ==
  FramesOK /\ DefinedBy /\ Passed /\ Chain /\ SureClosed /\ FirstReady => SelfContained
<1> SUFFICES ASSUME FramesOK, DefinedBy, Passed, Chain, SureClosed, FirstReady, Next1("text"), Prepared, NEW h \in Item.uses
             PROVE  h \in closed
  BY DEF SelfContained
<1>1. stack # <<>> /\ stack \in Seq(Frame)
  BY DEF Next1, Begun, Reading, FramesOK
<1>2. 1 \in DOMAIN stack /\ Top = stack[1]
  BY <1>1, StackShape
<1>3. /\ stack[1].name \in DOMAIN Found \cup {NoName} /\ stack[1].at \in Nat
      /\ stack[1].at > 0 /\ stack[1].at <= Len(Items(stack[1].name)) /\ Item = Items(stack[1].name)[stack[1].at]
      /\ Item.kind = "text"
  BY <1>2, FrameTypes DEF Next1, Begun, Item
<1>4. Items(stack[1].name) \in Seq(HeaderItem)
  BY <1>3, ItemsTyped DEF FramesOK
<1>5. stack[1].at \in DOMAIN Items(stack[1].name)
  <2>1. Len(Items(stack[1].name)) \in Nat /\ DOMAIN Items(stack[1].name) = 1 .. Len(Items(stack[1].name))
    BY <1>4, LenProperties
  <2> QED
    BY <1>3, <2>1
<1>6. stack[1].name # NoName
  <2>1. SUFFICES ASSUME stack[1].name = NoName PROVE FALSE
    OBVIOUS
  <2>2. Len(Items(stack[1].name)) = 1 /\ Items(stack[1].name)[1].kind = "include"
    BY <2>1, ItemsTyped DEF FramesOK
  <2>3. stack[1].at = 1
    BY <1>3, <2>2
  <2> QED
    BY <1>3, <2>2, <2>3
<1>7. unit.path \in DOMAIN Paths /\ Found = Paths[unit.path] /\ Items(stack[1].name) = Found[stack[1].name].items
  BY <1>6, TablesTyped DEF FramesOK, Found, Items
<1>8. Known(unit.path, stack[1].name, stack[1].at, h)
  BY <1>3, <1>5, <1>6, <1>7, UsesSure
<1> QED
  BY <1>1, <1>3, <1>6, <1>8, KnownClosed

(***************************************************************************)
(* The headers that lead to one that is not there                          *)
(***************************************************************************)
\* MissingStops holds initially, and is kept.
LEMMA MissingStopsInit == Init => MissingStops
<1> SUFFICES ASSUME Init PROVE MissingStops
  OBVIOUS
<1>1. failed = {} /\ closed = {} /\ \A i \in DOMAIN stack : stack[i].name = NoName
  BY DEF Init
<1> QED
  BY <1>1, TablesTyped DEF MissingStops

\* A header that is not in Missing, and the program that asks for none, is not stopped.
LEMMA NotStopped ==
  ASSUME FramesOK, DefinedBy, stack # <<>>, stack[1].at \in 1 .. Len(Items(stack[1].name)),
         Now \in ToSet(Items(stack[1].name)), Now.kind = "include", Holds(Now.when, defined),
         stack[1].name \notin Missing, ToSet(unit.asked) \cap Missing = {}
  PROVE  ToSet(Now.names) \subseteq DOMAIN Found \ Missing
<1>1. unit.path \in DOMAIN Paths /\ Found = Paths[unit.path] /\ 1 \in DOMAIN stack
  BY TablesTyped, StackShape DEF FramesOK, Found
<1>2. stack[1].name \in DOMAIN Found \cup {NoName}
  BY <1>1, FrameTypes
<1>3. CASE stack[1].name = NoName
  <2>1. /\ Len(Items(stack[1].name)) = 1 /\ Items(stack[1].name)[1].names = unit.asked
        /\ ToSet(unit.asked) \subseteq DOMAIN Found
    BY <1>3, ItemsTyped DEF FramesOK
  <2>2. stack[1].at = 1
    BY <2>1
  <2> QED
    BY <2>1, <2>2 DEF Now
<1>4. CASE stack[1].name # NoName
  <2>1. Now \in ToSet(Found[stack[1].name].items) /\ stack[1].name \in DOMAIN Found
    BY <1>2, <1>4 DEF Items
  <2>2. Possible(Macros[unit.path], Now)
    BY DuePossible
  <2> QED
    BY <1>1, <2>1, <2>2, MissingLead
<1> QED
  BY <1>3, <1>4

\* A header of Missing is read to its end when another has hidden the one that is not there.
LEMMA MissingExposed ==
  ASSUME FramesOK, DefinedBy, Passed, Chain, MissingStops, stack # <<>>, Ended, stack[1].name \in Missing
  PROVE  Exposed
<1>1. unit.path \in DOMAIN Paths /\ Found = Paths[unit.path] /\ 1 \in DOMAIN stack
  BY TablesTyped, StackShape DEF FramesOK, Found
<1>2. stack[1].name # NoName /\ stack[1].name \in DOMAIN Found /\ stack[1].at \in Nat /\ stack[1].at > 0
  BY <1>1, TablesTyped, FrameTypes DEF Ended
<1>3. Items(stack[1].name) = Found[stack[1].name].items /\ Items(stack[1].name) \in Seq(HeaderItem)
  BY <1>2, ItemsTyped DEF FramesOK, Items
<1>4. PICK item \in ToSet(Items(stack[1].name)) :
        Due(item) /\ \E h \in ToSet(item.names) : h \notin DOMAIN Found \/ (h \in Missing /\ Reads(Reach[unit.path], stack[1].name, h))
  BY <1>1, <1>2, <1>3, MissingLead
<1>5. PICK h \in ToSet(item.names) : h \notin DOMAIN Found \/ (h \in Missing /\ Reads(Reach[unit.path], stack[1].name, h))
  BY <1>4
<1>6. PICK k \in 1 .. Len(Items(stack[1].name)) : Items(stack[1].name)[k] = item
  BY <1>3, ToSetIs
<1>7. k \in 1 .. stack[1].at - 1
  <2>1. Len(Items(stack[1].name)) \in Nat /\ stack[1].at > Len(Items(stack[1].name))
    BY <1>3, LenProperties DEF Ended
  <2> QED
    BY <1>2, <2>1
<1>8. Settled(h)
  <2>1. 1 .. 1 - 1 = {}
    OBVIOUS
  <2> QED
    BY <1>1, <1>4, <1>6, <1>7, <2>1 DEF Passed
<1>9. h \in Name
  <2>1. item \in HeaderItem
    BY <1>3, ToSetIs
  <2>2. item.names \in Seq(Name)
    BY <2>1 DEF HeaderItem
  <2> QED
    BY <2>2, ToSetIs
<1>10. \A x : <<x, h>>[1] = x /\ <<x, h>>[2] = h
  OBVIOUS
<1>11. CASE h \notin DOMAIN Found
  <2>1. h \notin Opened
    BY <1>9, <1>11, OpenedNamed DEF Name
  <2> QED
    BY <1>8, <1>10, <1>11, <2>1 DEF Settled, Exposed
<1>12. CASE h \in Missing /\ Reads(Reach[unit.path], stack[1].name, h)
  <2>1. h \in Opened
    BY <1>8, <1>10, <1>12 DEF Settled, Hidable, Reads
  <2>2. h \in DOMAIN Found => h \in Reach[unit.path][stack[1].name]
    BY <1>2, <1>3, <1>4, DuePossible, LeadsInto DEF FramesOK
  <2>3. \A j \in DOMAIN stack : stack[j].at > 0 => stack[j].name # h
    BY <1>2, <1>9, <1>12, <2>2, NotOpen
  <2>4. h \in closed
    BY <2>1, <2>3 DEF Opened
  <2> QED
    BY <1>12, <2>4 DEF MissingStops
<1> QED
  BY <1>5, <1>11, <1>12

LEMMA MissingStopsNext == FramesOK /\ DefinedBy /\ Passed /\ Chain /\ MissingStops /\ Next => MissingStops'
<1> SUFFICES ASSUME FramesOK, DefinedBy, Passed, Chain, MissingStops, Next PROVE MissingStops'
  OBVIOUS
<1>1. /\ stack # <<>> /\ stack' \in Seq(Frame) /\ unit' = unit /\ failed = {}
      /\ \/ (Still /\ NotFound)
         \/ failed' = failed /\ (Entered \/ KeptOut \/ Ended \/ \E names \in Seq(Name) : Advanced(names))
  BY StepShapes
<1>2. 1 \in DOMAIN stack /\ Found' = Found /\ unit \in Units /\ stack \in Seq(Frame)
  BY <1>1, StackShape DEF FramesOK, Found
<1>3. ASSUME ToSet(unit.asked) \cap Missing = {} PROVE failed' = {} /\ \A i \in DOMAIN stack' : stack'[i].name \notin Missing
  <2>1. \A i \in DOMAIN stack : stack[i].name \notin Missing
    BY <1>3 DEF MissingStops
  <2>2. CASE Still /\ NotFound
    <3>1. /\ Top = stack[1] /\ stack[1].name \in DOMAIN Found \cup {NoName} /\ stack[1].at \in Nat
      BY <1>1, <1>2, StackShape, FrameTypes
    <3>2. Items(stack[1].name) \in Seq(HeaderItem)
      BY <1>2, <3>1, ItemsTyped
    <3>3. /\ stack[1].at \in 1 .. Len(Items(stack[1].name)) /\ Now = Item
          /\ Now.kind = "include" /\ Holds(Now.when, defined)
      <4>1. /\ stack[1].at > 0 /\ stack[1].at <= Len(Items(stack[1].name)) /\ Now = Item
            /\ Now.kind = "include" /\ Holds(Now.when, defined)
        BY <2>2, <3>1 DEF NotFound, Next1, Begun, Item, Now
      <4>2. Len(Items(stack[1].name)) \in Nat
        BY <3>2, LenProperties
      <4> QED
        BY <3>1, <4>1, <4>2
    <3>4. Now \in ToSet(Items(stack[1].name))
      BY <3>2, <3>3, ToSetIs DEF Now
    <3>5. ToSet(Now.names) \subseteq DOMAIN Found
      BY <1>1, <1>2, <1>3, <2>1, <3>3, <3>4, NotStopped
    <3> QED
      BY <2>2, <3>3, <3>5 DEF NotFound
  <2>3. CASE failed' = failed /\ Entered
    <3>1. DOMAIN stack' = DOMAIN stack /\ \A i \in DOMAIN stack : stack'[i].name = stack[i].name
      BY <1>1, <2>3, EnteredFrames
    <3> QED
      BY <1>1, <2>1, <2>3, <3>1
  <2>4. CASE failed' = failed /\ (KeptOut \/ Ended)
    <3>1. \A i \in DOMAIN stack' : i + 1 \in DOMAIN stack /\ stack'[i] = stack[i + 1]
      BY <1>1, <2>4, DroppedFrames DEF KeptOut, Ended
    <3> QED
      BY <1>1, <2>1, <2>4, <3>1
  <2>5. ASSUME failed' = failed, NEW names \in Seq(Name), Advanced(names), NEW i \in DOMAIN stack'
        PROVE  stack'[i].name \notin Missing
    <3>1. CASE i \in 1 .. Len(names) /\ stack'[i].name = names[i]
      <4>1. names = Now.names /\ Now.kind = "include" /\ Holds(Now.when, defined)
        BY <2>5, <3>1 DEF Advanced
      <4>2. stack[1].at \in 1 .. Len(Items(stack[1].name)) /\ Now \in ToSet(Items(stack[1].name))
        BY <1>1, <2>5, AdvancedFrame
      <4>3. ToSet(names) \subseteq DOMAIN Found \ Missing
        BY <1>1, <1>2, <1>3, <2>1, <4>1, <4>2, NotStopped
      <4>4. names[i] \in ToSet(names)
        BY <3>1, ToSetIs
      <4> QED
        BY <3>1, <4>3, <4>4
    <3>2. ASSUME NEW j \in DOMAIN stack, stack'[i].name = stack[j].name PROVE stack'[i].name \notin Missing
      BY <2>1, <3>2
    <3> QED
      BY <1>1, <2>5, <3>1, <3>2, PushedFrames DEF Advanced
  <2> QED
    BY <1>1, <2>2, <2>3, <2>4, <2>5
<1>4. Exposed => Exposed'
  BY <1>2, Grows DEF Exposed
<1>5. ASSUME NEW a \in closed' \cap Missing PROVE Exposed
  <2>1. CASE a \in closed
    BY <1>5, <2>1 DEF MissingStops
  <2>2. CASE a \notin closed
    <3>1. Ended /\ a = stack[1].name
      BY <1>1, <1>5, <2>2 DEF Still, Entered, KeptOut, Ended, Advanced
    <3> QED
      BY <1>1, <1>5, <3>1, MissingExposed
  <2> QED
    BY <2>1, <2>2
<1> QED
  BY <1>1, <1>3, <1>4, <1>5 DEF MissingStops

\* What the invariant says of a unit that is stopped, or over.
LEMMA EverythingFoundHolds == FramesOK /\ AskedFor /\ MissingStops => EverythingFound
<1> SUFFICES ASSUME FramesOK, AskedFor, MissingStops PROVE EverythingFound
  OBVIOUS
<1>1. ASSUME stack = <<>>, NEW h \in ToSet(unit.asked) \cap Missing
      PROVE  \E pair \in Hides : pair[1] \in closed /\ pair[2] \notin DOMAIN Found
  <2>1. Opened = closed /\ NoName \in closed
    <3>1. DOMAIN stack = {}
      BY <1>1
    <3> QED
      BY <3>1 DEF Opened, FramesOK
  <2>2. Settled(h)
    BY <1>1, <2>1 DEF AskedFor
  <2>3. ~Hidable(h)
    <3>1. unit.path \in DOMAIN Paths /\ Found = Paths[unit.path] /\ h \in DOMAIN Found
      <4>1. ToSet(unit.asked) \subseteq DOMAIN Found
        BY ItemsTyped DEF FramesOK
      <4> QED
        BY <4>1, TablesTyped DEF FramesOK, Found
    <3> QED
      BY <3>1, MissingLead
  <2>4. \A x : <<x, h>>[2] = h
    OBVIOUS
  <2>5. h \in closed
    BY <2>1, <2>2, <2>3, <2>4 DEF Settled, Hidable
  <2> QED
    BY <2>1, <2>5 DEF MissingStops, Exposed
<1> QED
  BY <1>1 DEF EverythingFound, MissingStops, Over

(***************************************************************************)
(* The theorems                                                            *)
(***************************************************************************)
\* What a stutter keeps.
LEMMA StutterFrames == FramesOK /\ OpenOnce /\ UNCHANGED vars => FramesOK' /\ OpenOnce'
<1> SUFFICES ASSUME FramesOK, OpenOnce, UNCHANGED vars PROVE FramesOK' /\ OpenOnce'
  OBVIOUS
<1>1. unit' = unit /\ stack' = stack /\ defined' = defined /\ closed' = closed
  BY DEF vars
<1>2. Found' = Found /\ Opened' = Opened /\ \A name : Items(name)' = Items(name)
  BY <1>1 DEF Found, Opened, Items
<1>3. FramesOK'
  BY <1>1, <1>2 DEF FramesOK
<1>4. OpenOnce'
  BY <1>1, <1>2 DEF OpenOnce
<1> QED
  BY <1>3, <1>4

\* The invariant holds in every state that the reading of a unit goes through.
LEMMA HeadersInvHolds == Spec => []HeadersInv
<1>1. Init => HeadersInv
  BY FramesInit, OpenOnceInit, DefinedByInit, PassedInit, AskedForInit, ChainInit, SureClosedInit, FirstReadyInit,
     MissingStopsInit DEF HeadersInv
<1>2. HeadersInv /\ [Next]_vars => HeadersInv'
  <2>1. ASSUME HeadersInv, Next PROVE HeadersInv'
    BY <2>1, FramesNext, OpenOnceNext, DefinedByNext, PassedNext, AskedForNext, ChainNext, SureClosedNext, FirstReadyNext,
       MissingStopsNext DEF HeadersInv
  <2>2. ASSUME HeadersInv, UNCHANGED vars PROVE HeadersInv'
    <3>1. unit' = unit /\ stack' = stack /\ defined' = defined /\ closed' = closed /\ failed' = failed
      BY <2>2 DEF vars
    <3>2. /\ Found' = Found /\ Opened' = Opened /\ \A name : Items(name)' = Items(name)
          /\ \A h : Settled(h)' = Settled(h)
      BY <3>1 DEF Found, Opened, Items, Settled
    <3>3. FramesOK' /\ OpenOnce'
      BY <2>2, StutterFrames DEF HeadersInv
    <3>4. DefinedBy'
      BY <2>2, <3>1, <3>2 DEF HeadersInv, DefinedBy
    <3>5. Passed'
      BY <2>2, <3>1, <3>2 DEF HeadersInv, Passed, Due, Clear
    <3>6. AskedFor'
      BY <2>2, <3>1, <3>2 DEF HeadersInv, AskedFor, Leads, Due, Clear
    <3>7. Chain'
      BY <2>2, <3>1 DEF HeadersInv, Chain
    <3>8. SureClosed'
      BY <2>2, <3>1 DEF HeadersInv, SureClosed
    <3>9. FirstReady'
      BY <2>2, <3>1 DEF HeadersInv, FirstReady, Sound, Prepared
    <3>10. MissingStops'
      BY <2>2, <3>1, <3>2 DEF HeadersInv, MissingStops, Exposed
    <3> QED
      BY <3>3, <3>4, <3>5, <3>6, <3>7, <3>8, <3>9, <3>10 DEF HeadersInv
  <2> QED
    BY <2>1, <2>2
<1> QED
  BY <1>1, <1>2, PTL DEF Spec

\* The text of a header with a guard is not read while it is open below or after it was
\* read to its end, whatever the headers include one another (ReadOnce): #ifndef lets no
\* header through whose guard is defined.  Of the tables it takes only that they are tables.
THEOREM ReadOnceTheorem == Spec => []ReadOnce
<1>1. Init => FramesOK /\ OpenOnce
  BY FramesInit, OpenOnceInit
<1>2. FramesOK /\ OpenOnce /\ [Next]_vars => FramesOK' /\ OpenOnce'
  BY FramesNext, OpenOnceNext, StutterFrames
<1>3. FramesOK /\ OpenOnce => ReadOnce
  BY ReadOnceHolds
<1> QED
  BY <1>1, <1>2, <1>3, PTL DEF Spec

\* What the program and the headers ask for has been read when the unit is over, if guards
\* and the macros that the #include lines test belong to the headers they are named for
\* (NothingMissed).
THEOREM NothingMissedTheorem == Spec => []NothingMissed
<1>1. HeadersInv => NothingMissed
  BY NothingMissedHolds DEF HeadersInv
<1> QED
  BY <1>1, HeadersInvHolds, PTL

\* A program that includes what First asks for may include headers in any order, as many
\* as it likes: what the text of one uses has been read to its end before it
\* (SelfContained).
THEOREM SelfContainedTheorem == Spec => []SelfContained
<1>1. HeadersInv => SelfContained
  BY SelfContainedHolds DEF HeadersInv
<1> QED
  BY <1>1, HeadersInvHolds, PTL

\* The compiler stops at an #include that it does not find in the units that ask for a
\* header of Missing, and in no other (EverythingFound).
THEOREM EverythingFoundTheorem == Spec => []EverythingFound
<1>1. HeadersInv => EverythingFound
  BY EverythingFoundHolds DEF HeadersInv
<1> QED
  BY <1>1, HeadersInvHolds, PTL
=============================================================================
