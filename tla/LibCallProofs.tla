--------------------------- MODULE LibCallProofs ---------------------------
(* Proofs about calls through bindings, for any calls that are well formed and *)
(* any number of variable arguments.                                          *)
EXTENDS LibCall, TLAPS

(***************************************************************************)
(* The inductive invariant gives registers and stack at each step.         *)
(***************************************************************************)

\* What the function is given and what it leaves.
Passed   == IF stub.saves THEN [Loaded EXCEPT ![Tag] = Slot(More)] ELSE Loaded
Returned ==
  [r \in Register |->
     IF r = D0 /\ promise.gives THEN Result ELSE IF r \in Scratch THEN Left(r) ELSE Passed[r]]
Saved    == IF stub.saves THEN Append(Pushed, Loaded[Tag]) ELSE Pushed

CallInv ==
  /\ call \in Calls
  /\ pc \in {"load", "push", "point", "jsr", "function", "pop", "done"}
  /\ pc \in {"push", "point", "pop"} => stub.saves
  /\ pc = "push" => reg = Loaded /\ stack = Pushed
  /\ pc = "point" => reg = Loaded /\ stack = Saved
  /\ pc \in {"jsr", "function"} => reg = Passed /\ stack = Saved
  /\ pc = "pop" => reg = Returned /\ stack = Saved
  /\ pc = "done" => stack = Pushed
  /\ pc = "done" => reg = IF stub.saves THEN [Returned EXCEPT ![Tag] = Loaded[Tag]] ELSE Returned

\* The compiler and the stub work on registers of the processor and on a stack
\* that holds the variable arguments.
LEMMA Shapes ==
  ASSUME call \in Calls
  PROVE  /\ stub.saves => stub.more
         /\ stub.more => Tag \in Register \ {A6}
         /\ DOMAIN Loaded = Register
         /\ stub.more => Len(Pushed) = More
         /\ ~stub.more => Pushed = <<>>
         /\ Len(Pushed) \in Nat
         /\ \A x : /\ Len(Append(Pushed, x)) = Len(Pushed) + 1
                   /\ Append(Pushed, x)[Len(Pushed) + 1] = x
                   /\ SubSeq(Append(Pushed, x), 1, Len(Pushed)) = Pushed
                   /\ \A i \in 1 .. Len(Pushed) : Append(Pushed, x)[i] = Pushed[i]
<1> DEFINE n == IF stub.more THEN More ELSE 0
           v(k) == Arg(promise.fixed + More + 1 - k)
<1>1. WellFormed(call) /\ n \in Nat
  BY CallsAssumption, MoreAssumption
<1>2. stub.saves => stub.more
  BY <1>1 DEF WellFormed, stub
<1>3. stub.more => Tag \in Register \ {A6}
  BY <1>1 DEF WellFormed, stub, Tag
<1>4. Pushed \in Seq({v(k) : k \in 1 .. n}) /\ Len(Pushed) = n
  <2>1. Pushed = [k \in 1 .. n |-> v(k)]
    BY DEF Pushed
  <2> DEFINE S == {v(k) : k \in 1 .. n}
  <2>2. \A k \in 1 .. n : v(k) \in S
    OBVIOUS
  <2> HIDE DEF n, v, S
  <2>. QED
    BY <1>1, <2>1, <2>2
<1>5. \A x : /\ Len(Append(Pushed, x)) = Len(Pushed) + 1
             /\ Append(Pushed, x)[Len(Pushed) + 1] = x
             /\ \A i \in 1 .. Len(Pushed) : Append(Pushed, x)[i] = Pushed[i]
  <2>1. TAKE x
  <2> DEFINE S == {v(k) : k \in 1 .. n} \cup {x}
  <2>2. Pushed \in Seq(S) /\ x \in S
    BY <1>4
  <2> HIDE DEF S
  <2>. QED
    BY <2>2
<1>6. \A x : SubSeq(Append(Pushed, x), 1, Len(Pushed)) = Pushed
  <2>1. TAKE x
  <2> DEFINE S == {v(k) : k \in 1 .. n} \cup {x}
  <2>2. Pushed \in Seq(S) /\ x \in S
    BY <1>4
  <2> HIDE DEF S
  <2>. QED
    BY <2>2
<1>7. ~stub.more => Pushed = <<>>
  BY <1>4
<1>. QED
  BY <1>1, <1>2, <1>3, <1>4, <1>5, <1>6, <1>7 DEF Loaded

LEMMA CallInvInit == Init => CallInv
BY DEF Init, CallInv

LEMMA CallInvStep == CallInv /\ [Next]_vars => CallInv'
<1> SUFFICES ASSUME CallInv, [Next]_vars PROVE CallInv'
  OBVIOUS
<1> USE DEF CallInv
<1>0. call' = call
  BY DEF Next, vars, Load, Push, Point, Jsr, Function, Pop
<1>1. /\ stub' = stub /\ promise' = promise /\ Tag' = Tag /\ Loaded' = Loaded
      /\ Pushed' = Pushed /\ Passed' = Passed /\ Returned' = Returned /\ Saved' = Saved
  <2>1. stub' = stub /\ promise' = promise
    BY <1>0 DEF stub, promise
  <2>2. Tag' = Tag /\ Pushed' = Pushed /\ \A r : Named(r)' = Named(r)
    BY <2>1 DEF Tag, Pushed, Named
  <2>3. Loaded' = Loaded
    BY <2>1, <2>2 DEF Loaded
  <2>4. Passed' = Passed
    BY <2>1, <2>2, <2>3 DEF Passed
  <2>5. Returned' = Returned /\ Saved' = Saved
    BY <2>1, <2>2, <2>3, <2>4 DEF Returned, Saved
  <2>. QED
    BY <2>1, <2>2, <2>3, <2>4, <2>5
<1> HIDE DEF CallInv
<1>2. CASE Load
  <2>1. call.stub.saves \in BOOLEAN
    BY CallsAssumption DEF CallInv, WellFormed
  <2>. QED
    BY <1>0, <1>1, <1>2, <2>1 DEF Load, CallInv, Passed, Saved
<1>3. CASE Push
  BY <1>0, <1>1, <1>3 DEF Push, CallInv, Saved
<1>4. CASE Point
  <2>1. stack = Append(Pushed, Loaded[Tag]) /\ stub.saves /\ reg = Loaded
    BY <1>4 DEF Point, CallInv, Saved
  <2>2. AboveTop = Slot(More)
    BY <2>1, Shapes, MoreAssumption DEF CallInv, AboveTop
  <2>. QED
    BY <1>0, <1>1, <1>4, <2>1, <2>2 DEF Point, CallInv, Passed
<1>5. CASE Jsr
  BY <1>0, <1>1, <1>5 DEF Jsr, CallInv
<1>6. CASE Function
  <2>1. reg = Passed /\ stack = Saved
    BY <1>6 DEF Function, CallInv
  <2>2. reg' = Returned
    BY <1>6, <2>1 DEF Function, Returned
  <2>. QED
    BY <1>0, <1>1, <1>6, <2>1, <2>2 DEF Function, CallInv, Saved
<1>7. CASE Pop
  <2>1. stack = Append(Pushed, Loaded[Tag]) /\ stub.saves /\ reg = Returned
    BY <1>7 DEF Pop, CallInv, Saved
  <2>2. stack[Len(stack)] = Loaded[Tag] /\ Popped = Pushed
    BY <2>1, Shapes DEF CallInv, Popped
  <2>. QED
    BY <1>0, <1>1, <1>7, <2>1, <2>2 DEF Pop, CallInv
<1>8. CASE UNCHANGED vars
  BY <1>0, <1>1, <1>8 DEF vars, CallInv
<1>. QED
  BY <1>2, <1>3, <1>4, <1>5, <1>6, <1>7, <1>8 DEF Next

LEMMA CallInvariance == Spec => []CallInv
BY CallInvInit, CallInvStep, PTL DEF Spec

\* Where the compiler and the stub put things: no two values are the same, so a
\* register tells by what it holds which argument it was loaded for.
LEMMA PassedIs ==
  ASSUME call \in Calls, NEW r \in Register
  PROVE  /\ Passed[A6] = Base
         /\ \A i \in 1 .. promise.fixed : Passed[r] = Arg(i) <=> r = stub.args[i]
         /\ \A k \in Nat : stub.more => (Passed[r] = Slot(k) <=> r = Tag /\ k = More)
<1> DEFINE args  == stub.args
           fixed == promise.fixed
<1>1. /\ fixed \in Nat /\ stub.more \in BOOLEAN /\ stub.saves \in BOOLEAN
      /\ stub.saves => stub.more
      /\ args \in Seq(Register \ {A6})
      /\ Len(args) = fixed + (IF stub.more THEN 1 ELSE 0)
      /\ \A i, j \in DOMAIN args : args[i] = args[j] => i = j
  BY CallsAssumption, Zenon DEF WellFormed, IsInjective, stub, promise
<1>2. More \in Nat
  BY MoreAssumption
<1>3. DOMAIN args = 1 .. Len(args) /\ \A i \in DOMAIN args : args[i] \in Register \ {A6}
  BY <1>1
<1>4. \A q : Named(q) = {i \in 1 .. fixed : args[i] = q}
  BY <1>1, <1>3 DEF Named
<1>5. \A i \in 1 .. fixed : Named(args[i]) = {i}
  <2> HIDE DEF args, fixed
  <2>1. 1 .. fixed \subseteq DOMAIN args
    BY <1>1, <1>3
  <2>. QED
    BY <1>1, <1>4, <2>1
<1>6. \A q : Named(q) # {} => \E i \in 1 .. fixed : q = args[i]
  BY <1>4
<1>7. stub.more => Tag = args[fixed + 1] /\ Tag \in Register \ {A6} /\ Named(Tag) = {}
  <2>1. stub.more => Len(args) = fixed + 1 /\ Tag = args[fixed + 1]
    BY <1>1 DEF Tag
  <2> HIDE DEF args, fixed
  <2>. QED
    BY <1>1, <1>3, <1>4, <2>1
<1>8. \A i \in 1 .. fixed : args[i] \in Register \ {A6} /\ Loaded[args[i]] = Arg(i)
  <2> HIDE DEF args
  <2>1. \A i \in 1 .. fixed : args[i] \in Register \ {A6}
    BY <1>1, <1>3
  <2>2. \A i \in 1 .. fixed : (CHOOSE j \in Named(args[i]) : TRUE) = i
    BY <1>5
  <2>. QED
    BY <1>5, <2>1, <2>2, Zenon DEF Loaded
<1>9. A6 \in Register /\ Loaded[A6] = Base
  BY DEF Loaded, A6, Register
<1>10. \A q \in Register \ {A6} : Named(q) = {} =>
         Loaded[q] = IF stub.more /\ ~stub.saves /\ q = Tag THEN Slot(More) ELSE Was(q)
  BY DEF Loaded
<1>11. DOMAIN Loaded = Register
  BY DEF Loaded
<1>12. \A i \in 1 .. fixed : stub.more => args[i] # Tag
  BY <1>5, <1>7
<1> HIDE DEF args, fixed
<1>13. Passed[A6] = Base
  BY <1>1, <1>7, <1>9, <1>11 DEF Passed
<1>14. \A i \in 1 .. fixed : Passed[args[i]] = Arg(i)
  BY <1>1, <1>8, <1>11, <1>12 DEF Passed
<1>15. stub.more => Passed[Tag] = Slot(More)
  BY <1>1, <1>7, <1>10, <1>11 DEF Passed
<1>16. \A q \in Register \ {A6} : Named(q) = {} /\ (stub.more => q # Tag) => Passed[q] = Was(q)
  BY <1>1, <1>10, <1>11 DEF Passed
<1>17. \A i, k : Arg(i) # Base /\ Arg(i) # Slot(k) /\ Arg(i) # Was(k) /\ (Arg(i) = Arg(k) => i = k)
  BY DEF Arg, Base, Slot, Was
<1>18. \A i, k : Slot(i) # Base /\ Slot(i) # Was(k) /\ (Slot(i) = Slot(k) => i = k)
  BY DEF Base, Slot, Was
<1>19. \A i \in 1 .. fixed : Passed[r] = Arg(i) <=> r = args[i]
  <2>1. TAKE i \in 1 .. fixed
  <2>2. CASE r = A6
    BY <1>8, <1>13, <1>17, <2>2
  <2>3. CASE stub.more /\ r = Tag
    BY <1>12, <1>15, <1>17, <2>3
  <2>4. CASE Named(r) # {}
    BY <1>6, <1>14, <1>17, <2>4
  <2>5. CASE r # A6 /\ (stub.more => r # Tag) /\ Named(r) = {}
    BY <1>5, <1>16, <1>17, <2>5
  <2>. QED
    BY <2>2, <2>3, <2>4, <2>5
<1>20. stub.more => \A k \in Nat : Passed[r] = Slot(k) <=> r = Tag /\ k = More
  <2>1. SUFFICES ASSUME stub.more, NEW k \in Nat
                 PROVE  Passed[r] = Slot(k) <=> r = Tag /\ k = More
    OBVIOUS
  <2>2. CASE r = A6
    BY <1>7, <1>13, <1>18, <2>1, <2>2
  <2>3. CASE r = Tag
    BY <1>15, <1>18, <2>1, <2>3
  <2>4. CASE Named(r) # {}
    BY <1>6, <1>7, <1>14, <1>17, <2>1, <2>4
  <2>5. CASE r # A6 /\ r # Tag /\ Named(r) = {}
    BY <1>16, <1>18, <2>1, <2>5
  <2>. QED
    BY <2>2, <2>3, <2>4, <2>5
<1>. QED
  BY <1>13, <1>19, <1>20 DEF args, fixed

\* The binding of a call is right if, and only if, it agrees with the description.
LEMMA ArrivesIfAgrees == CallInv /\ pc = "function" => (Arrives <=> Agrees(call))
<1> SUFFICES ASSUME CallInv, pc = "function" PROVE Arrives <=> Agrees(call)
  OBVIOUS
<1> DEFINE args  == stub.args
           given == promise.args
           fixed == promise.fixed
<1>1. call \in Calls /\ reg = Passed /\ stack = Saved
  BY DEF CallInv
<1>2. /\ fixed \in Nat /\ promise.more \in BOOLEAN /\ stub.more = promise.more
      /\ stub.saves \in BOOLEAN /\ (stub.saves => stub.more)
      /\ args \in Seq(Register \ {A6}) /\ given \in Seq(Register \ {A6})
      /\ Len(args) = fixed + (IF promise.more THEN 1 ELSE 0)
  BY <1>1, CallsAssumption, Zenon DEF WellFormed, stub, promise
<1>3. Agrees(call) <=> stub.vector = promise.vector /\ args = given
  BY DEF Agrees, stub, promise
<1>4. stub.more => Tag = args[fixed + 1]
  BY <1>2 DEF Tag
<1>5. More \in Nat
  BY MoreAssumption
<1>6. stub.more => /\ Len(stack) \in Nat /\ More <= Len(stack)
                   /\ \A k \in 1 .. More : stack[More + 1 - k] = Arg(fixed + k)
  <2>1. SUFFICES ASSUME stub.more
                 PROVE  /\ Len(stack) \in Nat /\ More <= Len(stack)
                        /\ \A k \in 1 .. More : stack[More + 1 - k] = Arg(fixed + k)
    OBVIOUS
  <2>2. Len(Pushed) = More /\ \A k \in 1 .. More : Pushed[k] = Arg(fixed + More + 1 - k)
    BY <1>1, <2>1, Shapes DEF Pushed
  <2>3. stack = Pushed \/ stack = Append(Pushed, Loaded[Tag])
    BY <1>1 DEF Saved
  <2>4. Len(stack) \in Nat /\ More <= Len(stack) /\ \A k \in 1 .. More : stack[k] = Pushed[k]
    BY <1>1, <1>5, <2>2, <2>3, Shapes
  <2> HIDE DEF fixed
  <2>5. \A k \in 1 .. More :
          More + 1 - k \in 1 .. More /\ fixed + More + 1 - (More + 1 - k) = fixed + k
    BY <1>2, <1>5
  <2>. QED
    BY <2>2, <2>4, <2>5
<1> HIDE DEF args, given, fixed
<1>7. ASSUME Arrives PROVE stub.vector = promise.vector /\ args = given
  <2>1. Len(given) = Len(args)
    BY <1>2, <1>7 DEF Arrives, given, fixed
  <2>2. \A i \in 1 .. fixed : args[i] = given[i]
    <3>1. TAKE i \in 1 .. fixed
    <3>2. Passed[given[i]] = Arg(i)
      BY <1>1, <1>7 DEF Arrives, given, fixed
    <3>3. given[i] \in Register
      BY <1>2, <2>1
    <3>. QED
      BY <1>1, <3>2, <3>3, PassedIs DEF args, fixed
  <2>3. stub.more => args[fixed + 1] = given[fixed + 1]
    <3>1. SUFFICES ASSUME stub.more PROVE Tag = given[fixed + 1]
      BY <1>4
    <3>2. Len(given) = fixed + 1
      BY <1>2, <2>1, <3>1
    <3>3. PICK top \in 0 .. Len(stack) : Passed[given[fixed + 1]] = Slot(top)
      BY <1>1, <1>2, <1>7, <3>1, <3>2 DEF Arrives, given
    <3>4. given[fixed + 1] \in Register /\ top \in Nat
      BY <1>2, <1>6, <3>1, <3>2
    <3>. QED
      BY <1>1, <3>1, <3>3, <3>4, PassedIs
  <2>4. \A i \in 1 .. Len(args) : args[i] = given[i]
    BY <1>2, <2>2, <2>3
  <2>5. args = given
    BY <1>2, <2>1, <2>4
  <2>. QED
    BY <1>7, <2>5 DEF Arrives
<1>8. ASSUME stub.vector = promise.vector, args = given PROVE Arrives
  <2>1. reg[A6] = Base
    BY <1>1, PassedIs DEF A6, Register
  <2>2. \A i \in 1 .. fixed : args[i] \in Register /\ reg[args[i]] = Arg(i)
    <3>1. \A i \in 1 .. fixed : args[i] \in Register
      BY <1>2
    <3>. QED
      BY <1>1, <3>1, PassedIs DEF args, fixed
  <2>3. ASSUME promise.more
        PROVE  /\ reg[given[Len(given)]] = Slot(More) /\ More \in 0 .. Len(stack)
               /\ \A k \in 1 .. More : stack[More + 1 - k] = Arg(fixed + k)
    <3>1. Tag \in Register /\ given[Len(given)] = Tag
      BY <1>2, <1>4, <1>8, <2>3
    <3>2. reg[Tag] = Slot(More)
      BY <1>1, <1>2, <1>5, <2>3, <3>1, PassedIs
    <3>. QED
      BY <1>2, <1>5, <1>6, <2>3, <3>1, <3>2
  <2>4. Len(given) = fixed + (IF promise.more THEN 1 ELSE 0) /\ More >= More
    BY <1>2, <1>5, <1>8
  <2>. QED
    BY <1>8, <2>1, <2>2, <2>3, <2>4 DEF Arrives, given, fixed
<1>. QED
  BY <1>3, <1>7, <1>8

\* In every call, through whichever binding and with however many variable
\* arguments, the function finds its arguments where its description says if the
\* binding names the slot and the registers of the description, and not otherwise:
\* what a stub does to pass the address of the arguments is right in itself.
THEOREM AgreementTheorem == Spec => [](pc = "function" => (Arrives <=> Agrees(call)))
BY CallInvariance, ArrivesIfAgrees, PTL

\* When a call is over, the stack and all registers that the compiler counts on
\* are as it left them, whatever register the stub used and the function changed.
THEOREM UndisturbedTheorem == Spec => []Undisturbed
<1>1. CallInv => Undisturbed
  <2> SUFFICES ASSUME CallInv, pc = "done", NEW r \in stub.kept
               PROVE  reg[r] = Loaded[r]
    BY DEF Undisturbed, CallInv
  <2>1. call \in Calls
        /\ reg = IF stub.saves THEN [Returned EXCEPT ![Tag] = Loaded[Tag]] ELSE Returned
    BY DEF CallInv
  <2>2. r \in Register /\ r \notin Scratch
    BY <2>1, CallsAssumption DEF WellFormed, stub
  <2>3. Returned[r] = Passed[r] /\ DOMAIN Returned = Register
    BY <2>2 DEF Returned, Scratch
  <2>4. DOMAIN Loaded = Register
    BY <2>1, Shapes
  <2>5. r # Tag \/ ~stub.saves => Passed[r] = Loaded[r]
    BY <2>2, <2>4 DEF Passed
  <2>. QED
    BY <2>1, <2>2, <2>3, <2>4, <2>5
<1>. QED
  BY <1>1, CallInvariance, PTL

\* The result of a function is where the caller looks for it, save in a stub that
\* restores d0 over it; a binding of a function with a result is taken to hand it
\* on.
THEOREM ResultLostTheorem ==
  ASSUME \A c \in Calls : c.promise.gives => c.stub.gives
  PROVE  Spec => []ResultLost
<1>1. CallInv => ResultLost
  <2> SUFFICES ASSUME CallInv, pc = "done", promise.gives
               PROVE  ResultKept <=> ~(stub.saves /\ Tag = D0)
    BY DEF ResultLost
  <2>1. call \in Calls
        /\ reg = IF stub.saves THEN [Returned EXCEPT ![Tag] = Loaded[Tag]] ELSE Returned
    BY DEF CallInv
  <2>2. stub.gives
    BY <2>1 DEF stub, promise
  <2>3. Returned[D0] = Result /\ DOMAIN Returned = Register /\ D0 \in Register
    BY DEF Returned, D0, Register
  <2>4. Loaded[D0] # Result
    BY <2>3 DEF Loaded, Result, Base, Arg, Slot, Was
  <2>5. stub.saves => Tag \in Register
    BY <2>1, Shapes
  <2>. QED
    BY <2>1, <2>2, <2>3, <2>4, <2>5 DEF ResultKept
<1>. QED
  BY <1>1, CallInvariance, PTL
=============================================================================
