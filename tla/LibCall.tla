------------------------------- MODULE LibCall -------------------------------
(***************************************************************************)
(* A C program calls a library function through one of the bindings that   *)
(* the package gives it: the compiler loads the arguments, the code of the *)
(* binding jumps through the library's vector, and the function finds its  *)
(* arguments where its description says.  The last element of stack is the *)
(* one a7 points at, so its length stands for a7.                          *)
(***************************************************************************)
EXTENDS LibBindings

CONSTANTS
  Calls,     \* the calls: [name, promise, stub], where promise is what description
             \* and prototype say of the function and stub is the binding
  Disputed,  \* the names of the calls in which these differ
  More       \* how many variable arguments a call has

\* A binding takes as many arguments as the prototype has, each in a register of
\* its own and none in a6, with one more for the address of the variable ones,
\* which alone a stub sets itself; the compiler does not count on a register that
\* a function may change.
WellFormed(c) ==
  LET p == c.promise
      s == c.stub
  IN  /\ p.fixed \in Nat /\ p.more \in BOOLEAN /\ p.gives \in BOOLEAN
      /\ s.more = p.more /\ s.saves \in BOOLEAN /\ (s.saves => s.more)
      /\ p.args \in Seq(Register \ {A6}) /\ s.args \in Seq(Register \ {A6})
      /\ Len(s.args) = p.fixed + (IF p.more THEN 1 ELSE 0)
      /\ IsInjective(s.args)
      /\ s.kept \subseteq Register \ Scratch

ASSUME MoreAssumption  == More \in Nat
ASSUME CallsAssumption == \A c \in Calls : WellFormed(c)

VARIABLES
  call,      \* the call that is made
  pc,        \* what is next
  reg,       \* the registers
  stack      \* what was pushed since the call began
vars == <<call, pc, reg, stack>>

\* Values: what register r held before; the i-th argument; the address of the
\* k-th slot of the stack; the library; the result; what a function leaves.
Was(r)  == <<0, r>>
Arg(i)  == <<1, i>>
Slot(k) == <<2, k>>
Base    == <<3, 0>>
Result  == <<4, 0>>
Left(r) == <<5, r>>

promise == call.promise
stub    == call.stub
Tag     == stub.args[Len(stub.args)]

\* What the compiler does: named arguments in registers, variable ones on the
\* stack, the first on top.  For a tagcall it also loads the pointer.
Pushed == [k \in 1 .. IF stub.more THEN More ELSE 0 |-> Arg(promise.fixed + More + 1 - k)]
Named(r) == {i \in DOMAIN stub.args : i <= promise.fixed /\ stub.args[i] = r}
Loaded ==
  [r \in Register |->
     IF r = A6 THEN Base
     ELSE IF Named(r) # {} THEN Arg(CHOOSE i \in Named(r) : TRUE)
     ELSE IF stub.more /\ ~stub.saves /\ r = Tag THEN Slot(More)
     ELSE Was(r)]

Init ==
  /\ call \in Calls
  /\ pc = "load"
  /\ reg = [r \in Register |-> Was(r)]
  /\ stack = <<>>

Load ==
  /\ pc = "load" /\ pc' = (IF stub.saves THEN "push" ELSE "jsr")
  /\ reg' = Loaded /\ stack' = Pushed
  /\ UNCHANGED call

\* move.l Rn,-(a7)
Push ==
  /\ pc = "push" /\ pc' = "point"
  /\ stack' = Append(stack, reg[Tag])
  /\ UNCHANGED <<call, reg>>

\* lea 4(a7),An; or move.l a7,Dn and addq.l #4,Dn: the slot below the top.
AboveTop_NotAdded == Slot(Len(stack))
AboveTop == Slot(Len(stack) - 1)
Point ==
  /\ pc = "point" /\ pc' = "jsr"
  /\ reg' = [reg EXCEPT ![Tag] = AboveTop]
  /\ UNCHANGED <<call, stack>>

Jsr ==
  /\ pc = "jsr" /\ pc' = "function"
  /\ UNCHANGED <<call, reg, stack>>

\* The function: its result in d0; it may change the scratch registers.
Function ==
  /\ pc = "function" /\ pc' = (IF stub.saves THEN "pop" ELSE "done")
  /\ reg' = [r \in Register |->
               IF r = D0 /\ promise.gives THEN Result ELSE IF r \in Scratch THEN Left(r) ELSE reg[r]]
  /\ UNCHANGED <<call, stack>>

\* movea.l (a7)+,An; move.l (a7)+,Dn
Popped_Left == stack
Popped == SubSeq(stack, 1, Len(stack) - 1)
Pop ==
  /\ pc = "pop" /\ pc' = "done"
  /\ reg' = [reg EXCEPT ![Tag] = stack[Len(stack)]]
  /\ stack' = Popped
  /\ UNCHANGED call

Next == Load \/ Push \/ Point \/ Jsr \/ Function \/ Pop
Spec == Init /\ [][Next]_vars

\* The function is entered through its own slot of the jump table, with the
\* library in a6, every named argument in the register of its description, and
\* in the last of these registers the address of the variable arguments, which
\* lie there in their order.
Arrives ==
  /\ stub.vector = promise.vector
  /\ reg[A6] = Base
  /\ Len(promise.args) = promise.fixed + (IF promise.more THEN 1 ELSE 0)
  /\ \A i \in 1 .. promise.fixed : reg[promise.args[i]] = Arg(i)
  /\ promise.more =>
       \E top \in 0 .. Len(stack) :
         /\ reg[promise.args[Len(promise.args)]] = Slot(top)
         /\ top >= More
         /\ \A k \in 1 .. More : stack[top + 1 - k] = Arg(promise.fixed + k)

\* The binding and the description name the same slot and the same registers.
Agrees(c) == c.stub.vector = c.promise.vector /\ c.stub.args = c.promise.args

\* That is what happens in every call, whichever binding makes it, but for those
\* in which a binding and the description differ.
ArgumentsArrive == pc = "function" => (Arrives <=> call.name \notin Disputed)

\* When the call is over, the stack is as the compiler left it, and so is every
\* register that it counts on.
Undisturbed ==
  pc = "done" => stack = Pushed /\ \A r \in stub.kept : reg[r] = Loaded[r]

\* A function that the prototype gives a result has it in d0 when the call is
\* over (include/inline hands it on from there).
ResultKept ==
  pc = "done" /\ promise.gives => stub.gives /\ reg[D0] = Result

\* It is lost only in a stub that restores d0 itself.
ResultLost ==
  pc = "done" /\ promise.gives => (ResultKept <=> ~(stub.saves /\ Tag = D0))
=============================================================================
