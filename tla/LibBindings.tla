----------------------------- MODULE LibBindings -----------------------------
(***************************************************************************)
(* How the tables of the package describe a library function: the lines of *)
(* a function description (ndk/sfd), the codes of the pragmas, the stubs   *)
(* of include/inline, the statements of netinclude/inline, the prototypes. *)
(* A DOUBLE in a pair of data registers is named by the first of the pair. *)
(***************************************************************************)
EXTENDS Integers, SequencesExt

(***************************************************************************)
(* The registers of a 68000, numbered as the codes of the pragmas number   *)
(* them; a7, the stack pointer, is not among those that hold an argument.  *)
(***************************************************************************)
D0 == 0
D1 == 1
D2 == 2
D3 == 3
D4 == 4
D5 == 5
D6 == 6
D7 == 7
A0 == 8
A1 == 9
A2 == 10
A3 == 11
A4 == 12
A5 == 13
A6 == 14

Register == 0 .. 14

\* What a function of a library may change.
Scratch == {D0, D1, A0, A1}

(***************************************************************************)
(* A description is a list of directives and functions; a function is its  *)
(* name, then its registers.                                               *)
(***************************************************************************)
Bias(n)    == <<"bias", n>>
Reserve(n) == <<"reserve", n>>
Varargs    == <<"varargs">>
Alias      == <<"alias">>
Directives == {"bias", "reserve", "varargs", "alias"}

IsFunction(e) == e[1] \notin Directives

\* Each function takes the next slot of six bytes from ==bias on, ==reserve leaves
\* slots out, and one after ==varargs or ==alias is a second name for the slot
\* before.
SecondName(file, k) == k > 1 /\ file[k - 1] \in {Varargs, Alias}
Reserved(file, k) == MapThenSumSet(LAMBDA j : file[j][2], {j \in 1 .. k : file[j][1] = "reserve"})
Used(file, k) == Cardinality({j \in 1 .. k : IsFunction(file[j]) /\ ~SecondName(file, j)})
Start(file) == file[CHOOSE j \in DOMAIN file : file[j][1] = "bias"][2]
Vector(file, k) == Start(file) + 6 * (Used(file, k) - 1 + Reserved(file, k))

Described(file) ==
  LET at(f) == CHOOSE k \in DOMAIN file : file[k][1] = f
  IN  [f \in {file[k][1] : k \in DOMAIN file} \ Directives |->
         [vector |-> Vector(file, at(f)), args |-> Tail(file[at(f)])]]

(***************************************************************************)
(* A binding: the vector it calls through; the registers of the arguments, *)
(* for a function of variable arguments the register that points at them   *)
(* last; whether its code saves and sets that register itself; what the    *)
(* compiler counts on to be kept; whether it hands a result on.            *)
(***************************************************************************)
Binding(v, regs, more, saves, kept, gives) ==
  [vector |-> v, args |-> regs, more |-> more, saves |-> saves, kept |-> kept, gives |-> gives]

\* The code of a pragma is a number of hexadecimal digits: the registers from the
\* last argument to the first, the register of the result, the count.
Code_Forwards(c) == SubSeq(c, 1, c[Len(c)])
Code(c) == Reverse(SubSeq(c, 1, c[Len(c)]))
Pragma(v, c, more) == Binding(v, Code(c), more, FALSE, Register \ Scratch, TRUE)
Libcall(v, c) == Pragma(v, c, FALSE)
Tagcall(v, c) == Pragma(v, c, TRUE)

\* An inline stub: jsr alone, or with the instructions that pass the address of
\* the first variable argument in register t.
Fn_Void(v, regs)     == Binding(v, regs, FALSE, FALSE, Register \ Scratch, FALSE)
Fn(v, regs)          == Binding(v, regs, FALSE, FALSE, Register \ Scratch, TRUE)
Proc(v, regs)        == Binding(v, regs, FALSE, FALSE, Register \ Scratch, FALSE)
FnTags(v, regs, t)   == Binding(v, Append(regs, t), TRUE, TRUE, Register \ Scratch, TRUE)
ProcTags(v, regs, t) == Binding(v, Append(regs, t), TRUE, TRUE, Register \ Scratch, FALSE)

\* An asm statement lists what it changes; the result is in d0.
AsmFn(v, regs, clobbers)   == Binding(v, regs, FALSE, FALSE, Register \ (clobbers \cup {D0}), TRUE)
AsmProc(v, regs, clobbers) == Binding(v, regs, FALSE, FALSE, Register \ clobbers, FALSE)

\* A prototype.
Gives(n)     == [gives |-> TRUE, args |-> n, more |-> FALSE]
Void(n)      == [gives |-> FALSE, args |-> n, more |-> FALSE]
GivesMore(n) == [gives |-> TRUE, args |-> n, more |-> TRUE]
VoidMore(n)  == [gives |-> FALSE, args |-> n, more |-> TRUE]
=============================================================================
