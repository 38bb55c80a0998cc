------------------------------- MODULE Layouts -------------------------------
(***************************************************************************)
(* A structure of the system is described twice, to the assembler and to   *)
(* the C compiler, and programs of both pass it to one another.  The       *)
(* assembler puts each field where the one before ended; the compiler      *)
(* first rounds up to what the type asks for.                              *)
(***************************************************************************)
EXTENDS Integers, Sequences, TLC
LOCAL INSTANCE SequencesExt

VARIABLES
  symbols,   \* the assembler's names and their values
  tags,      \* the C compiler's structures
  read,      \* how many have been read
  latest     \* the two descriptions read last

Aligned(offset, n) == ((offset + n - 1) \div n) * n
Larger(m, n) == IF m > n THEN m ELSE n
NamesOf(line) == {line[k] : k \in 2 .. Len(line)}
NthOf(line, x) == CHOOSE k \in 2 .. Len(line) : line[k] = x

(***************************************************************************)
(* The macros of exec/types.i: what each adds to SOFFSET behind the names  *)
(* it defines.  STRUCT adds a number of its own.  The two that align have  *)
(* no name.                                                                *)
(***************************************************************************)
LABEL == 0
BYTE  == 1
UBYTE == 1
BOOL  == 2
WORD  == 2
UWORD == 2
SHORT == 2
USHORT == 2
RPTR  == 2
LONG  == 4
ULONG == 4
FLOAT == 4
APTR  == 4
CPTR  == 4
FPTR_Relative == 2
FPTR  == 4
BPTR  == 4
BSTR  == 4
DOUBLE == 8
ALIGNWORD == -2
ALIGNLONG == -4

\* A line <<macro, names...>> stands for the macro once for each name.
Assemble(s, line) ==
  LET n == line[1]
  IN  IF n < 0
      THEN [s EXCEPT !.size = Aligned(@, -n)]
      ELSE [ at   |-> s.at @@ [x \in NamesOf(line) |-> s.size + n * (NthOf(line, x) - 2)],
             size |-> s.size + n * (Len(line) - 1) ]

\* STRUCTURE name,first and its lines: the names and the last SOFFSET.
Structure(first, lines) == FoldLeft(Assemble, [at |-> <<>>, size |-> first], lines)

(***************************************************************************)
(* The types of C and what vbcc makes of them for a 68000: everything      *)
(* longer than a byte at an even offset, a structure as long as makes the  *)
(* next of an array of them begin right.                                   *)
(***************************************************************************)
Byte   == [size |-> 1, align |-> 1]
Word   == [size |-> 2, align |-> 2]
Long   == [size |-> 4, align |-> 2]
Ptr    == [size |-> 4, align |-> 2]
Double == [size |-> 8, align |-> 2]
Array(type, n) == [size |-> type.size * n, align |-> type.align]

\* A structure or union without a tag, whose members are named like those around it.
Inner(type) == type @@ [inner |-> type.at]

InnerAt(type, start) ==
  IF "inner" \in DOMAIN type THEN [x \in DOMAIN type.inner |-> start + type.inner[x]] ELSE <<>>

\* A member <<type, names...>> from offset start on.
Members(member, start) ==
  LET type == member[1]
  IN  [x \in NamesOf(member) |-> start + type.size * (NthOf(member, x) - 2)] @@ InnerAt(type, start)

Whole(s) == [s EXCEPT !.size = Aligned(@, s.align)]

Struct(members) ==
  LET next(s, member) ==
        LET type == member[1]
            start == Aligned(s.size, type.align)
        IN  [ at    |-> s.at @@ Members(member, start),
              size  |-> start + type.size * (Len(member) - 1),
              align |-> Larger(s.align, type.align) ]
  IN  Whole(FoldLeft(next, [at |-> <<>>, size |-> 0, align |-> 1], members))

Union(members) ==
  LET next(s, member) ==
        [ at    |-> s.at @@ [x \in NamesOf(member) |-> 0] @@ InnerAt(member[1], 0),
          size  |-> Larger(s.size, member[1].size),
          align |-> Larger(s.align, member[1].align) ]
  IN  Whole(FoldLeft(next, [at |-> <<>>, size |-> 0, align |-> 1], members))

\* Of a structure that has one description only.
Nothing == [at |-> <<>>, size |-> 0, align |-> 1]

Both(name, asm, c) == [name |-> name, asm |-> asm, c |-> c]
=============================================================================
