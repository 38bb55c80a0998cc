------------------------------ MODULE InitTable ------------------------------
(***************************************************************************)
(* A table for exec's InitStruct(), which stores values in a structure:    *)
(* what the macros of exec/initializers.i and exec/initializers.h put into *)
(* memory for each entry, and what InitStruct() makes of it.  The table is *)
(* a sequence of bytes; a word of 0 ends it.                               *)
(***************************************************************************)
EXTENDS Integers, SequencesExt

CONSTANTS
  Tables  \* the tables: sequences of [macro, offset, data], data the values' bytes

VARIABLES
  entries,   \* the table that is read
  at,        \* where InitStruct() reads, 0 when it has returned
  structure  \* the structure: the addresses that were stored to, with their bytes
initVars == <<entries, at, structure>>

Byte(x) == x % 256
Word(x) == << Byte(x \div 256), Byte(x) >>

\* The offset takes a byte where that is enough; else a command with 24 bits for it,
\* of which only INITSTRUCT puts more than the lower 16 there.
ByteOffset_To256(offset) == offset <= 256
ByteOffset(offset) == offset <= 255
Command(short, long, upper, offset) ==
  IF ByteOffset(offset) THEN << short, Byte(offset) >> ELSE << long, upper >> \o Word(offset)

\* exec/initializers.i: the value after its command; a byte is followed by 0.  The
\* data of INITSTRUCT is put after it by the program, the next table word is even.
Padded(data) == IF Len(data) % 2 = 0 THEN data ELSE Append(data, 0)
Item == [i_INITSTRUCT_byte |-> 1, i_INITSTRUCT_word |-> 2, h_INITSTRUCT_byte |-> 1]
SizeBits == [i_INITSTRUCT_byte |-> 2, i_INITSTRUCT_word |-> 1, h_INITSTRUCT_byte |-> 2]
Count(e) == (Len(e.data) \div Item[e.macro]) - 1
Cmd(e) == SizeBits[e.macro] * 16 + Count(e)

\* exec/initializers.h: always 24 bits, of which the upper 8 are 0, and INITSTRUCT
\* closes its parentheses so late that of its two words, a comma between them, the
\* compiler takes the second alone.
Assembled(e) ==
  CASE e.macro = "i_INITBYTE" -> Command(160, 224, 0, e.offset) \o Padded(e.data)
    [] e.macro = "i_INITWORD" -> Command(144, 208, 0, e.offset) \o e.data
    [] e.macro = "i_INITLONG" -> Command(128, 192, 0, e.offset) \o e.data
    [] e.macro \in {"i_INITSTRUCT_byte", "i_INITSTRUCT_word"} ->
         Command(128 + Cmd(e), 192 + Cmd(e), Byte(e.offset \div 65536), e.offset) \o Padded(e.data)
    [] e.macro = "h_INITBYTE" -> <<224, 0>> \o Word(e.offset) \o Padded(e.data)
    [] e.macro = "h_INITWORD" -> <<208, 0>> \o Word(e.offset) \o e.data
    [] e.macro = "h_INITLONG" -> <<192, 0>> \o Word(e.offset) \o e.data
    [] e.macro = "h_INITSTRUCT_byte" -> Word(e.offset) \o Padded(e.data)

Table == FlattenSeq([k \in DOMAIN entries |-> Assembled(entries[k])]) \o <<0, 0>>

Init == entries \in Tables /\ at = 1 /\ structure = <<>>

\* InitStruct(): a command byte says where the offset is (10: the next byte, 11: the
\* next three), the size of an item and how many follow but one; 0 ends the table.
Where == Table[at] \div 64
Long == Where = 3
Offset == IF Long THEN (Table[at + 1] * 256 + Table[at + 2]) * 256 + Table[at + 3] ELSE Table[at + 1]
Bytes == (CASE (Table[at] \div 16) % 4 = 0 -> 4 [] (Table[at] \div 16) % 4 = 1 -> 2
            [] (Table[at] \div 16) % 4 = 2 -> 1) * ((Table[at] % 16) + 1)
First == at + (IF Long THEN 4 ELSE 2)
Stored(memory, offset, data) ==
  [a \in offset .. offset + Len(data) - 1 |-> data[a - offset + 1]] @@ memory

Store ==
  /\ at # 0 /\ Where \in {2, 3}
  /\ structure' = Stored(structure, Offset, SubSeq(Table, First, First + Bytes - 1))
  /\ at' = First + Bytes + (Bytes % 2)
  /\ UNCHANGED entries

Return ==
  /\ at # 0 /\ Table[at] = 0
  /\ at' = 0
  /\ UNCHANGED <<entries, structure>>

Next == Store \/ Return
Spec == Init /\ [][Next]_initVars

\* The bytes of every entry lie at its offset when InitStruct() returns, whichever
\* macro assembled it: at the offset without its upper bits if that does not fit in
\* 16, unless it was INITSTRUCT of the assembler; and an INITSTRUCT of the C header
\* ends the table instead, for with a byte offset its only word begins with 0.
Whole == SelectInSeq(entries, LAMBDA e : e.macro = "h_INITSTRUCT_byte")
Kept(e) == IF e.macro \in {"i_INITSTRUCT_byte", "i_INITSTRUCT_word"} THEN e.offset ELSE e.offset % 65536
Promised ==
  FoldLeft(LAMBDA memory, e : Stored(memory, Kept(e), e.data), <<>>,
           IF Whole = 0 THEN entries ELSE SubSeq(entries, 1, Whole - 1))
StoresPromised == at = 0 => structure = Promised
=============================================================================
