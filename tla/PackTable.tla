------------------------------ MODULE PackTable ------------------------------
(***************************************************************************)
(* A table for PackStructureTags() and UnpackStructureTags(): the longwords *)
(* that the macros of utility/pack.h make, and the walk over them that the *)
(* comment at the head of the file describes.  A longword is a pair of     *)
(* words.                                                                  *)
(***************************************************************************)
EXTENDS Integers, SequencesExt, Bitwise

CONSTANTS
  PackTables  \* the tables: sequences of PACK_NEWOFFSET (its base alone) and entries
              \* [macro, tag, control, offset, flag], flag of one bit: [bit, signed]

VARIABLES
  source,   \* the table that is walked; it starts with the base
  table,    \* its longwords
  word,     \* the longword that is next, 0 when the walk is over
  base,     \* the base tag
  handled   \* what each entry that was met tells: [tag, control, address, bit]
packVars == <<source, table, word, base, handled>>

IsBase(e) == DOMAIN e = {"base"}

\* A flag is 2^bit; a signed long that has bit 31 is negative, thus less than any.
Less(flag, k) == (flag.signed /\ flag.bit = 31) \/ flag.bit < k
PK_BITNUM1(k) == IF k \in 0 .. 6 THEN k ELSE 7
PK_BITNUM2(flag, k) == IF Less(flag, 8) THEN PK_BITNUM1(k) ELSE 8 + PK_BITNUM1(k - 8)
PK_BITNUM(flag) ==
  IF Less(flag, 16) THEN PK_BITNUM2(flag, flag.bit)
  ELSE 16 + PK_BITNUM2([flag EXCEPT !.bit = @ - 16], flag.bit - 16)

\* The byte of a big-endian field that holds the flag.
PK_WORDOFFSET_Little(flag) == IF Less(flag, 8) THEN 0 ELSE 1
PK_WORDOFFSET(flag) == IF Less(flag, 8) THEN 1 ELSE 0
PK_LONGOFFSET(flag) ==
  IF Less(flag, 8) THEN 3 ELSE IF Less(flag, 16) THEN 2 ELSE IF Less(flag, 24) THEN 1 ELSE 0

\* The control bits, the tag's distance from the base, the bit, the address; the
\* parts are joined by | and none of them is masked.
Address(e) ==
  CASE e.macro \in {"PACK_ENTRY", "PACK_BYTEBIT"} -> e.offset
    [] e.macro = "PACK_WORDBIT" -> e.offset + PK_WORDOFFSET(e.flag)
    [] e.macro = "PACK_LONGBIT" -> e.offset + PK_LONGOFFSET(e.flag)
Bit(e) ==
  CASE e.macro = "PACK_ENTRY" -> 0
    [] e.macro = "PACK_BYTEBIT" -> PK_BITNUM(e.flag)
    [] e.macro \in {"PACK_WORDBIT", "PACK_LONGBIT"} -> PK_BITNUM(e.flag) % 8
Entry(e, from) ==
  << e.control | ((e.tag - from) % 65536), Address(e) | (Bit(e) * 8192) >>
BaseAt(k) ==
  source[CHOOSE j \in 1 .. k : IsBase(source[j]) /\ \A i \in j + 1 .. k : ~IsBase(source[i])].base
Stop == <<0, 0>>
NewBase == <<65535, 65535>>
Assembled ==
  FlattenSeq([k \in DOMAIN source |->
    IF ~IsBase(source[k]) THEN << Entry(source[k], BaseAt(k)) >>
    ELSE IF k = 1 THEN << source[k].base >> ELSE << NewBase, source[k].base >>]) \o << Stop >>

Init ==
  /\ source \in PackTables
  /\ table = Assembled
  /\ word = 2 /\ base = table[1] /\ handled = <<>>

\* The fields of a longword, as the comment draws them.
Fields(w) ==
  [ tag     |-> base + (w[1] % 1024),
    control |-> (w[1] \div 1024) * 1024,
    address |-> w[2] % 8192,
    bit     |-> w[2] \div 8192 ]

Handle ==
  /\ word # 0 /\ table[word] \notin {Stop, NewBase}
  /\ handled' = Append(handled, Fields(table[word]))
  /\ word' = word + 1
  /\ UNCHANGED <<source, table, base>>

Rebase ==
  /\ word # 0 /\ table[word] = NewBase
  /\ base' = table[word + 1] /\ word' = word + 2
  /\ UNCHANGED <<source, table, handled>>

EndTable ==
  /\ word # 0 /\ table[word] = Stop
  /\ word' = 0
  /\ UNCHANGED <<source, table, base, handled>>

Next == Handle \/ Rebase \/ EndTable
Spec == Init /\ [][Next]_packVars

\* The walk tells of every entry what its macro was given: the tag, the control bits,
\* the byte of the structure that holds the field or the flag, the flag's bit in it.
\* It does so as long as tags are within 10 bits of their base and addresses within
\* 13 bits, but for bit 31 of a signed long, which is sought three bytes behind, and
\* for an entry of 0 (the base tag, an unsigned byte at the start of the structure),
\* which ends the table.
Bytes == [PACK_BYTEBIT |-> 1, PACK_WORDBIT |-> 2, PACK_LONGBIT |-> 4]
Negative(e) == e.macro = "PACK_LONGBIT" /\ e.flag.signed /\ e.flag.bit = 31
Told(e) ==
  [ tag |-> e.tag, control |-> e.control,
    address |-> IF e.macro = "PACK_ENTRY" THEN e.offset
                ELSE e.offset + (Bytes[e.macro] - 1 - (e.flag.bit \div 8)) + (IF Negative(e) THEN 3 ELSE 0),
    bit |-> IF e.macro = "PACK_ENTRY" THEN 0 ELSE e.flag.bit % 8 ]
Zero(k) ==
  LET e == source[k]
  IN  ~IsBase(e) /\ e.tag = BaseAt(k) /\ Told(e).control = 0 /\ Told(e).address = 0 /\ Told(e).bit = 0
Heard ==
  IF \E k \in DOMAIN source : Zero(k)
  THEN SubSeq(source, 1, (CHOOSE k \in DOMAIN source : Zero(k) /\ \A j \in 1 .. k - 1 : ~Zero(j)) - 1)
  ELSE source
TableTold ==
  LET kept == SelectSeq(Heard, LAMBDA e : ~IsBase(e))
  IN  word = 0 => handled = [k \in DOMAIN kept |-> Told(kept[k])]
=============================================================================
