------------------------------ MODULE MCInline ------------------------------
(* What headers compile into a program, each piece by itself: memset at every *)
(* alignment and length up to 44; the string functions on every string of up  *)
(* to three characters over two letters, unterminated where a count allows    *)
(* it; tables for InitStruct() of two entries, with offsets around 255 and    *)
(* 65536; tables for PackStructureTags(), every flag of every width, all      *)
(* values around the limits of a field; four control messages; user numbers   *)
(* around each limit; a file of seven characters copied through buffers of    *)
(* three; interrupts counted for two seconds of three ticks and seven parts;   *)
(* every structure that assembler and C both describe.                        *)
EXTENDS Inline

VARIABLES v1, v2, v3, v4, v5
tableVars == <<v1, v2, v3, v4, v5>>

MCSetCalls == [cpu : {68000, 68020}, p : 1 .. 4, n : 0 .. 44]

Text(n) == [1 .. n -> 0 .. 2]
None == {<<0>>}
All(f, as, bs, ns, cs) == [fn : {f}, a : as, b : bs, n : ns, c : cs]
StrArguments ==
  All("strlen", Text(4), None, {0}, {0}) \cup All("strrchr", Text(4), None, {0}, 0 .. 5)
    \cup All("strcmp", Text(3), Text(4), {0}, {0}) \cup All("strncmp", Text(3), Text(3), 0 .. 8, {0})
    \cup All("strcpy", Text(4), Text(3), {0}, {0}) \cup All("strncpy", Text(4), Text(2), 0 .. 4, {0})
    \cup All("strcat", Text(4), Text(3), {0}, {0})
Legally == INSTANCE StrInline WITH LongMod <- SizeMod, Calls <- {}
MCStrCalls == {s \in StrArguments : Legally!Legal(s)}

InitEntry(ms, os, data) == [macro : ms, offset : os, data : {data}]
InitEntries ==
  InitEntry({"i_INITBYTE", "h_INITBYTE"}, {0, 3, 254, 255, 256, 257, 65535, 65536, 65540}, <<7>>)
    \cup InitEntry({"i_INITWORD", "h_INITWORD"}, {0, 2, 254, 256, 65534, 65538}, <<7, 8>>)
    \cup InitEntry({"i_INITLONG", "h_INITLONG"}, {0, 252, 254, 256, 65532, 131072}, <<0, 7, 0, 8>>)
    \cup InitEntry({"i_INITSTRUCT_byte"}, {0, 255, 256, 65535, 65536, 70000}, <<9, 0, 8>>)
    \cup InitEntry({"i_INITSTRUCT_word"}, {0, 255, 256, 65536}, [k \in 1 .. 32 |-> k])
    \cup InitEntry({"h_INITSTRUCT_byte"}, {0, 1, 255}, <<9, 0, 8>>)
Ini == INSTANCE InitTable WITH Tables <- InitEntries \X InitEntries, entries <- v1, at <- v2, structure <- v3

Flags(n) == [bit : 0 .. n - 1, signed : BOOLEAN]
Plain(base) ==
  [macro : {"PACK_ENTRY"}, tag : {base, base + 1023}, control : {0, 34816, 20480}, offset : {0, 1, 8191}]
Bits(m, n) ==
  [macro : {m}, tag : {103}, control : {6144, 38912}, offset : {0, 8188}, flag : Flags(n)]
MCPackTables ==
  {<< [base |-> 100], e >> :
     e \in Bits("PACK_BYTEBIT", 8) \cup Bits("PACK_WORDBIT", 16) \cup Bits("PACK_LONGBIT", 32)}
    \cup {<< [base |-> 100], e, [base |-> 2000], f >> : e \in Plain(100), f \in Plain(2000)}
Pack == INSTANCE PackTable WITH PackTables <- MCPackTables,
         source <- v1, table <- v2, word <- v3, base <- v4, handled <- v5

Headers == {4, 16, 20}  \* where headers lie whose length is not 12
Memories == [Headers -> {0, 12, 13, 15, 16, 24, 52, 56, 60, 63}]
MCMsgs ==
  [ control : {4}, controllen : {0, 8, 12} \cup 23 .. 28 \cup {36, 40, 56, 59},
    memory : {[a \in 0 .. PtrMod - 1 |-> IF a \in Headers THEN lens[a] ELSE 12] : lens \in Memories} ]
MCIds == -65540 .. -65530 \cup -4 .. 4 \cup 32766 .. 32769 \cup 65530 .. 65540
MCContent == <<"a", "n", "y", "b", "n", "n", "y">>  \* y is the character 255

Lay == INSTANCE StructurePairs WITH symbols <- v1, tags <- v2, read <- v3, latest <- v4

\* Structures of which the two headers put some field at different offsets.  A
\* field is missing, or is longer or shorter, in one of PartitionBlock,
\* PrtDriverPreferences, Layer, copinit, the amigaguide methods and the two unit
\* preferences; the accelerations of AnimOb changed places; in the others the
\* assembler goes on at an odd offset where the compiler does not.
FieldsDiffer ==
  { "PartitionBlock", "PrtDriverPreferences", "Layer", "copinit", "opFindHost", "opNodeIO", "opExpungeNode",
    "PrinterUnitPrefs", "PrinterDeviceUnitPrefs", "AnimOb", "FontPrefs", "PrinterGfxPrefs", "PrinterTxtPrefs" }

\* Structures whose lengths differ: those of which the difference of the fields is
\* not made up for; those that end odd for the assembler; those that C ends with
\* what follows (an array's first element, a user's extension, a segment's data),
\* keeps private or reserves; ClipRect, whose Flags C has only if NEWCLIPRECTS_1_1 is
\* defined; DBufPacket, GadgetInfo, XRef, PointerPrefs, AppMessage, collTable and
\* MemChunk, of which one header is out of date or wrong.
SizesDiffer ==
  { "PrtDriverPreferences", "copinit", "opFindHost", "opNodeIO", "opExpungeNode", "PrinterUnitPrefs",
    "PrinterDeviceUnitPrefs", "FontPrefs", "PrinterGfxPrefs", "PrinterTxtPrefs",
    "Conductor", "SerialPrefs", "AChain", "AnchorPath", "MemList", "VSprite", "Bob", "AnimOb", "PrinterSegment",
    "AppWindow", "AppWindowDropZone", "AppIcon", "AppMenuItem", "AppMenu", "WorkbenchHiddenDevicePrefs",
    "ClipRect", "DBufPacket", "GadgetInfo", "XRef", "PointerPrefs", "AppMessage", "collTable", "MemChunk" }

NoTable == v1 = 0 /\ v2 = 0 /\ v3 = 0 /\ v4 = 0 /\ v5 = 0
NoPiece == NoCall /\ NoUser /\ NoCmsg /\ NoIntr /\ NoFile

MCInit ==
  \/ Init /\ NoTable
  \/ which = "init" /\ Ini!Init /\ v4 = 0 /\ v5 = 0 /\ NoPiece
  \/ which = "pack" /\ Pack!Init /\ NoPiece
  \/ which = "layout" /\ Lay!Init /\ v5 = 0 /\ NoPiece

MCNext ==
  \/ Next /\ UNCHANGED tableVars
  \/ which = "init" /\ Ini!Next /\ UNCHANGED <<v4, v5, vars>>
  \/ which = "pack" /\ Pack!Next /\ UNCHANGED vars
  \/ which = "layout" /\ Lay!Next /\ UNCHANGED <<v5, vars>>

MCSpec == MCInit /\ [][MCNext]_<<vars, tableVars>>

\* The tables that the macros of exec/initializers and utility/pack.h assemble are
\* read as the structures, values, tags and bits that the macros were given.
TablesRight == (which = "init" => Ini!StoresPromised) /\ (which = "pack" => Pack!TableTold)

\* A field of a structure is at the same offset, and the structure as long, for a
\* program in assembler (the macros of ndk/include_i/exec/types.i) and for one in C,
\* but for the structures listed, which really differ.
LayoutsAgree ==
  which = "layout" /\ Lay!Described =>
    /\ Lay!FieldsAgree <=> v4.name \notin FieldsDiffer
    /\ Lay!SizesAgree <=> v4.name \notin SizesDiffer
=============================================================================
