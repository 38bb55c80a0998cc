----------------------------- MODULE StdioMacros -----------------------------
(***************************************************************************)
(* putc and getc, which include/stdio.h defines as macros over the count,  *)
(* the pointer and the flags of a FILE.  A program copies its input up to  *)
(* the end: it reads a character and puts it unless it is EOF,             *)
(*     while ((c = getc(in)) != EOF) putc(c, out);                         *)
(* or it writes both in one,                                               *)
(*     while (!feof(in)) putc(getc(in), out);                              *)
(* _fillbuf() and _putbuf() are in a binary library.                       *)
(***************************************************************************)
EXTENDS Integers, Sequences

CONSTANTS
  Content,   \* what the input file holds
  Size,      \* bufsize of both streams
  Newline,   \* the character that ends a line
  EOF,       \* what getc returns at the end, an int that is no character
  Char255    \* the character that EOF is when it is stored as one

Characters == {Content[k] : k \in DOMAIN Content} \cup {Newline, Char255}
File == Content \in Seq(Characters) /\ Size \in Nat \ {0} /\ EOF \notin Characters

VARIABLES
  step,      \* what is next
  nested,    \* whether the argument of putc is getc(in)
  lineBuf,   \* whether _LINEBUF is set for the output
  in, out,   \* the streams: [file, buffer, count], buffer what lies in it unread, unwritten
  eof,       \* _EOF of the input's flags
  c,         \* what getc returned
  got,       \* all that it returned so far
  tested     \* how many of these were read for the comparison in putc
stdioVars == <<step, nested, lineBuf, in, out, eof, c, got, tested>>

Init ==
  /\ step = "begin" /\ nested \in BOOLEAN /\ lineBuf \in BOOLEAN
  /\ in = [file |-> Content, buffer |-> <<>>, count |-> 0] /\ eof = FALSE
  /\ out = [file |-> <<>>, buffer |-> <<>>, count |-> 0]
  /\ c = Newline /\ got = <<>> /\ tested = 0

\* _fillbuf(in): a part of the file, whose first character it returns; or EOF.
Fill(n) ==
  /\ n <= Len(in.file) /\ UNCHANGED eof
  /\ in' = [file |-> SubSeq(in.file, n + 1, Len(in.file)), buffer |-> SubSeq(in.file, 2, n), count |-> n - 1]
  /\ c' = in.file[1] /\ got' = Append(got, c')
FillNothing ==
  /\ in.file = <<>> /\ eof' = TRUE
  /\ in' = [in EXCEPT !.count = 0]
  /\ c' = EOF /\ got' = Append(got, c')

\* __getc: --count >= 0 ? *pointer++ : _fillbuf()
Room(stream) == stream.count - 1 >= 0
Getc ==
  \/ /\ Room(in)
     /\ in' = [in EXCEPT !.count = @ - 1, !.buffer = Tail(@)]
     /\ c' = Head(in.buffer) /\ got' = Append(got, c') /\ UNCHANGED eof
  \/ ~Room(in) /\ ((\E n \in 1 .. Size : Fill(n)) \/ FillNothing)

Argument == IF nested THEN Getc ELSE UNCHANGED <<in, eof, c, got>>
AsChar(x) == IF x = EOF THEN Char255 ELSE x

\* c = getc(in), and the end of the loop if that is EOF.
Read ==
  /\ step = "begin" /\ ~nested /\ Getc
  /\ step' = IF c' = EOF THEN "end" ELSE "putc"
  /\ UNCHANGED <<nested, lineBuf, out, tested>>

\* __putc: --count >= 0, and then the argument is compared with '\n' ...
CountDown ==
  /\ \/ step = "putc"
     \/ step = "begin" /\ nested /\ ~eof   \* feof(in) before it
  /\ out' = [out EXCEPT !.count = @ - 1]
  /\ step' = IF Room(out) THEN "test" ELSE "putbuf"
  /\ UNCHANGED <<nested, lineBuf, in, eof, c, got, tested>>

Ends_Ignored == FALSE
Ends == c' = Newline /\ lineBuf
Test ==
  /\ step = "test" /\ Argument
  /\ step' = IF Ends THEN "putbuf" ELSE "store"
  /\ tested' = IF nested THEN tested + 1 ELSE tested
  /\ UNCHANGED <<nested, lineBuf, out>>

\* ... before it is stored, *pointer++ = x, or given to _putbuf().
Store ==
  /\ step = "store" /\ Argument
  /\ out' = [out EXCEPT !.buffer = Append(@, AsChar(c'))]
  /\ step' = "begin"
  /\ UNCHANGED <<nested, lineBuf, tested>>

\* _putbuf(x, out) writes the buffer, and writes x after it or begins a new buffer
\* with it; a stream without a buffer keeps a count of 0.
PutBuf ==
  /\ step = "putbuf" /\ Argument
  /\ \/ out' = [file |-> out.file \o out.buffer \o <<AsChar(c')>>, buffer |-> <<>>, count |-> Size]
     \/ out' = [file |-> out.file \o out.buffer \o <<AsChar(c')>>, buffer |-> <<>>, count |-> 0]
     \/ ~(Ends) /\ out' = [file |-> out.file \o out.buffer, buffer |-> <<AsChar(c')>>, count |-> Size - 1]
  /\ step' = "begin"
  /\ UNCHANGED <<nested, lineBuf, tested>>

Next == Read \/ CountDown \/ Test \/ Store \/ PutBuf
Spec == Init /\ [][Next]_stdioVars

\* The buffers are never overrun, nor read beyond what was filled.  When the argument
\* is a character, the output is the input up to here, each character once and in
\* order, at the end all of it, and no line waits in the buffer of a stream that is
\* buffered by lines.  When it is getc(in), each put for which the buffer has room
\* loses a character, the others come out in order, and the end of the file adds one
\* that was not there, EOF as a character, once.
Written == out.file \o out.buffer
Waiting == lineBuf /\ \E k \in DOMAIN out.buffer : out.buffer[k] = Newline
Echoed ==
  /\ Len(out.buffer) + out.count <= Size /\ in.count = Len(in.buffer)
  /\ step = "begin" =>
       /\ Len(got) = Len(Written) + tested
       /\ ~nested => Written \o in.buffer \o in.file = Content /\ tested = 0 /\ ~Waiting
       /\ eof => Written # <<>> /\ Written[Len(Written)] = Char255
       /\ \E kept \in [DOMAIN Written -> DOMAIN got] :
            \A k \in DOMAIN Written :
              /\ Written[k] = AsChar(got[kept[k]])
              /\ k > 1 => kept[k - 1] < kept[k]
              /\ got[kept[k]] = EOF => eof /\ k = Len(Written)
  /\ step = "end" => Written = Content /\ tested = 0 /\ ~Waiting
=============================================================================
