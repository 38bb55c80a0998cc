----------------------------- MODULE MCMemMove -----------------------------
\* Every length up to 26, every alignment of both blocks, every small overlap;
\* for memcpy, two blocks that lie apart either way round.
EXTENDS MemMove
MCCalls ==
  [fn : {"memmove"}, cpu : {68000, 68020}, d : 1 .. 8, s : 1 .. 8, n : 0 .. 26]
    \cup [fn : {"memcpy"}, cpu : {68000, 68020}, d : 1 .. 4, s : 31 .. 34, n : 0 .. 26]
    \cup [fn : {"memcpy"}, cpu : {68000, 68020}, d : 31 .. 34, s : 1 .. 4, n : 0 .. 26]
=============================================================================
