------------------------------- MODULE Inline -------------------------------
(***************************************************************************)
(* What headers compile into a program, each piece by itself: memset, the  *)
(* string functions, the numbers of users, the walk over control messages, *)
(* the server's count of interrupts, and stdio's macros.                   *)
(***************************************************************************)
EXTENDS Integers, Sequences

CONSTANTS
  WordMod, LongMod, Top, SetCalls,        \* of MemSet
  SizeMod, ByteMod, StrCalls,             \* of StrInline, whose registers SizeMod limits
  Ids,                                    \* of UserNumbers
  PtrMod, Msgs, MaxMet,                   \* of CmsgWalk
  HZ, Second, IntrMod, MaxTime, MaxIntr,  \* of InterruptCount, whose word IntrMod limits
  Content, Size, Newline, EOF, Char255    \* of StdioMacros

VARIABLES
  which,                                            \* the piece that is used
  call, pc, a0, a1, d0, d1, d2, mem, result,        \* the variables of the pieces
  given, id, kept,
  msg, cmsg, met,
  btm, time, devices, v_intr, stage, atRead,
  step, nested, lineBuf, in, out, eof, char, got, tested

Set  == INSTANCE MemSet WITH Calls <- SetCalls
Str  == INSTANCE StrInline WITH LongMod <- SizeMod, Calls <- StrCalls
Usr  == INSTANCE UserNumbers
Cmsg == INSTANCE CmsgWalk
Cnt  == INSTANCE InterruptCount WITH WordMod <- IntrMod
Std  == INSTANCE StdioMacros WITH c <- char

ASSUME Pieces ==
  Set!Machine /\ Str!Machine /\ Usr!Numbers /\ Cmsg!ControlData /\ Cnt!Clock /\ Std!File

callVars == <<call, pc, a0, a1, d0, d1, d2, mem, result>>
userVars == <<given, id, kept>>
cmsgVars == <<msg, cmsg, met>>
intrVars == <<btm, time, devices, v_intr, stage, atRead>>
stdioVars == <<step, nested, lineBuf, in, out, eof, char, got, tested>>
vars == <<which, callVars, userVars, cmsgVars, intrVars, stdioVars>>

\* The variables of a piece that is not used.
NoCall == /\ call = 0 /\ pc = 0 /\ a0 = 0 /\ a1 = 0 /\ d0 = 0 /\ d1 = 0 /\ d2 = 0
          /\ mem = 0 /\ result = 0
NoUser == given = 0 /\ id = 0 /\ kept = 0
NoCmsg == msg = 0 /\ cmsg = 0 /\ met = 0
NoIntr == btm = 0 /\ time = 0 /\ devices = 0 /\ v_intr = 0 /\ stage = 0 /\ atRead = 0
NoFile == /\ step = 0 /\ nested = 0 /\ lineBuf = 0 /\ in = 0 /\ out = 0
          /\ eof = 0 /\ char = 0 /\ got = 0 /\ tested = 0

Init ==
  \/ which = "set" /\ Set!Init /\ a1 = 0 /\ NoUser /\ NoCmsg /\ NoIntr /\ NoFile
  \/ which = "str" /\ Str!Init /\ result = 0 /\ NoUser /\ NoCmsg /\ NoIntr /\ NoFile
  \/ which = "user" /\ Usr!Init /\ NoCall /\ NoCmsg /\ NoIntr /\ NoFile
  \/ which = "cmsg" /\ Cmsg!Init /\ NoCall /\ NoUser /\ NoIntr /\ NoFile
  \/ which = "count" /\ Cnt!Init /\ NoCall /\ NoUser /\ NoCmsg /\ NoFile
  \/ which = "stdio" /\ Std!Init /\ NoCall /\ NoUser /\ NoCmsg /\ NoIntr

Next ==
  /\ UNCHANGED which
  /\ \/ /\ which = "set" /\ Set!Next
        /\ UNCHANGED <<a1, userVars, cmsgVars, intrVars, stdioVars>>
     \/ /\ which = "str" /\ Str!Next
        /\ UNCHANGED <<result, userVars, cmsgVars, intrVars, stdioVars>>
     \/ /\ which = "user" /\ Usr!Next
        /\ UNCHANGED <<callVars, cmsgVars, intrVars, stdioVars>>
     \/ /\ which = "cmsg" /\ Cmsg!Next
        /\ UNCHANGED <<callVars, userVars, intrVars, stdioVars>>
     \/ /\ which = "count" /\ Cnt!Next
        /\ UNCHANGED <<callVars, userVars, cmsgVars, stdioVars>>
     \/ /\ which = "stdio" /\ Std!Next
        /\ UNCHANGED <<callVars, userVars, cmsgVars, intrVars>>

Spec == Init /\ [][Next]_vars

\* memset fills its block and nothing else, on both processors (string.h:114-243).
Filled == which = "set" => Set!Filled

\* The string functions do what the C library promises (string.h:247-320).
StringsRight == which = "str" => Str!StringsRight

\* What a program exchanges with the network's libraries: the walk over control
\* messages meets those that are there (sys/socket.h:204-213), user numbers survive
\* the word of a file (usergroup.h:64-65), and what the statistics server has left of
\* the kernel's count are the interrupts of devices (rstat_proc.c:213-215).
NetworkRight ==
  /\ which = "cmsg" => Cmsg!WalkRight
  /\ which = "user" => Usr!NumberKept
  /\ which = "count" => Cnt!NearlyDevices

\* putc and getc keep the characters and the buffers (stdio.h:123, 126).
Echoed == which = "stdio" => Std!Echoed
=============================================================================
