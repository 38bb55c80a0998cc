# Verification of amiga-dev

amiga-dev packages a cross-development environment for AmigaOS on 68000
processors: binaries of the vbcc tool chain, the C library and NDK headers and
assembler includes, the POSIX and network (AmiTCP) headers. Nearly all of its
95,000 lines are headers. Four kinds of things in them can be right or wrong, and
are modelled here:

- **code** that is compiled into every program built with the package: the
  macros of Exec's includes that arbitrate between tasks and interrupts and that link
  nodes into lists, the assembler routines of `include/string.h`, the macros of
  stdio, of tables and of control messages, a buffered socket reader; and one
  complete program, the kernel statistics server `rstat_proc.c`;
- **calls**: each library function is described five times over (function description,
  prototype, pragma, in-line stub, gcc statement), for one jump table and one set of
  registers;
- **layouts**: each structure of the system is described to the assembler and again to
  the C compiler, which lay it out by different rules;
- **inclusion**: some 800 headers include one another under conditions of their own.

This directory holds TLA+ modules of that, TLC configurations that check
them, and proofs that TLAPS checks. All paths below are relative to
`src/targets/m68k-amigaos/`. `PROJECT.json` lists the runs, maps every definition
to the lines it models, and names for every checked property a variant of the
code (a mutant, an operator next to the one it replaces) that breaks it.

## Inventory

| Component | State | Operations | Interacts with |
|---|---|---|---|
| Arbitration, `ndk/include_i/exec/ables.i` | `_intena`, `IDNestCnt`, `TDNestCnt`, `AttnResched` | DISABLE, ENABLE, FORBID, PERMIT | every task and interrupt server on the CPU; exec.library's interrupt exit and scheduler read the counters |
| Exec lists, `ndk/include_i/exec/lists.i`, `ndk/include_h/exec/lists.h` | list headers and nodes in memory, registers | NEWLIST, ADDHEAD, ADDTAIL, REMOVE, REMHEAD, REMHEADQ, REMTAIL, TSTLIST, TSTLST2, NEXTNODE, IsListEmpty | need the arbitration macros around them |
| Block routines, `include/string.h` 34-243 | registers, memory | memcpy, memmove, memset for 68000 and 68020 | callers |
| String routines, `include/string.h` 247-320 | registers, memory | strlen, strcpy, strncpy, strcat, strcmp, strncmp, strrchr | callers |
| stdio's macros, `include/stdio.h` 123-127 | count, pointer and flags of a FILE | putc, getc | `_putbuf()`, `_fillbuf()`, the expressions a program passes |
| Structure initialisers, `exec/initializers.i` and `.h` | a table in memory | INITBYTE, INITWORD, INITLONG, INITSTRUCT | exec's `InitStruct()` |
| Pack tables, `utility/pack.h` | a table of longwords | PACK_STARTTABLE, PACK_NEWOFFSET, PACK_ENTRY, PACK_BYTEBIT, -WORDBIT, -LONGBIT, PACK_ENDTABLE | utility's `PackStructureTags()` |
| Control messages, `netinclude/sys/socket.h` 196-213 | control data | CMSG_FIRSTHDR, CMSG_NXTHDR | `recvmsg()` |
| User numbers, `netinclude/libraries/usergroup.h` 64-65 | a number in a long or a word | UG2MU, MU2UG | files that keep them |
| Socket reader, `netinclude/charread.h` | `struct CharRead` | initCharRead, charRead | the caller's event loop, `select()`, `recv()`, the peer |
| Statistics server, `netinclude/rpcsvc/rstat_proc.c`, `rstat.x` | union of replies, kernel memory descriptor, timer, idle counter | stat_init, the statistics and havedisk procedures, updatestat (also the SIGALRM handler), setup, havedisk | clients over RPC, inetd, the kernel's variables, itself through the signal |
| Bindings: `ndk/sfd`, `clib`, `pragmas`, `include/inline`, `netinclude/inline` | registers, stack | a call through each binding of each function | the compiler, the libraries' jump tables |
| Layouts: structures of `ndk/include_i` and `ndk/include_h` | SOFFSET and names; offset and alignment | the macros of `exec/types.i`; the compiler's layout | programs of both languages, and one another: structures contain structures |
| Inclusion: all headers on the search path of `config/aos68k` and `config/kick13` | macros defined, headers open | `#ifndef` guards, conditional `#include`, `#define` | one another |

Not modelled, or in part only, with the reason, in `PROJECT.json`, and under "Not
modelled" below.

What is hard in each, and what makes it correct:

- **Arbitration.** Each macro is two steps, and an interrupt with DISABLEs of its
  own may come between them. Counters are bytes. Correct: between DISABLE and ENABLE
  (FORBID and PERMIT) nobody (no other task) runs, and afterwards all is as before.
- **Lists.** Between any two instructions of a macro the pointers disagree. The
  header is two overlapping nodes. TSTLIST is promised to be safe without
  arbitration, TSTLST2 is not. Correct: under the arbitration the includes ask for, a
  list is a sequence and a macro an atomic change of it.
- **Block and string routines.** A count below zero is used on purpose, 16-bit
  loops, alignment, overlap. Correct: what the C library promises, for each length
  and alignment, without an access outside the blocks or at an odd address.
- **stdio's macros.** The count is decremented before the condition that may send the
  character elsewhere, the argument is evaluated in more than one place, and what getc returns at
  the end of the file is no character. Correct: each character once, in order, no buffer overrun.
- **Tables.** An offset that needs more than a byte changes the command, one of more than 16 bits loses the rest in all macros
  but one; a byte is padded;
  a flag's bit number must be found by comparing; fields are joined without masks. Correct: the
  reader of the table finds what the macro was given.
- **Control messages, user numbers.** Limits: a length of zero, one that is no multiple
  of four, one that added to an address wraps around; the ends of a word. Correct: the walk meets the headers that are there; a number
  survives, and nobody becomes root.
- **Socket reader.** One counter says both where in the buffer to read and whether
  `select()` is due. Correct: the stream comes out once and in order, and a caller
  that selects when told to does not block.
- **Statistics server.** The handler reads through the descriptor, and writes into
  the union, that the interrupted procedure is using, seeks by a table that nlist() may be in the
  middle of rewriting; symbols may be missing. Correct:
  replies hold what their names say, at least as old as the time they carry; the alarm goes
  on; the server closes down when idle.
- **Bindings.** A stub for variable arguments saves the register that is to point at them, computes
  an address from a stack pointer it has just moved, and restores the register after the call, when it
  may hold the result. Correct: the function is entered through its slot, each argument
  where the description says, and afterwards stack, kept registers and result are right.
- **Layouts.** The assembler puts a field where the one before ended, even at an odd address; the compiler
  rounds up; and each file has been edited without the other. Correct: both agree.
- **Inclusion.** Headers test one another's macros, include in rings, and some have the same guard as another.
  Correct: all that is asked for is found, declared before it is used, read once, and read at all.

## Modules

| Module | What it is |
|---|---|
| `ExecAbles` | arbitration macros, interrupts and task switches on one CPU |
| `ExecLists` | extends `ExecAbles`: list macros, an instruction that touches memory a step |
| `ListSpec` | abstract: sequences of nodes, atomic operations |
| `ExecListRefinement` | the mapping from memory to sequences; `ImplementsListSpec` |
| `MemMove`, `MemSet`, `StrInline` | the routines of string.h |
| `StdioMacros`, `InitTable`, `PackTable`, `CmsgWalk`, `UserNumbers` | the macros of stdio.h, exec/initializers, utility/pack.h, sys/socket.h, usergroup.h, each with what reads the result |
| `CharRead` | the socket reader, its caller, `select()`, `recv()` and the peer |
| `RstatServer` | the statistics server, its signal, its clients, inetd and the kernel |
| `InterruptCount` | the arithmetic of that server's `v_intr`, which `RstatServer` leaves out |
| `LibBindings` | how descriptions, prototypes, pragmas, stubs and asm statements say where arguments go; the registers |
| `PromiseTables`, `BindingTables` | the libraries in those terms: descriptions and prototypes; pragmas, stubs, asm statements |
| `LibCall` | a call through a binding |
| `HeaderItems` | what a preprocessor finds in a header |
| `HeadersNdk`, `HeadersCall`, `HeadersProto`, `HeadersStubs`, `HeadersLibrary` | the headers in those terms |
| `Headers` | the preprocessor going through a translation unit |
| `Layouts` | how the assembler's macros and how the compiler lay a structure out |
| `SystemIncludes`, `ProgramIncludes`; `SystemStructs`, `ProgramStructs` | the structures in those terms, assembler's and C's |
| `StructurePairs` | both descriptions of each structure read, one after the other |
| `Inline` | the pieces of headers about which there are theorems, one at a time (`which`), each over its own variables |
| `...Proofs` | theorems about the module of that name; those about `ExecAbles` begin `ExecListsProofs`, those about `CharRead` are at its end |
| `MC...` | what TLC runs, with one or more `.cfg` |

`MCExecLists*.cfg` are three configurations of `ExecLists` (with `ExecListRefinement`), `MCRstat*.cfg` three of `RstatServer`. `Inline` instantiates six
independent modules, of which a program uses one; `MCInline` extends it by three more (the two kinds of tables, and the layouts).

### ExecAbles

The state is the four memory cells the macros touch, the task that is current,
whether the server has the CPU, and each actor's program counter. DISABLE is
`Disable1` (the write to `_intena`) and `Disable2` (the increment); ENABLE is
`Enable1` (decrement and branch) and `Enable2` (the write). FORBID is one
instruction. PERMIT calls `_LVOPermit`: that call, taking an interrupt, returning
from one, and the scheduler are exec.library's, which is not in the repository;
they are modelled from what the two counters and `AttnResched` are for, and marked
external. `disables` and `forbids` are ghosts: calls made and not undone. Programs
may nest and interleave DISABLE and FORBID in any order, at most `MaxDepth` deep.
One interrupt level is modelled; a task that calls `Wait()` gives its FORBID up
in exec.library and is outside the model.

### ExecLists

`mem` is a function from word addresses to words, because the header's trick of
being two overlapping nodes is what could go wrong. A step is one instruction that
touches memory; those that only move registers belong to the step before. Macros
may be called in any order on any list whose header is set up, under the rule of
the include's header comment (`Owns`): DISABLE for a list the interrupt server
uses, FORBID otherwise; the server itself holds neither for lists of its own, as
tasks keep it out. `where` (the list a node is on), `known` (an emptiness
test whose answer is relied on) and `walk` (a NEXTNODE loop and the nodes it still
owes) are ghosts. IFEMPTY and IFNOTEMPTY are TSTLIST and a branch; TSTNODE is the
load and test of NEXTNODE; SUCC and PRED are single loads.

`ExecListRefinement` reads a list off memory backward during ADDHEAD and REMTAIL and
forward during the other macros; the store seen from that side is the moment
the macro takes effect. `TakesEffect` adds which operation of `ListSpec` that must be: ADDHEAD's `AddHead`, on the list and
the node it was called for, and so on. A list of more nodes than there are, a ring, reads as no list at all.

### MemMove, MemSet, StrInline

An action is a straight run of instructions or a round of a loop. `d2` is kept
modulo `LongMod` and `dbf` and `subq.w` work on it modulo `WordMod`, so borrows,
carries and the 16-bit limit are the code's. In `MemMove` and `MemSet` branch
displacements were resolved by hand (a `*` is the address behind the branch
instruction's first word) and the branches are modelled by their targets. Memory
in `MemMove` says for each byte where it was when the call began. `Legal` is the
caller's side: blocks inside memory, and for memcpy apart. Scratch values that only
test a parity are left out. In `StrInline` each of the two strings lies in
memory of its own length, so a read or write past it would stop TLC. Counts of
`strncpy` and `strncmp` are at most 2^31: the loops test the sign of the count, and take
a larger one for run out.

### StdioMacros, InitTable, PackTable, CmsgWalk, UserNumbers

In each, the program or library that reads what the macros made takes steps of its own, so
that a property is about both ends. `StdioMacros` takes `putc` apart into its count, its
comparison and its store, each of which evaluates the argument; `nested` is a program that writes
`putc(getc(in), out)` until feof(). `_fillbuf()` may read any part of the file, and at its end returns EOF and sets `_EOF`;
`_putbuf()` may write or keep the character. EOF that is put is the character 255. Errors are left out. `InitTable` and `PackTable` assemble a table byte by byte (longword by longword)
as the macros do and walk it as the comment in the include says exec and utility do. An
entry remembers what its macro was given. `CmsgWalk` adds lengths to addresses modulo `PtrMod`
(2^32); the length of a header is whatever lies in memory where the walk gets to, inside the control data or not, and may be zero, short, odd, run past
the end, or wrap around. `UserNumbers` moves a number between a long
and a word of a file as often as one likes.

### LibBindings, LibCall and their tables

A function description (`ndk/sfd`) is a sequence of its lines, `==bias`, `==reserve`, `==varargs`,
`==alias` and functions; `Vector` counts the slots. A pragma's code is a sequence of digits,
last argument first. A stub is the vector and the registers of its parameters, with the register
of the variable arguments where it passes them. A row of a table is one line of the source. `LibCall` executes a call:
`Load` is the compiler's (arguments to registers, variable ones to the stack), `Push`, `Point`, `Jsr`, `Pop` are the
instructions of a stub (`include/inline`), `Function` is the library's. Types are not looked at, only
how many arguments there are and where they go. A DOUBLE in two registers counts as the first of them.

### HeaderItems, Headers and their tables

A header is its guard and the sequence of what the preprocessor finds in it: `#include` lines with
the conditions around them, `#define`s of macros that such a condition tests, and
stretches of text, with the headers that declare what the text needs complete. `Headers` has the stack of open
headers, the macros defined and the headers read to their end; `Begin` is the guard. Macros no include depends on and
the declarations themselves are left out, as are comments. `MCFirst` names what a program has to include before a
header that leaves it to the program, `MCMissing` the headers that lead out of the package, `MCHides` pairs of which the first
keeps the second from being read; all three are part of what is checked, in both directions for `MCMissing`.

At its end `Headers` says what the tables keep to, header by header (ASSUMEs, which TLC evaluates on the package's tables): a guard,
and a macro whose absence an `#include` tests, is defined by no header but the one it belongs to and those that hide it (`GuardsOwn`); where a
header may lead (`ReachClosed`); what has been read whenever it has been (`SureRead`); what its text uses is among that (`UsesSure`); which
headers lead to one that is not there (`MissingLead`). These are local: each looks at one header and at sets that `MCHeaders` makes
from the tables (`MCReach`, `MCSure`). That they give the four properties, which are about what happens to be on the stack and defined, is the theorem.

### Layouts and its tables

`Structure` goes through the lines of an assembler structure as the macros of `exec/types.i` do, `SOFFSET` and a name
at a time; `Struct` and `Union` lay members out as vbcc does for a 68000 (even offsets from a word on). A row of the tables is a
macro (a type) with the names that follow one another under it. Sizes of other structures are taken from `symbols` and `tags`, what has been read
before, so a wrong size is passed on as in a program. `StructurePairs` reads all in an order in which each can be measured. A
field of the assembler has the name of the C field it is to be; where the headers name one field differently, the
two were matched by place and meaning, and fields that only one of them names are not compared. Members under an `#ifdef`
are there if the macro is defined by default (`NEWCLIPRECTS_1_1` and `V1_3` are not).

### CharRead

The outcome of `recv()` is any number of the bytes that have arrived, end of file
or an error. A byte is its position in the stream. The caller selects after
RC_DO_SELECT and calls again after everything else, at most `MaxFailures` times in a
row after errors.

### RstatServer

A value is the kernel variable it was read from, the time, and for the
interface sums the interfaces added. The union is a function from words to values;
`Layout` says which word each field of each version is, so that a store through one
member is seen through the others. updatestat is one action per read of kernel
memory. As the signal handler it runs to its end before the program goes on, but
the kernel's variables and interface list change at any time, and it is delivered
between any two steps of the program, including each word of encoding the reply.
Folded: the five words read from `sum` into one, packet counters into two.
havedisk() runs nlist() again: `NlistClears` forgets every address, `NlistFinds` finds them again in any order (an alarm comes between where `Pauses` says), and until it has, an alarm reads
`Unlisted` in their place. The arithmetic on ticks (lines 212-215) is in `InterruptCount`, where the clock ticks
and devices interrupt between the reads. `missing` are symbols the namelist lacks: a word of one comes from address 0, and setup()
and havedisk() each look for one of them (`NamelistFails`). A kernel without `_ifnet`, where the chain of
interfaces begins anywhere, is left out. `sleep(1)` may return
at any time. SIGALRM's handler stays installed (BSD signals). The dispatcher
rpcgen generates, which answers the null procedure and encodes the reply, is
external, as are inetd, which starts the server again when a request waits, and
the kernel.

## Runs

| Run | What it asks | Bounds |
|---|---|---|
| `ables` | exclusion, counters that count what is outstanding and are restored, no switch at the wrong time | 2 tasks, server, bytes of 3 bits, nesting 4, which is all such a byte can count |
| `lists_shared` | no two actors inside macros on one list; pointers; tests that stay true | 2 tasks, server, 2 lists (one shared with the server), 2 nodes |
| `lists_deque` | the list is a sequence; TSTLIST is right in the middle of anybody's macro | 1 task, server, 1 list, 3 nodes: a first, a last and one between |
| `lists_walk` | a walk meets each node once and ends | 1 task, server, 2 lists set up by NEWLIST, 2 nodes |
| `memmove` | exact copy, accesses inside and aligned | all lengths to 26, alignments to 8, overlaps both ways; word range 20, so lengths above and below it occur |
| `inline` | memset: exact fill (`Filled`); C library semantics of the string functions; tables told as given; control messages, user numbers and `v_intr`; putc and getc; layouts | memset to 44 bytes, 4 alignments, both processors, word range 20; strings to length 3 over 2 letters, counts to half of a 4-bit register; tables of two entries with offsets around 255 and 65536, every flag of every width; addresses of 6 bits, control data around every limit of two headers, lengths up to and across the end of memory (`PtrMod`), 4 headers met (`MaxMet`); numbers around the ends of a word; 7 characters, one of them 255, and the end of the file through buffers of 3; two seconds of three ticks; all 371 structures |
| `charread` | order, a recv() that does not block (`BlocksOnlyUntold`), delivery | buffer 3, stream 7: three refills, the last partial; 3 failures in a row |
| `rstat` | what replies hold, the alarm, closing down | 2 requests of 3 kinds (a version 1 reply is the beginning of a version 3 one), 2 interfaces, kernel variables change once, idle after 2 alarms, descriptors for 1 havedisk, reads may fail, no symbol missing or one that is checked for or two, nlist() interrupted with all symbols, two or one left to find (`Pauses`) |
| `rstat_disk`, `rstat_swtch` | two statements of the sources that do not hold (below) | 1 request |
| `libcall` | slot, registers, stack and result of each call | all 2,996 calls of a described function through one of its bindings, with 2 variable arguments |
| `headers` | found, declared, read once, read at all | each header alone and each ordered pair of 31 that test one another's macros, on the search path of `config/aos68k` and with `include` first: 3,404 units |

The list macros keep no state between calls but the lists, so the effects of
any number of nodes appear with three; interference needs two tasks at most, the one
interrupted and the one switched to, and the server. The block routines depend on the
count modulo 4, the thresholds 4, 8 and 16, the word range and the two alignments;
the proofs cover all values. Registers are scaled, never unbounded. The
server's replies depend on the alarms during one request; a second request meets
what the first left. Bindings, layouts and headers are finite: `libcall` and the layouts are complete, and a
unit of two headers shows what one does to the macros another tests; the theorems are about units of any length. CHECK_DEADLOCK is off where the program stops: a routine
that returns, a stream that ends, a server that has closed and gets no more requests.
The arbitration and list runs check that no state is stuck.

### Fairness

- `lists_walk`: `Begun` of each actor, `NextNode` of each task, `Release` and
  `ServerReturns` of the server are strongly fair: the CPU executes the instructions of whoever has it,
  interrupts leave it time (strong, because each interrupt disables the
  interrupted program's next instruction for a while), and an interrupt server
  ends. Tasks need not call anything or be scheduled: a walker holds its list.
- `charread`: calls go on, and `select()` and `recv()` return when they can (weak). The
  peer need not do anything: `AllDelivered` is about bytes it has sent.
- `rstat`: a set alarm rings, a due one is delivered, and the process runs (weak).
  Clients and the kernel need not move.

### Disagreements

- `rstat_disk`: havedisk() stores the descriptor it opens in the global that
  updatestat() uses. An alarm between its seek and its read makes it sum words from
  elsewhere; line 295 says it "returns true if have a disk".
- `rstat_swtch`: `if_opackets` of `struct stats` and `v_swtch` of the later structs are the
  same word of the union; updatestat() stores the one after the other, so versions 2 and 3
  report output packets as context switches, though `rstat.x` line 88 promises
  "context switching info".

The other disagreements are in the properties, as the cases they set apart; a run fails if one of them is not
so, or if there is another:

- Bindings (`ResultLost`, `ArgumentsArrive`): the stubs of `OpenAmigaGuideAsync` and `SendAmigaGuideContext`
  (`include/inline/amigaguide_protos.h`) save d0 and restore it after the call, which loses the result. Description
  and prototype of `ReportMouse1` have its arguments in one order and the registers in another; the pragma has them right.
- Headers: `images/label.h` line 19 tests another header's guard; `exec_sysbase_pragmas.h` has the guard of
  `exec_pragmas.h`, and `libraries/mathresource.h` and `resources/mathresource.h` share one (`MCHides`). 28 headers lead to headers that
  are not in the package (`MCMissing`). One of them, `devices/sana2specialstats.h`, asks for `<sana2/sana2device.h>` unless SANA2_SANA2DEVICE_H is
  defined, which is the guard of `devices/sana2.h`: a program that includes the latter first does not notice. `hdwrench.h`, `lineread.h` and `inetd.h` do not include what they use (`MCFirst`).
  The manual (vbcc.pdf, 11.4.7) says that the headers of `proto` and `inline` inline the calls; each configuration
  puts `ndk/include_h` first, whose `proto` headers use pragmas.
- Layouts (`FieldsDiffer`, `SizesDiffer` of `MCInline`): `PrinterTxtPrefs`, `PrinterGfxPrefs` and `FontPrefs` go on at odd offsets in
  assembler; in the two unit preferences of printers one header reserves a LONG and the other four; `PartitionBlock` has an environment
  of 17 or 20 longs; `pdp_PrefName` has lost its size (`UBYTE name,size` defines one byte), and so have `collTable` and the arrays
  of `copinit`; `UWORD pp_X, pp_Y` defines one field; `XAccel` and `YAccel` of `AnimOb` changed places; `Layer`
  lacks `Width` and `Height`; `ClipRect` has its `Flags` in assembler always, in C only with `NEWCLIPRECTS_1_1`; three methods of amigaguide lack their `MethodID`; `XRef`, `AppMessage`, `DBufPacket`, `GadgetInfo` and `MemChunk`
  end differently. `AslSemaphore` has no first offset in `libraries/asl.i` 359 and cannot be assembled; it is left out, as
  is the second of two structures called `adtFrame`, which is compared with `adtNewFormatFrame`.
- Tables (`TablesRight`): INITSTRUCT of the C header is a comma expression and loses the command word, so its entry ends the table;
  all other macros but INITSTRUCT of the assembler keep 16 bits of an offset (`Kept`);
  PK_LONGOFFSET compares a signed `1L<<31` and finds it in another byte; an entry of zero ends a pack table.
- Network (`NetworkRight`): a `cmsg_len` of zero is met for ever; a header may be met that overhangs `msg_controllen`; a length that
  reaches the end of memory passes the test and sends the walk back (`Wraps`); `ALIGN` is defined
  nowhere; user numbers 65535 and -1 become root; `v_intr` misses the ticks between its two reads and may go back, or
  below zero to a number near 2^32.
- stdio (`Echoed`): `putc(getc(in), out)` loses a character whenever the buffer has room, the argument being evaluated twice;
  and as it puts EOF before it can see it, the copy ends with a character 255 that was not there.

Seen while modelling, without a property of their own: the first word of `curtime` is the
`if_opackets` of version 2; off the vax the load averages are never read; `tv_sec` and `tv_usec` are encoded
one after the other, so that an alarm between the two sends the seconds of one update with the microseconds of the next (`CurtimeNotBefore` allows
it, and is what remains true); one DISABLE more than a byte can count (the 129th) wraps `IDNestCnt` around, and the first ENABLE turns interrupts on with
all others outstanding (`DepthAssumption` excludes it); an alarm during the
nlist() of a HAVEDISK call reads at address 0 what has not been found again, so that the reply before the next update holds it
(`ReadDuringNlist`, the case that `UpdateReadsRight` sets apart); havedisk()
opens a descriptor each time and none is closed, so `OpenFails` ends a busy
server; the idle counter is reset after a request has been taken, so `CloseDown` can strike
with one in hand; a server that was only asked its null procedure never sets an
alarm and does not close. Constants of the two languages that differ: `Unity` (10000, 0x10000), four keys of
`graphics/modeid` (LACE), `aJFY3` (54, 53), `INCLUDE_VERSION` (40, 45), `LIBRARY_MINIMUM` (33, 40).
`InheritSocket` has a gcc stub and no description.

## Proofs

| Theorem | Statement |
|---|---|
| `ExecListsProofs`: `DisableTheorem`, `ForbidTheorem`, `NestingTheorem`, `SwitchTheorem`, `NestingCountedTheorem` | the five properties of `ables`, for any tasks, byte width and nesting it can count; `NestingCountedTheorem` is that the counters are exact (`NestingCounted`), so that they never wrap below that nesting |
| the same: `OneAtATimeTheorem` | exclusion on lists, for any tasks, lists, nodes and nesting |
| the same: `LinkedBothWaysTheorem`, `KnownNonEmptyTheorem`, `TestSafeAnyTimeTheorem`, `TestArbitratedTheorem`, `WalkCompleteTheorem` | the pointers, the emptiness tests and the walks of the list macros, for any tasks, lists of any length and nesting |
| `ExecRefinementProofs`: `ImplementsListSpecTheorem` | the list macros, instruction by instruction, implement the atomic operations of `ListSpec` they are named for, for any finite number of nodes |
| `MemMoveProofs`: `CopiedTheorem`, `MovesInsideTheorem`, `MovesAlignedTheorem`, `MoveTypeTheorem` | memcpy and memmove, both processors, for any legal call, memory size and register widths (word of at least 16 values) |
| `InlineProofs`: `FilledTheorem` | memset, both processors, for any legal call, memory size and register widths (word of at least 16 values) |
| the same: `StringsRightTheorem` | the seven string functions, for strings of any length, any characters, and any legal call (a count of at most half a register) |
| the same: `NetworkRightTheorem` | the walk over control messages, user numbers, the server's count of interrupts, for any control data and width of addresses, integers and clock |
| the same: `EchoedTheorem` | putc and getc, for any file up to its end, buffer size, and behaviour of the two functions behind them |
| `HeadersProofs`: `EverythingFoundTheorem`, `SelfContainedTheorem`, `ReadOnceTheorem`, `NothingMissedTheorem` | the preprocessor over any headers that keep to the ASSUMEs of `Headers`, any search paths, and programs that include any of them in any order |
| `LibCallProofs`: `AgreementTheorem`, `UndisturbedTheorem`, `ResultLostTheorem` | a call through a binding, for any well-formed calls and any number of variable arguments |
| `CharRead`: `BufferTheorem`, `InOrderTheorem`, `SelectTheorem`, `CurrTheorem` (and `NoOverwriteTheorem`) | the reader, for any buffer size and stream |
| `RstatServerProofs`: `UpdateAlwaysReadsRight`, `AlarmAlwaysLives`, `AlwaysAnswersAfterUpdate`, `InterfacesAlwaysOnce`, `CurtimeNeverBefore`, `TypeAlwaysOK` | the safety of the statistics server, for any requests, interfaces, missing symbols, places where nlist() is interrupted, descriptors and bounds |

Assumptions are the named ASSUMEs of the modelled modules: at least one task and a
server that is not one; nesting no deeper than a byte can count; structures in memory
apart, and a finite number of them (`FiniteAssumption`, for the refinement only); legal calls; a buffer of at least a byte, and a caller that gives up before
`rc_Curr` overflows; constants of the server of the kinds their comments give; calls of a library that are well formed (`WellFormed`: as many registers as
the prototype has arguments, all different; a stub that sets a register is one for variable arguments). TLC evaluates each in the runs.
Those of `Headers` are listed above; that of `ReadOnceTheorem` is only that the tables are tables (`TablesTyped`).
The assumption of `Inline` (`Pieces`) is one of each of its pieces: register widths and legal calls, numbers that are integers, lengths that are naturals, a clock
that ticks. `ResultLostTheorem` has a hypothesis of its own, that the binding of a function with a result hands one on; this says of the tables what run `libcall` checks,
entry by entry. That no binding but the one listed differs from its description (`ArgumentsArrive`) is a matter of the tables and stays with that run; `AgreementTheorem`
is what turns a difference of the tables into one of the call.

The arguments:

- `AblesInv`: only the current task, and the server while it runs, have calls
  outstanding (`OnlyCurrentNests`); the counters are the sums of the ghosts less one
  (`CountersAgree`); `_intena` is off exactly while somebody has interrupts disabled or
  is between the two instructions of a macro (`IntenaAgrees`, `MidMacro`). None of the four
  properties is inductive without the others: what ENABLE's branch does depends on
  the counter being exact, and that on nobody having been interrupted while
  `IDNestCnt` was counted.
- `ListsInv` adds that whoever is inside a macro owns the list it is about (`BusyOwns`),
  which is kept because a macro never lets go of a hold; two owners of a list
  contradict `AblesInv`. Steps are first classed by what they do to program counters and
  arguments (begin, continue, end), as the 30 actions differ in nothing else here.
- `PointersInv` (the links) says of each list that memory is `Whole`: the nodes on it form a `Chain` from header to header in which each word forward is
  matched by one back, once the store the macro in progress still owes is made (`Repaired`). `Owed` is that store, for each macro and each of its
  program counters, and `RegistersOf` what its registers hold, as they were loaded before an interrupt by others that own other lists. Two things
  make it inductive: by `ListsInv` at most one actor is inside a macro on a list, so at most one store is owed; and each step
  writes words of its own list and its own node only (`AddressAssumption`: structures lie apart), so the views of all other lists stay.
  `KnownInv` adds that what an actor knows of a list it still owns, and `WalkInv` that the nodes a walk still owes all lie ahead of where it
  stands. A chain is a function from places to nodes; linking in or taking out a node gives a new chain, written down explicitly, so
  no induction over a list is needed.
- The refinement adds sequences. `Follows` says by neighbours that a sequence is what is met along one word of each node.
  Such a sequence is unique and has no node twice, which is proved from the least index where two would differ (`Least`:
  `<` on the naturals is well-founded), in place of an induction. Each macro keeps the sequence, puts one node in, or takes
  one out, and at the one store where the direction it is read in sees the difference, the new sequence is the old one
  with a node at an end or without one node (`Keeps`, `LinksIn`, `TakesOut`). When a macro begins or ends, the direction changes, and
  the two readings agree because nothing is owed.
- `MoveInv`: `Progress` says for each block of instructions how many bytes are left in
  terms of `d1` and `d2` (below zero and wrapped around in some), that both pointers are that
  far from the end they run to, and that exactly what lies behind them has been copied,
  the rest of memory, and with it the rest of an overlapping source, being untouched;
  `Parity` is what each block may rely on about its addresses, `Registers` the ranges and
  `Result` the returned address.
- `SetInv` is the like of `MoveInv` for memset, with what the fill register holds in each block: the spread byte where more than a byte is
  stored at a time.
- `LoopInv` of the string functions says of each loop what lies behind its pointers: characters that were not the end
  (`Scanning`), that were equal (`Comparing`), that have been copied or padded (`Copying`, `Padding`), the last that was looked for (`Finding`).
  A length is the place before the least zero (`Least` again), so a loop that stops at a zero it had not met before has found it, and
  the first place where two strings differ, or end, decides their order (`OrderAt`). The count of strncpy and strncmp runs below
  zero and must show a sign when it does and not before (`DownIs`), which is why a count of more than half a register is not a legal call. TLC was asked `LoopInv` on the calls of run `inline` first.
- The other pieces of `Inline`: a number is the one given or what one way to the word and back makes of it, for a second way changes nothing
  (`UserInv`, `WordAgain`). Of the walk the invariant is only that the addresses are addresses (`WalkInv`) and the property itself; `NextStraight`
  says that the macro's test, which forgets to align, passes one header too many exactly when that header lacks no more than the alignment, and
  `NextWrapped` that a length which reaches the end of memory leads nowhere further on. Of `v_intr` the invariant
  (`CountInv`) is what was read and how far the clock may have come; `ClockIs` that the server's reckoning in seconds and parts of a
  second is the number of ticks, or one more, and `Subtracted` that the word may wrap around on the way. For stdio, `StdioInv` knows that a
  character on its way has room (`Counts`), of a copy that written and unread characters together are the file (`OrderPlain`), and of the nested form, by a growing map of places, that what was written
  lies within what was read (`Within`), EOF at most for the last of it (`Kept`).
- `CallInv` says what registers and stack hold at each of the six steps of a call (`Passed`, `Returned`, `Saved`). `PassedIs` is the reason
  that a right call can be told from a wrong one: each register holds an argument, the pointer or what it held before, and no two
  of these are the same, so `Arrives` implies agreement as well as the reverse.
- `HeadersInv`: a header is `Opened` when it passes its guard. Every macro that is defined was defined by an opened header (`DefinedBy`), so by
  `GuardsOwn` a header that its guard keeps out, and one that an `#include` is skipped for, was opened before or hidden: `Settled`. What a header
  asked for therefore lies above it on the stack or is settled (`Passed`), and when it has been read to its end, is settled (`AskedFor`); when
  the stack is empty, what was opened has been read to its end, which gives `NothingMissed`. For a text it is not enough that what it uses
  was opened: in a ring of headers it may still be open below. But the stack follows the `#include` lines (`Chain`), so what is open below can lead to
  the header that is read, and `Sure` counts only on headers that cannot (`Reads`): they have been read to their end (`SureClosed`). What
  First asks for before a header may at first lie above it on the stack, with nothing of that name open below (`FirstReady`).
  `ReadOnce` rests on `OpenOnce` alone: the guard of an open header is defined. For `EverythingFound`, no header of Missing gets on the stack of
  a unit that asks for none, and the end of one is reached only where the header that is not there was hidden (`MissingStops`). TLC was asked
  `HeadersInv` on the package's tables first.
- `AlarmLives` of the statistics server is inductive by itself. `UpdateReadsRight` needs `NamelistChecked`: without `cp_time` no
  process comes past setup(), so address 0 is never read as cp_time; and `Listing`, that symbols are unlisted only inside a HAVEDISK call's nlist(). The replies need `ServerInv`, since the alarm may come
  between any two words of a reply: `Calls` says when updatestat() can run at all, `Walking` and `Filled` what the words hold at
  each of its stages (the sums are zeroed in place and made again), `Walked` and `Times` what they hold when the program moves
  on, `Encoded` what the words already encoded hold, and that none of them is later than the time of day to be
  encoded behind them, `Sent` the same of the reply that went out. `Counting` is why the sum ends at the interfaces that
  setup() counted: the chain only grows. TLC was asked `ServerInv` on the instance of run `rstat` first.
- `IInv` of `CharRead` adds to the buffer property that recv() is entered with an empty
  buffer and that RC_DO_SELECT has been answered.

Only model-checked: liveness (TLAPS does not reason about fairness), which is `WalksEnd`, `AllDelivered` and `InitialisedCloses`; the tables of `InitTable`; and what is a finite table, which TLC
goes through completely (the layouts, that the bindings of `libcall` agree with their descriptions, and that the headers keep to the ASSUMEs of `Headers`). `PackTable` uses bit operations and `MCInline` instantiates it, so
neither can be reasoned about.

Beside the properties of the runs the modules keep type invariants that the proofs use (`TypeOK` of `MemMove` and
`CharRead` and `RstatServer`, `ListsTypeOK`).

## Not modelled

- Constants. About 4,000 have a value in both languages; they were compared while the layouts were
  written down (the differences are above), but a table of numbers has no behaviour of its own.
- Declarations, as far as they are not structures of both languages: types in prototypes, the tags of classes, structures that only C
  declares (the network's, POSIX). `posix/include` is on no search path.
- Bindings without a description to compare with: `hdwrench`, the cia resources and 13 libraries of other vendors.
- The client `rstat.c` (one remote call, then output), the line reader (`lineread.h`: a structure and two prototypes), the other `.x` files
  (data layouts and procedure numbers), the configuration of the tool chain but for its search paths, and all that is binary.
- exec.library, the compiler, the kernel, inetd and the peers are external: modelled only as far as the code relies on them.

## Plan

Built first: `ExecAbles`, `ExecLists` with `ListSpec` and the refinement, `CharRead`, `RstatServer`, `MemMove`, `MemSet`,
`StrInline`, and the proofs about them; then the macros of tables, control messages, user numbers and stdio, the
calls through bindings, the inclusion of headers, the layouts, the namelist and `v_intr`; then the proofs of the links, the walks and the refinement, of memset, the string functions and calls, of the other pieces of `Inline`, and of the inclusion of headers. Next:

1. Proofs: the tables of `InitTable` for any number of entries.
