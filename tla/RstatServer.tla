---------------------------- MODULE RstatServer ----------------------------
(***************************************************************************)
(* The kernel statistics server of netinclude/rpcsvc/rstat_proc.c.  One    *)
(* process answers RPC requests; once a second SIGALRM interrupts it       *)
(* wherever it is and runs updatestat(), which reads kernel memory through *)
(* the same descriptor, into the same union, as the interrupted program.   *)
(*                                                                         *)
(* A value is where it came from: the kernel variable, and when it was     *)
(* read.  updatestat() runs to its end before the interrupted program      *)
(* moves again, but the kernel moves all the time.  The dispatch loop and  *)
(* the XDR encoding (generated by rpcgen), inetd and the kernel are        *)
(* external.                                                               *)
(***************************************************************************)
EXTENDS Integers, Sequences

CONSTANTS
  CLOSEDOWN,        \* alarms without a request before the server exits
  EXIT_WHEN_IDLE,   \* TRUE in a build that defines it
  VAX,              \* TRUE in a build for the vax
  HasDisk,          \* some drive of the host has made a transfer
  KmemFails,        \* TRUE if a read of /dev/kmem may fail
  Asked,            \* the procedures clients call
  Lacking,          \* the sets of nl[]'s symbols that the namelist may be without
  Pauses,           \* bound: what nlist() may have left to find when it is interrupted
  MaxFds,           \* descriptors a process may have open on /dev/kmem
  MaxRequests,      \* bound: requests that arrive
  MaxNow,           \* bound: times the kernel's variables change
  MaxIfs            \* bound: network interfaces of the host

Stats == {"stats_1", "stats_2", "stats_3"}
Procs == Stats \cup {"havedisk", "null"}

Symbols == {"cp_time", "sum", "dk_xfer", "boottime", "avenrun", "hz"}

\* A kernel without the symbol "ifnet" would have the server follow a chain
\* that starts anywhere in memory: that is left out.
ASSUME NamelistAssumption == Lacking \subseteq SUBSET Symbols /\ Pauses \subseteq SUBSET Symbols
ASSUME ServerAssumption ==
  /\ CLOSEDOWN \in Nat /\ MaxFds \in Nat \ {0} /\ Asked \subseteq Procs
  /\ {EXIT_WHEN_IDLE, VAX, HasDisk, KmemFails} \subseteq BOOLEAN
ASSUME ServerBounds ==
  MaxRequests \in Nat /\ MaxNow \in Nat /\ MaxIfs \in Nat \ {0}

VARIABLES
  now, nifs,       \* the kernel: version of its variables, interfaces
  missing,         \* the symbols nlist() does not find: their n_value is 0
  inbox, arrived,  \* requests waiting in the socket, requests ever arrived
  status,          \* "up", or how the process ended
  main, req,       \* where the main program is, request in hand
  reply, sent,     \* reply as far as it is encoded, last reply sent
  stat_is_init, sincelastreq, numintfs, stats_all,
  unlisted,        \* the symbols of nl[] that nlist() is about to find again
  kmem, pos,       \* descriptor (the opens so far number them), its offset
  up, off, i,      \* where updatestat() is ("out" if nowhere), loop variables
  alarm, caught    \* the timer; SIGALRM has a handler

env    == <<now, nifs, missing, inbox, arrived>>
prog   == <<main, req, reply, sent, stat_is_init>>
data   == <<sincelastreq, numintfs, stats_all, unlisted, kmem, pos>>
local  == <<up, off, i>>
signal == <<alarm, caught>>
vars   == <<env, status, prog, data, local, signal>>

\* Places in kernel memory: where a symbol of nl[] is, address 0 for one that is
\* missing or, while nlist() runs again, not found yet, and wherever a read leaves
\* the offset of a descriptor.
AddressZero == "address 0"
Unlisted    == "address 0, for the time being"
Elsewhere   == "elsewhere"
Place(s) == IF s \in missing THEN AddressZero ELSE IF s \in unlisted THEN Unlisted ELSE s
Places   == Symbols \cup {AddressZero, Unlisted, Elsewhere}

(***************************************************************************)
(* The union stats_all by its 32-bit words.  Up to the collisions the      *)
(* three structs agree; of the words that one read fills there, the first  *)
(* stands for all: cp_time for four, v_pgpgin for five, if_ipackets for    *)
(* four.  Word 17 is if_opackets in struct stats and v_swtch in the        *)
(* others, word 23 if_opackets in struct statsswtch and curtime.tv_sec in  *)
(* struct statstime, word 24 the curtime.tv_usec and word 25 the           *)
(* if_opackets of struct statstime.                                        *)
(***************************************************************************)
Common == <<"cp_time", "dk_xfer", "v_pgpgin", "if_ipackets">>
Layout ==
  [ stats_1 |-> Common \o <<"word17">>,
    stats_2 |-> Common \o <<"word17", "avenrun", "boottime", "word23">>,
    stats_3 |-> Common \o <<"word17", "avenrun", "boottime", "word23", "word24", "word25">> ]
Fields ==
  [ stats_1 |-> Common \o <<"if_opackets">>,
    stats_2 |-> Common \o <<"v_swtch", "avenrun", "boottime", "if_opackets">>,
    stats_3 |-> Common \o <<"v_swtch", "avenrun", "boottime", "tv_sec", "tv_usec", "if_opackets">> ]
Words == {Layout.stats_3[k] : k \in 1 .. 10}

\* A value: the place it was read from, when, and for a sum over interfaces
\* the ones that were added, in order.
Zero       == [of |-> "zero", at |-> 0, ifs |-> <<>>]
Value(s)   == [of |-> s, at |-> now, ifs |-> <<>>]
Plus(v, n) == [of |-> "ifnet", at |-> now, ifs |-> Append(v.ifs, n)]

NoReply == [proc |-> "none", body |-> <<>>, have |-> FALSE]

TypeOK ==
  /\ now \in 0 .. MaxNow /\ nifs \in 1 .. MaxIfs /\ missing \in Lacking
  /\ inbox \in Seq(Asked) /\ arrived \in 0 .. MaxRequests
  /\ status \in {"up", "idle", "error", "killed"}
  /\ main \in {"svc", "dispatch", "setup", "count", "updating", "signal",
               "sleep", "reset", "nlist", "finding", "open", "seek", "read", "encode"}
  /\ up \in {"out", "idle", "hz", "cp_time", "avenrun", "boottime", "sum", "dk_xfer", "ifnet"}
  /\ off \in 0 .. MaxIfs /\ i \in 0 .. MaxIfs /\ numintfs \in 0 .. MaxIfs
  /\ req \in Asked \cup {"none"} /\ {reply.proc, sent.proc} \subseteq Procs \cup {"none"}
  /\ stat_is_init \in BOOLEAN /\ caught \in BOOLEAN /\ alarm \in {"off", "set", "due"}
  /\ sincelastreq \in 0 .. CLOSEDOWN
  /\ unlisted \subseteq Symbols /\ kmem \in 0 .. MaxFds /\ pos \in Places
  /\ DOMAIN stats_all = Words /\ \A w \in Words : stats_all[w].at \in 0 .. MaxNow

\* A fresh process: static storage is zero.
Init ==
  /\ now = 0 /\ nifs = 1 /\ missing \in Lacking /\ inbox = <<>> /\ arrived = 0
  /\ status = "up" /\ main = "svc" /\ up = "out" /\ off = 0 /\ i = 0
  /\ req = "none" /\ reply = NoReply /\ sent = NoReply
  /\ stat_is_init = FALSE /\ sincelastreq = 0 /\ numintfs = 0
  /\ stats_all = [w \in Words |-> Zero]
  /\ unlisted = {} /\ kmem = 0 /\ pos = Elsewhere
  /\ alarm = "off" /\ caught = FALSE

(***************************************************************************)
(* The environment.                                                        *)
(***************************************************************************)
Tick ==
  /\ now < MaxNow /\ now' = now + 1
  /\ UNCHANGED <<nifs, missing, inbox, arrived, status, prog, data, local, signal>>

\* A driver attaches an interface: it goes to the end of the kernel's chain.
IfAttach ==
  /\ nifs < MaxIfs /\ nifs' = nifs + 1
  /\ UNCHANGED <<now, missing, inbox, arrived, status, prog, data, local, signal>>

Arrive ==
  /\ arrived < MaxRequests /\ arrived' = arrived + 1
  /\ \E p \in Asked : inbox' = Append(inbox, p)
  /\ UNCHANGED <<now, nifs, missing, status, prog, data, local, signal>>

\* inetd runs the server anew when a request waits in the socket.
Restart ==
  /\ status # "up" /\ inbox # <<>>
  /\ status' = "up" /\ main' = "svc" /\ up' = "out" /\ off' = 0 /\ i' = 0
  /\ req' = "none" /\ reply' = NoReply /\ sent' = NoReply
  /\ stat_is_init' = FALSE /\ sincelastreq' = 0 /\ numintfs' = 0
  /\ stats_all' = [w \in Words |-> Zero]
  /\ unlisted' = {} /\ kmem' = 0 /\ pos' = Elsewhere
  /\ alarm' = "off" /\ caught' = FALSE
  /\ UNCHANGED env

Ring ==
  /\ status = "up" /\ alarm = "set" /\ alarm' = "due"
  /\ UNCHANGED <<env, status, prog, data, local, caught>>

\* The process ends, and its timer with it.
EndsBy(how) ==
  /\ status' = how /\ alarm' = "off" /\ caught' = FALSE /\ up' = "out"
  /\ UNCHANGED <<env, prog, data, off, i>>

\* SIGALRM is delivered, unless its handler runs; without a handler it kills.
Deliver ==
  /\ status = "up" /\ alarm = "due" /\ up = "out"
  /\ \/ /\ caught /\ alarm' = "off" /\ up' = "idle"
        /\ UNCHANGED <<env, status, prog, data, off, i, caught>>
     \/ ~caught /\ EndsBy("killed")

(***************************************************************************)
(* updatestat(), one read of kernel memory at a time.                      *)
(***************************************************************************)

\* Where read() reads from after lseek() to a.
Sought_NoSeek(a) == pos
Sought(a) == a

At(stage) == status = "up" /\ up = stage

\* What a read at place a puts into a word.
Read(a) == Value(Sought(a))

\* From one stage to the next, storing into some of the words.
Stores(stage, next, words) ==
  /\ At(stage) /\ up' = next
  /\ stats_all' = [w \in Words |-> IF w \in DOMAIN words THEN words[w] ELSE stats_all[w]]
  /\ UNCHANGED <<env, status, prog, sincelastreq, numintfs, unlisted, kmem>>

Reads(stage, next, words) ==
  Stores(stage, next, words) /\ pos' = Elsewhere /\ UNCHANGED signal

IdleLongEnough == EXIT_WHEN_IDLE /\ sincelastreq >= CLOSEDOWN

CloseDown ==
  /\ At("idle") /\ IdleLongEnough
  /\ EndsBy("idle")

CountAlarm ==
  /\ At("idle") /\ ~IdleLongEnough
  /\ sincelastreq' = IF EXIT_WHEN_IDLE THEN sincelastreq + 1 ELSE sincelastreq
  /\ up' = "hz"
  /\ UNCHANGED <<env, status, prog, numintfs, stats_all, unlisted, kmem, pos, off, i, signal>>

ReadHz     == Reads("hz", "cp_time", <<>>) /\ UNCHANGED <<off, i>>
ReadCpTime == Reads("cp_time", "avenrun", [cp_time |-> Read(Place("cp_time"))]) /\ UNCHANGED <<off, i>>

\* The load averages are read and stored on a vax only; elsewhere the offset is
\* set and nothing is read.
Avenrun ==
  /\ IF VAX
     THEN Reads("avenrun", "boottime", [avenrun |-> Read(Place("avenrun"))])
     ELSE Stores("avenrun", "boottime", <<>>) /\ pos' = Place("avenrun") /\ UNCHANGED signal
  /\ UNCHANGED <<off, i>>

ReadBootTime == Reads("boottime", "sum", [boottime |-> Read(Place("boottime"))]) /\ UNCHANGED <<off, i>>

\* v_swtch of struct statsswtch is stored too: word 17.
ReadSum ==
  /\ Reads("sum", "dk_xfer", [v_pgpgin |-> Read(Place("sum")), word17 |-> Read(Place("sum"))])
  /\ UNCHANGED <<off, i>>

\* dk_xfer, then the counters of struct stats are zeroed and the walk over the
\* interfaces begins; firstifnet was read by setup() and is not read again.
Zeroed_NotYet == [dk_xfer |-> Read(Place("dk_xfer"))]
Zeroed == [dk_xfer |-> Read(Place("dk_xfer")), if_ipackets |-> Zero, word17 |-> Zero]
ReadDkXfer ==
  Reads("dk_xfer", "ifnet", Zeroed) /\ off' = 1 /\ i' = 0

\* The interface behind the n-th in the chain, 0 at its end.
NextIfnet(n) == IF n < nifs THEN n + 1 ELSE 0

\* One round of the loop over the interfaces that setup() counted.
MoreIfnets == off # 0 /\ i < numintfs
ReadIfnet ==
  /\ MoreIfnets
  /\ Reads("ifnet", "ifnet", [if_ipackets |-> Plus(stats_all["if_ipackets"], off),
                              word17 |-> Plus(stats_all["word17"], off)])
  /\ off' = NextIfnet(off) /\ i' = i + 1

\* The time of day goes into curtime, words 23 and 24, and the timer is set again.
BothHalves(v) == [word23 |-> v, word24 |-> v]
TimeWords_Early == BothHalves([Value("curtime") EXCEPT !.at = stats_all["cp_time"].at])
TimeWords == BothHalves(Value("curtime"))
Rearmed_Not == alarm
Rearmed == IF alarm = "due" THEN "due" ELSE "set"
CurTime ==
  /\ ~MoreIfnets
  /\ Stores("ifnet", "out", TimeWords)
  /\ alarm' = Rearmed
  /\ UNCHANGED <<pos, off, i, caught>>

UpdateStat ==
  \/ CloseDown \/ CountAlarm \/ ReadHz \/ ReadCpTime \/ Avenrun \/ ReadBootTime
  \/ ReadSum \/ ReadDkXfer \/ ReadIfnet \/ CurTime

(***************************************************************************)
(* The main program, which moves while updatestat() is nowhere.            *)
(***************************************************************************)
On(label) == status = "up" /\ up = "out" /\ main = label

Receive ==
  /\ On("svc") /\ inbox # <<>>
  /\ req' = Head(inbox) /\ inbox' = Tail(inbox) /\ main' = "dispatch"
  /\ UNCHANGED <<now, nifs, missing, arrived, status, reply, sent, stat_is_init, data, local, signal>>

Answer(r) == sent' = r /\ reply' = NoReply /\ req' = "none" /\ main' = "svc"

\* The generated dispatcher answers the null procedure by itself; every other
\* procedure initialises first.
Dispatch ==
  /\ On("dispatch")
  /\ IF req = "null"
     THEN Answer([NoReply EXCEPT !.proc = "null"]) /\ UNCHANGED stat_is_init
     ELSE /\ main' = IF stat_is_init THEN "reset" ELSE "setup"
          /\ stat_is_init' = TRUE
          /\ UNCHANGED <<req, reply, sent>>
  /\ UNCHANGED <<env, status, data, local, signal>>

\* nlist() is over, and has not found the symbol that setup(), or havedisk(), looks
\* at: exit(1).
Checked(label, s) == On(label) /\ s \in missing
NamelistFails == Checked("setup", "cp_time") \/ Checked("open", "dk_xfer")
SymbolMissing == NamelistFails /\ EndsBy("error")

\* setup() opens kernel memory and reads firstifnet.
Setup ==
  /\ On("setup") /\ ~NamelistFails /\ kmem < MaxFds /\ kmem' = kmem + 1 /\ pos' = Elsewhere
  /\ numintfs' = 0 /\ off' = 1 /\ main' = "count"
  /\ UNCHANGED <<env, status, req, reply, sent, stat_is_init, sincelastreq, stats_all, unlisted, up, i, signal>>

CountIfnet ==
  /\ On("count") /\ off # 0
  /\ numintfs' = numintfs + 1 /\ off' = NextIfnet(off) /\ pos' = Elsewhere
  /\ UNCHANGED <<env, status, prog, sincelastreq, stats_all, unlisted, kmem, up, i, signal>>

\* All interfaces counted: updatestat() is called.
FirstUpdate_Skipped == up' = "out"
FirstUpdate == up' = "idle"
Counted ==
  /\ On("count") /\ off = 0 /\ main' = "updating" /\ FirstUpdate
  /\ UNCHANGED <<env, status, req, reply, sent, stat_is_init, data, off, i, signal>>

\* updatestat() has returned, its alarm set: alarm(1) once more,
AlarmAgain ==
  /\ On("updating") /\ main' = "signal"
  /\ alarm' = Rearmed
  /\ UNCHANGED <<env, status, req, reply, sent, stat_is_init, data, local, caught>>

\* and only now a handler, then sleep(1), which may be cut short.
Catch ==
  /\ On("signal") /\ main' = "sleep" /\ caught' = TRUE
  /\ UNCHANGED <<env, status, req, reply, sent, stat_is_init, data, local, alarm>>

Wake ==
  /\ On("sleep") /\ main' = "reset"
  /\ UNCHANGED <<env, status, req, reply, sent, stat_is_init, data, local, signal>>

\* sincelastreq = 0, then the union is handed to the encoder, or havedisk() runs.
Reset ==
  /\ On("reset") /\ sincelastreq' = 0
  /\ main' = IF req = "havedisk" THEN "nlist" ELSE "encode"
  /\ reply' = [NoReply EXCEPT !.proc = req]
  /\ UNCHANGED <<env, status, req, sent, stat_is_init, numintfs, stats_all, unlisted, kmem, pos, local, signal>>

\* havedisk() calls nlist() for the table that the alarm's updatestat() seeks by:
\* it clears every n_value, and fills them in again as it meets the symbols in
\* /vmunix, in whatever order they have there (where Pauses lets the alarm in).
Nlist(rest) ==
  /\ unlisted' = rest /\ main' = IF rest = {} THEN "open" ELSE "finding"
  /\ UNCHANGED <<env, status, req, reply, sent, stat_is_init, sincelastreq, numintfs, stats_all, kmem, pos,
                 local, signal>>
NlistClears == On("nlist") /\ Nlist(Symbols \ missing)
NlistFinds ==
  On("finding") /\ \E rest \in Pauses \cup {{}} : rest \subseteq unlisted /\ rest # unlisted /\ Nlist(rest)

\* havedisk() opens kernel memory again, into the same variable, for good.
Open ==
  /\ On("open") /\ ~NamelistFails /\ kmem < MaxFds /\ kmem' = kmem + 1 /\ pos' = Elsewhere /\ main' = "seek"
  /\ UNCHANGED <<env, status, req, reply, sent, stat_is_init, sincelastreq, numintfs, stats_all, unlisted, local, signal>>

Seek ==
  /\ On("seek") /\ pos' = Place("dk_xfer") /\ main' = "read"
  /\ UNCHANGED <<env, status, req, reply, sent, stat_is_init, sincelastreq, numintfs, stats_all, unlisted, kmem, local, signal>>

\* The sum of what is read is zero or not: of the drives' transfers, or of
\* whatever else the offset points at.
ReadXfer ==
  /\ On("read") /\ pos' = Elsewhere
  /\ \E have \in IF pos = Place("dk_xfer") THEN {HasDisk} ELSE BOOLEAN :
       Answer([reply EXCEPT !.have = have])
  /\ UNCHANGED <<env, status, stat_is_init, sincelastreq, numintfs, stats_all, unlisted, kmem, local, signal>>

\* The encoder reads the union a word at a time, then the reply is sent.
Encode ==
  /\ On("encode")
  /\ LET n == Len(reply.body)
     IN  IF n = Len(Layout[req])
         THEN Answer(reply)
         ELSE /\ reply' = [reply EXCEPT !.body = Append(@, stats_all[Layout[req][n + 1]])]
              /\ UNCHANGED <<main, req, sent>>
  /\ UNCHANGED <<env, status, stat_is_init, data, local, signal>>

\* No descriptor is left, or a seek or read of kernel memory fails: exit(1).
OpenFails == (On("setup") \/ On("open")) /\ ~NamelistFails /\ kmem = MaxFds /\ EndsBy("error")
ReadFails ==
  /\ KmemFails /\ status = "up"
  /\ up \notin {"out", "idle"} \/ \E m \in {"setup", "count", "seek", "read"} : On(m)
  /\ EndsBy("error")

Program ==
  \/ Receive \/ Dispatch \/ Setup \/ CountIfnet \/ Counted \/ AlarmAgain \/ Catch
  \/ Wake \/ Reset \/ NlistClears \/ NlistFinds \/ SymbolMissing \/ Open \/ Seek \/ ReadXfer \/ Encode \/ OpenFails

Environment == Tick \/ IfAttach \/ Arrive \/ Restart \/ Ring \/ Deliver \/ ReadFails

Next == Environment \/ UpdateStat \/ Program

Spec == Init /\ [][Next]_vars

\* Time passes, so a set alarm rings and is delivered; the process runs.
FairSpec ==
  Spec /\ WF_vars(Ring) /\ WF_vars(Deliver) /\ WF_vars(UpdateStat) /\ WF_vars(Program)

(***************************************************************************)
(* Safety.                                                                 *)
(***************************************************************************)

\* A word of stats_all holds what its name says, or nothing yet (lines 160-226):
\* updatestat() seeks before every read, so that it does not matter where the
\* program it interrupted, or havedisk()'s new descriptor, left the offset.
\* From address 0 comes only a word of a symbol that is missing and that no check
\* asks for (lines 261 and 304), which cp_time is not, and what an alarm read that
\* went off in the nlist() of a HAVEDISK call (line 303): that stays until the
\* next update after the nlist() reads the word again, and no longer.
Sources ==
  [ cp_time |-> {"cp_time"}, dk_xfer |-> {"dk_xfer"}, v_pgpgin |-> {"sum"},
    if_ipackets |-> {"ifnet"}, word17 |-> {"sum", "ifnet"}, avenrun |-> {"avenrun"},
    boottime |-> {"boottime"}, word23 |-> {"curtime"}, word24 |-> {"curtime"}, word25 |-> {} ]
AfterSum == {"dk_xfer", "ifnet"}
Since ==    \* the stages at which the current update has read the word
  [ cp_time |-> {"avenrun", "boottime", "sum"} \cup AfterSum, v_pgpgin |-> AfterSum, word17 |-> AfterSum,
    avenrun |-> IF VAX THEN {"boottime", "sum"} \cup AfterSum ELSE {},
    boottime |-> {"sum"} \cup AfterSum, dk_xfer |-> {"ifnet"} ]
ReadDuringNlist(w) ==
  /\ stats_all[w].of = Unlisted /\ w \in DOMAIN Since
  /\ kmem > 1 \/ main \in {"finding", "open"}
  /\ up \in Since[w] => unlisted # {}
UpdateReadsRight ==
  \A w \in Words :
    \/ stats_all[w].of \in Sources[w] \cup {"zero"}
    \/ stats_all[w].of = AddressZero /\ Sources[w] \cap (missing \ {"cp_time"}) # {}
    \/ ReadDuringNlist(w)

\* Once stat_init() has set the first alarm there is always one set, one due or
\* one being handled (lines 76 and 251): otherwise the statistics would never be
\* read again, and the server never close down.
AlarmLives ==
  status = "up" /\ stat_is_init /\ main \notin {"setup", "count"}
    => alarm # "off" \/ up # "out"

\* A reply holds only words updatestat() has filled, though stat_is_init is set
\* before it ever ran (lines 73-75 and 84-88): except those it never fills.
AnswersAfterUpdate ==
  sent.proc \in Stats =>
    \A k \in 1 .. Len(sent.body) :
      Layout[sent.proc][k] \notin {"avenrun", "word25"} => sent.body[k].of # "zero"

\* The interface counters of a reply add up each interface that setup() counted,
\* and no other, exactly once (lines 228-248), although the words are zeroed
\* and summed up again in place while a reply is being encoded, and the kernel
\* adds interfaces.
InterfacesOnce ==
  sent.proc \in Stats => sent.body[4].ifs = [n \in 1 .. numintfs |-> n]

\* The time in a version 3 reply is read last (lines 249-250) and encoded after the
\* statistics that updatestat() fills, so that even if updatestat() ran in the
\* middle of the encoding, its seconds are no earlier than any of those, nor are
\* its microseconds earlier than its seconds.
CurtimeNotBefore ==
  sent.proc = "stats_3" =>
    /\ \A k \in 1 .. 8 : sent.body[k].at <= sent.body[8].at
    /\ sent.body[8].at <= sent.body[9].at

(***************************************************************************)
(* Liveness.                                                               *)
(***************************************************************************)

\* A server that has initialised itself closes down (lines 47-55 and 143-150)
\* when no more requests arrive.
InitialisedCloses == (status = "up" /\ stat_is_init) ~> (status # "up")

(***************************************************************************)
(* What the comments say and the code does not do.                         *)
(***************************************************************************)

\* "returns true if have a disk" (line 295).
HavediskRight == sent.proc = "havedisk" => sent.have = HasDisk

\* Version 3 has "context switching info" (rstat.x line 88): the v_switch of vmmeter.
SwtchReported ==
  sent.proc = "stats_3" =>
    \A k \in 1 .. Len(sent.body) : Fields.stats_3[k] = "v_swtch" => sent.body[k].of = "sum"
=============================================================================
