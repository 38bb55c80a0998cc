----------------------------- MODULE ExecAbles ------------------------------
(***************************************************************************)
(* Arbitration on a single Amiga CPU, from ndk/include_i/exec/ables.i: the *)
(* macros DISABLE, ENABLE, FORBID and PERMIT, executed one memory-touching *)
(* instruction at a time by tasks and by an interrupt server that may cut  *)
(* in between any two of them.                                             *)
(*                                                                         *)
(* Taking an interrupt, returning from it, switching tasks and             *)
(* _LVOPermit belong to exec.library, which is not in this repository:     *)
(* they are modelled from the counters the macros and execbase.h show.     *)
(***************************************************************************)
EXTENDS Integers, FiniteSets

CONSTANTS
  Tasks,      \* the tasks exec schedules
  Server,     \* the interrupt server
  ByteMax,    \* largest value of a BYTE: 127 in the code
  MaxDepth    \* bound: calls of one kind a program nests

ASSUME ActorsAssumption == Tasks # {} /\ Server \notin Tasks
ASSUME ByteAssumption   == ByteMax \in Nat /\ MaxDepth \in Nat

Actors == Tasks \cup {Server}

VARIABLES
  intena,            \* the INTEN bit of the custom register _intena
  IDNestCnt,         \* ExecBase: interrupt disable nesting count
  TDNestCnt,         \* ExecBase: task disable nesting count
  AttnResched,       \* ExecBase: a task switch is due
  current,           \* ExecBase->ThisTask
  inServer,          \* the CPU is executing the interrupt server
  pc,                \* what each actor executes next
  disables, forbids  \* calls each actor has made and not undone yet

exec      == <<intena, IDNestCnt, TDNestCnt, AttnResched, current, inServer>>
ablesVars == <<exec, pc, disables, forbids>>

\* BYTE arithmetic wraps.
BYTE == -(ByteMax + 1) .. ByteMax
Incr(b) == IF b = ByteMax THEN -(ByteMax + 1) ELSE b + 1
Decr(b) == IF b = -(ByteMax + 1) THEN ByteMax ELSE b - 1

AblesInit ==
  /\ intena = TRUE /\ IDNestCnt = -1 /\ TDNestCnt = -1
  /\ AttnResched = FALSE /\ current \in Tasks /\ inServer = FALSE
  /\ pc = [p \in Actors |-> "idle"]
  /\ disables = [p \in Actors |-> 0] /\ forbids = [p \in Actors |-> 0]

\* The actor whose instructions the CPU is executing.
Running(p) == IF inServer THEN p = Server ELSE p = current

At(p, label)   == Running(p) /\ pc[p] = label
Goto(p, label) == pc' = [pc EXCEPT ![p] = label]

(***************************************************************************)
(* DISABLE: _intena is written before IDNestCnt is counted up.             *)
(***************************************************************************)
DisableFrom(p, inten) ==
  /\ At(p, "idle") /\ disables[p] < MaxDepth
  /\ intena' = inten
  /\ Goto(p, "Disable2")
  /\ UNCHANGED <<IDNestCnt, TDNestCnt, AttnResched, current, inServer, disables, forbids>>
Disable1_SetClr(p) == DisableFrom(p, TRUE)    \* variant: written with IF_SETCLR
Disable1(p)        == DisableFrom(p, FALSE)

Disable2(p) ==
  /\ At(p, "Disable2")
  /\ IDNestCnt' = Incr(IDNestCnt)
  /\ Goto(p, "idle")
  /\ disables' = [disables EXCEPT ![p] = @ + 1]
  /\ UNCHANGED <<intena, TDNestCnt, AttnResched, current, inServer, forbids>>

(***************************************************************************)
(* ENABLE: SUBQ.B, and BGE (on the sign of the exact difference) skips the *)
(* write to _intena.                                                       *)
(***************************************************************************)
CountDown(p, skip) ==
  /\ At(p, "idle") /\ disables[p] > 0
  /\ IDNestCnt' = Decr(IDNestCnt)
  /\ Goto(p, IF skip THEN "idle" ELSE "Enable2")
  /\ disables' = [disables EXCEPT ![p] = @ - 1]
  /\ UNCHANGED <<intena, TDNestCnt, AttnResched, current, inServer, forbids>>
Enable1_BGT(p)  == CountDown(p, IDNestCnt - 1 > 0)    \* variant: BGT for BGE
Enable1_BRA(p)  == CountDown(p, TRUE)                 \* variant: never re-enables
Enable1(p)      == CountDown(p, IDNestCnt - 1 >= 0)

Enable2(p) ==
  /\ At(p, "Enable2")
  /\ intena' = TRUE
  /\ Goto(p, "idle")
  /\ UNCHANGED <<IDNestCnt, TDNestCnt, AttnResched, current, inServer, disables, forbids>>

(***************************************************************************)
(* FORBID is one ADDQ.B.  PERMIT calls _LVOPermit: it counts down, and     *)
(* switches tasks if that is due and allowed again.                        *)
(***************************************************************************)
SwitchAllowed == TDNestCnt' < 0 /\ IDNestCnt < 0

Reschedule ==
  \/ SwitchAllowed /\ current' \in Tasks /\ AttnResched' = FALSE
  \/ ~SwitchAllowed /\ AttnResched' = TRUE /\ UNCHANGED current

ForbidTo(t, count) ==
  /\ At(t, "idle") /\ forbids[t] < MaxDepth
  /\ TDNestCnt' = count
  /\ forbids' = [forbids EXCEPT ![t] = @ + 1]
  /\ UNCHANGED <<intena, IDNestCnt, AttnResched, current, inServer, pc, disables>>
Forbid_NotNested(t) == ForbidTo(t, 0)    \* variant: sets a flag, does not count
Forbid(t)           == ForbidTo(t, Incr(TDNestCnt))

Permit(t) ==
  /\ At(t, "idle") /\ forbids[t] > 0
  /\ TDNestCnt' = Decr(TDNestCnt)
  /\ forbids' = [forbids EXCEPT ![t] = @ - 1]
  /\ IF AttnResched THEN Reschedule ELSE UNCHANGED <<AttnResched, current>>
  /\ UNCHANGED <<intena, IDNestCnt, inServer, pc, disables>>

(***************************************************************************)
(* Interrupts and task switches                                            *)
(***************************************************************************)
Interrupt ==
  /\ intena /\ ~inServer
  /\ inServer' = TRUE
  /\ UNCHANGED <<intena, IDNestCnt, TDNestCnt, AttnResched, current, pc, disables, forbids>>

\* The server is done; a task switch may have become due.
ReturnFromInterrupt ==
  /\ At(Server, "idle") /\ disables[Server] = 0
  /\ inServer' = FALSE
  /\ UNCHANGED TDNestCnt
  /\ Reschedule \/ (~AttnResched /\ UNCHANGED <<AttnResched, current>>)
  /\ UNCHANGED <<intena, IDNestCnt, pc, disables, forbids>>

Arbitrate(p) == Disable1(p) \/ Disable2(p) \/ Enable1(p) \/ Enable2(p)
AblesNext ==
  \/ \E p \in Actors : Arbitrate(p)
  \/ \E t \in Tasks : Forbid(t) \/ Permit(t)
  \/ Interrupt \/ ReturnFromInterrupt

AblesSpec == AblesInit /\ [][AblesNext]_ablesVars

(***************************************************************************)
(* Properties                                                              *)
(***************************************************************************)

\* "Disable all tasks and interrupts" (ables.i:24): from the end of a DISABLE
\* to its ENABLE nothing else gets the CPU, however the two nest with other
\* DISABLEs and FORBIDs.
DisableExcludesAll ==
  \A t \in Tasks : disables[t] > 0 => current = t /\ ~inServer /\ ~intena

\* "Forbid all other tasks (but not interrupts)" (ables.i:82): the task that
\* called FORBID stays the current one, whatever interrupts come and go, until
\* it has called PERMIT as often.
ForbidExcludesTasks == \A t \in Tasks : forbids[t] > 0 => current = t

\* "IDNestCnt", "TDNestCnt": as integers, not just as BYTEs that wrap, the two
\* counters are one less than the calls outstanding, whoever made them: the
\* server nests only on a task that has no DISABLE, and no task inherits what
\* another has nested, so at most MaxDepth calls add up in one BYTE.
NestingCounted ==
  /\ IDNestCnt = disables[current] + disables[Server] - 1
  /\ TDNestCnt = forbids[current] - 1

\* Interrupts are never left off: once every DISABLE has been matched by an
\* ENABLE that has run to its end, _intena is on and both counters are back at
\* -1, so that nobody inherits another's nesting.
NestingRestored ==
  (\A p \in Actors : pc[p] \notin {"Disable2", "Enable2"} /\ disables[p] = 0 /\ forbids[p] = 0)
    => intena /\ IDNestCnt = -1 /\ TDNestCnt = -1

\* A task is never switched away from in the middle of DISABLE or ENABLE, nor
\* while it keeps others out.
SwitchOnlyWhenFree ==
  [][current' # current => /\ pc[current] \notin {"Disable2", "Enable2"}
                           /\ disables[current] = 0 /\ forbids'[current] = 0]_ablesVars
=============================================================================
