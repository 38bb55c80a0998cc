--------------------------- MODULE ExecListsProofs ---------------------------
(* Proofs about DISABLE, ENABLE, FORBID and PERMIT, for any number of tasks,   *)
(* any width of the nesting counters and any nesting they can count; and about *)
(* the list macros, for any number of tasks, lists and nodes:                  *)
(* that whoever is inside a macro on an arbitrated list is alone on it, that   *)
(* the macros, interrupted after any of their instructions, leave every list   *)
(* linked both ways, that the emptiness tests answer right, and that a walk    *)
(* with NEXTNODE misses no node.                                               *)
(*                                                                             *)
(* The argument.  A list is whole in a memory when its nodes form a chain in   *)
(* it, from the header's head to its tail, with every link matched by one      *)
(* back.  While an actor is inside a macro its list is not whole, but is so in *)
(* memory with one store more, which the actor's registers determine (Owed).   *)
(* Ownership (OneAtATimeTheorem) keeps every other actor off the list;         *)
(* so each step changes words of one list and of one actor's nodes (Local),    *)
(* and leaves the chains of the others as they are.                            *)
EXTENDS ExecLists, TLAPS

(***************************************************************************)
(* The arbitration macros.                                                 *)
(* The inductive invariant.  The counters are the nesting of the only task *)
(* that can have any, the current one, plus the server's; _intena is off   *)
(* exactly while one of these two is inside a DISABLE, counting the        *)
(* instructions of DISABLE and ENABLE themselves.                          *)
(***************************************************************************)
InMacro(p) == pc[p] \in {"Disable2", "Enable2"}

AblesTypeOK ==
  /\ intena \in BOOLEAN /\ inServer \in BOOLEAN /\ AttnResched \in BOOLEAN
  /\ IDNestCnt \in BYTE /\ TDNestCnt \in BYTE
  /\ current \in Tasks
  /\ disables \in [Actors -> 0 .. MaxDepth] /\ forbids \in [Actors -> 0 .. MaxDepth]

AblesState ==
  /\ AblesTypeOK
  /\ pc = [p \in Actors |-> pc[p]]

OnlyCurrentNests ==
  /\ forbids[Server] = 0
  /\ \A t \in Tasks : t # current => disables[t] = 0 /\ forbids[t] = 0 /\ ~InMacro(t)

IntenaAgrees ==
  /\ intena <=> \A p \in {current, Server} : disables[p] = 0 /\ ~InMacro(p)
  /\ inServer => disables[current] = 0 /\ ~InMacro(current)
  /\ ~inServer => disables[Server] = 0 /\ pc[Server] = "idle"

MidMacro ==
  \A p \in Actors : /\ pc[p] = "Disable2" => disables[p] < MaxDepth
                    /\ pc[p] = "Enable2" => disables[p] = 0

AblesInv == AblesState /\ OnlyCurrentNests /\ NestingCounted /\ IntenaAgrees /\ MidMacro

\* AblesInv holds initially.
LEMMA AblesInitInv == AblesInit => AblesInv
<1> SUFFICES ASSUME AblesInit PROVE AblesInv
  OBVIOUS
<1> USE ActorsAssumption, ByteAssumption DEF AblesInit, Actors
<1>1. AblesState
  <2>1. IDNestCnt \in BYTE /\ TDNestCnt \in BYTE
    BY DEF BYTE
  <2>2. disables \in [Actors -> 0 .. MaxDepth] /\ forbids \in [Actors -> 0 .. MaxDepth]
    OBVIOUS
  <2>3. pc = [p \in Actors |-> pc[p]]
    OBVIOUS
  <2>. QED
    BY <2>1, <2>2, <2>3 DEF AblesState, AblesTypeOK
<1>2. OnlyCurrentNests /\ NestingCounted /\ IntenaAgrees /\ MidMacro
  BY DEF OnlyCurrentNests, NestingCounted, IntenaAgrees, InMacro, MidMacro
<1>. QED
  BY <1>1, <1>2 DEF AblesInv

\* The counters stay within a BYTE, so Incr and Decr do not wrap.
LEMMA Counting ==
  ASSUME AblesInv, NEW p \in Actors, NEW t \in Tasks
  PROVE  /\ Running(p) /\ disables[p] < MaxDepth
              => Incr(IDNestCnt) = IDNestCnt + 1 /\ Incr(IDNestCnt) \in BYTE
         /\ disables[p] > 0 => Decr(IDNestCnt) = IDNestCnt - 1 /\ Decr(IDNestCnt) \in BYTE
         /\ Running(t) /\ forbids[t] < MaxDepth
              => Incr(TDNestCnt) = TDNestCnt + 1 /\ Incr(TDNestCnt) \in BYTE
         /\ forbids[t] > 0 => Decr(TDNestCnt) = TDNestCnt - 1 /\ Decr(TDNestCnt) \in BYTE
BY ActorsAssumption, ByteAssumption, DepthAssumption
   DEF AblesInv, AblesState, AblesTypeOK, OnlyCurrentNests, NestingCounted, IntenaAgrees,
       MidMacro, Running, Incr, Decr, BYTE, Actors

\* Each instruction of the macros, each interrupt and each task switch
\* preserves AblesInv.
LEMMA AblesStepInv == AblesInv /\ AblesNext => AblesInv'
<1> SUFFICES ASSUME AblesInv, AblesNext PROVE AblesInv'
  OBVIOUS
<1> USE ActorsAssumption, ByteAssumption, DepthAssumption
    DEF AblesInv, AblesState, AblesTypeOK, OnlyCurrentNests, NestingCounted, IntenaAgrees, MidMacro,
        InMacro, Running, At, Goto, Actors, BYTE
<1>1. ASSUME NEW p \in Actors, Disable1(p) PROVE AblesInv'
  <2>1. AblesState'
    BY <1>1 DEF Disable1, DisableFrom
  <2>2. OnlyCurrentNests'
    BY <1>1 DEF Disable1, DisableFrom
  <2>3. NestingCounted'
    BY <1>1 DEF Disable1, DisableFrom
  <2>4. IntenaAgrees'
    BY <1>1 DEF Disable1, DisableFrom
  <2>5. MidMacro'
    BY <1>1 DEF Disable1, DisableFrom
  <2>. QED
    BY <2>1, <2>2, <2>3, <2>4, <2>5
<1>2. ASSUME NEW p \in Actors, Disable2(p) PROVE AblesInv'
  <2>0. IDNestCnt' = IDNestCnt + 1 /\ IDNestCnt' \in BYTE
    BY <1>2, Counting DEF Disable2
  <2>1. AblesState'
    <3>1. disables' \in [Actors -> 0 .. MaxDepth]
      <4>1. disables \in [Actors -> 0 .. MaxDepth] /\ disables[p] < MaxDepth
        BY <1>2 DEF Disable2
      <4>2. disables[p] + 1 \in 0 .. MaxDepth
        BY <4>1
      <4>. QED
        BY <1>2, <4>1, <4>2 DEF Disable2
    <3>2. pc' = [q \in Actors |-> pc'[q]]
      BY <1>2 DEF Disable2
    <3>. QED
      BY <1>2, <2>0, <3>1, <3>2 DEF Disable2
  <2>2. OnlyCurrentNests'
    BY <1>2, <2>0 DEF Disable2
  <2>3. NestingCounted'
    BY <1>2, <2>0 DEF Disable2
  <2>4. IntenaAgrees'
    BY <1>2, <2>0 DEF Disable2
  <2>5. MidMacro'
    BY <1>2, <2>0 DEF Disable2
  <2>. QED
    BY <2>1, <2>2, <2>3, <2>4, <2>5
<1>3. ASSUME NEW p \in Actors, Enable1(p) PROVE AblesInv'
  <2>0. IDNestCnt' = IDNestCnt - 1 /\ IDNestCnt' \in BYTE
    BY <1>3, Counting DEF Enable1, CountDown
  <2>1. AblesState'
    <3>1. disables' \in [Actors -> 0 .. MaxDepth]
      BY <1>3 DEF Enable1, CountDown
    <3>2. pc' = [q \in Actors |-> pc'[q]]
      BY <1>3 DEF Enable1, CountDown
    <3>. QED
      BY <1>3, <2>0, <3>1, <3>2 DEF Enable1, CountDown
  <2>2. OnlyCurrentNests'
    BY <1>3, <2>0 DEF Enable1, CountDown
  <2>3. NestingCounted'
    BY <1>3, <2>0 DEF Enable1, CountDown
  <2>4. IntenaAgrees'
    BY <1>3, <2>0 DEF Enable1, CountDown
  <2>5. MidMacro'
    BY <1>3, <2>0 DEF Enable1, CountDown
  <2>. QED
    BY <2>1, <2>2, <2>3, <2>4, <2>5
<1>4. ASSUME NEW p \in Actors, Enable2(p) PROVE AblesInv'
  <2>1. AblesState'
    BY <1>4 DEF Enable2
  <2>2. OnlyCurrentNests'
    BY <1>4 DEF Enable2
  <2>3. NestingCounted'
    BY <1>4 DEF Enable2
  <2>4. IntenaAgrees'
    BY <1>4 DEF Enable2
  <2>5. MidMacro'
    BY <1>4 DEF Enable2
  <2>. QED
    BY <2>1, <2>2, <2>3, <2>4, <2>5
<1>5. ASSUME NEW t \in Tasks, Forbid(t) PROVE AblesInv'
  <2>0. TDNestCnt' = TDNestCnt + 1 /\ TDNestCnt' \in BYTE
    BY <1>5, Counting DEF Forbid, ForbidTo
  <2>1. AblesState'
    BY <1>5, <2>0 DEF Forbid, ForbidTo
  <2>2. OnlyCurrentNests'
    BY <1>5, <2>0 DEF Forbid, ForbidTo
  <2>3. NestingCounted'
    BY <1>5, <2>0 DEF Forbid, ForbidTo
  <2>4. IntenaAgrees'
    BY <1>5, <2>0 DEF Forbid, ForbidTo
  <2>5. MidMacro'
    BY <1>5, <2>0 DEF Forbid, ForbidTo
  <2>. QED
    BY <2>1, <2>2, <2>3, <2>4, <2>5
<1>6. ASSUME NEW t \in Tasks, Permit(t) PROVE AblesInv'
  <2>0. TDNestCnt' = TDNestCnt - 1 /\ TDNestCnt' \in BYTE
    BY <1>6, Counting DEF Permit
  <2>1. AblesState'
    <3>1. forbids' \in [Actors -> 0 .. MaxDepth]
      BY <1>6 DEF Permit, Reschedule, SwitchAllowed
    <3>2. pc' = [q \in Actors |-> pc'[q]]
      BY <1>6 DEF Permit, Reschedule, SwitchAllowed
    <3>. QED
      BY <1>6, <2>0, <3>1, <3>2 DEF Permit, Reschedule, SwitchAllowed
  <2>2. OnlyCurrentNests'
    BY <1>6, <2>0 DEF Permit, Reschedule, SwitchAllowed
  <2>3. NestingCounted'
    BY <1>6, <2>0 DEF Permit, Reschedule, SwitchAllowed
  <2>4. IntenaAgrees'
    BY <1>6, <2>0 DEF Permit, Reschedule, SwitchAllowed
  <2>5. MidMacro'
    BY <1>6, <2>0 DEF Permit, Reschedule, SwitchAllowed
  <2>. QED
    BY <2>1, <2>2, <2>3, <2>4, <2>5
<1>7. CASE Interrupt
  <2>1. AblesState'
    BY <1>7 DEF Interrupt
  <2>2. OnlyCurrentNests'
    BY <1>7 DEF Interrupt
  <2>3. NestingCounted'
    BY <1>7 DEF Interrupt
  <2>4. IntenaAgrees'
    BY <1>7 DEF Interrupt
  <2>5. MidMacro'
    BY <1>7 DEF Interrupt
  <2>. QED
    BY <2>1, <2>2, <2>3, <2>4, <2>5
<1>8. CASE ReturnFromInterrupt
  <2>1. AblesState'
    BY <1>8 DEF ReturnFromInterrupt, Reschedule, SwitchAllowed
  <2>2. OnlyCurrentNests'
    BY <1>8 DEF ReturnFromInterrupt, Reschedule, SwitchAllowed
  <2>3. NestingCounted'
    BY <1>8 DEF ReturnFromInterrupt, Reschedule, SwitchAllowed
  <2>4. IntenaAgrees'
    BY <1>8 DEF ReturnFromInterrupt, Reschedule, SwitchAllowed
  <2>5. MidMacro'
    BY <1>8 DEF ReturnFromInterrupt, Reschedule, SwitchAllowed
  <2>. QED
    BY <2>1, <2>2, <2>3, <2>4, <2>5
<1>. QED
  BY <1>1, <1>2, <1>3, <1>4, <1>5, <1>6, <1>7, <1>8 DEF AblesNext, Arbitrate

\* AblesInv is an invariant.
LEMMA AblesInvariance == AblesSpec => []AblesInv
<1>1. AblesInv /\ [AblesNext]_ablesVars => AblesInv'
  <2> SUFFICES ASSUME AblesInv, UNCHANGED ablesVars PROVE AblesInv'
    BY AblesStepInv
  <2>. QED
    BY DEF AblesInv, AblesState, AblesTypeOK, OnlyCurrentNests, NestingCounted, IntenaAgrees,
           MidMacro, InMacro, ablesVars, exec
<1>. QED
  BY AblesInitInv, <1>1, PTL DEF AblesSpec

\* What AblesInv says of the two kinds of exclusion, and of interrupts.
LEMMA Exclusion == AblesInv => DisableExcludesAll /\ ForbidExcludesTasks /\ NestingRestored
<1> SUFFICES ASSUME AblesInv PROVE DisableExcludesAll /\ ForbidExcludesTasks /\ NestingRestored
  OBVIOUS
<1> USE ActorsAssumption
    DEF AblesInv, AblesState, AblesTypeOK, OnlyCurrentNests, NestingCounted, IntenaAgrees,
        InMacro, Actors
<1>1. DisableExcludesAll
  BY DEF DisableExcludesAll
<1>2. ForbidExcludesTasks
  BY DEF ForbidExcludesTasks
<1>3. NestingRestored
  <2> SUFFICES ASSUME \A p \in Actors : /\ pc[p] \notin {"Disable2", "Enable2"}
                                        /\ disables[p] = 0 /\ forbids[p] = 0
               PROVE  intena /\ IDNestCnt = -1 /\ TDNestCnt = -1
    BY DEF NestingRestored
  <2>1. current \in Actors /\ Server \in Actors
    OBVIOUS
  <2>2. intena
    BY <2>1
  <2>3. IDNestCnt = -1 /\ TDNestCnt = -1
    <3>1. IDNestCnt = disables[current] + disables[Server] - 1 /\ TDNestCnt = forbids[current] - 1
      OBVIOUS
    <3>2. disables[current] = 0 /\ disables[Server] = 0 /\ forbids[current] = 0
      BY <2>1
    <3>3. 0 + 0 - 1 = -1 /\ 0 - 1 = -1
      OBVIOUS
    <3>. QED
      BY ONLY <3>1, <3>2, <3>3
  <2>. QED
    BY <2>2, <2>3
<1>. QED
  BY <1>1, <1>2, <1>3

\* For any number of tasks and any nesting the counters can count: DISABLE keeps
\* tasks and interrupts out until its ENABLE.
THEOREM DisableTheorem == AblesSpec => []DisableExcludesAll
BY AblesInvariance, Exclusion, PTL

\* For any number of tasks: FORBID keeps the other tasks out until its PERMIT.
THEOREM ForbidTheorem == AblesSpec => []ForbidExcludesTasks
BY AblesInvariance, Exclusion, PTL

\* For any number of tasks: matched calls leave interrupts on and the counters
\* at -1.
THEOREM NestingTheorem == AblesSpec => []NestingRestored
BY AblesInvariance, Exclusion, PTL

\* For any number of tasks: a task switch never hits a task that keeps others out.
THEOREM SwitchTheorem == AblesSpec => SwitchOnlyWhenFree
<1> DEFINE Free == current' # current => /\ pc[current] \notin {"Disable2", "Enable2"}
                                         /\ disables[current] = 0 /\ forbids'[current] = 0
<1>1. AblesInv /\ AblesNext => Free
  <2> SUFFICES ASSUME AblesInv, AblesNext, current' # current
               PROVE  /\ pc[current] \notin {"Disable2", "Enable2"}
                      /\ disables[current] = 0 /\ forbids'[current] = 0
    OBVIOUS
  <2> USE ActorsAssumption
      DEF AblesInv, AblesState, AblesTypeOK, OnlyCurrentNests, NestingCounted, IntenaAgrees,
          InMacro, Actors, Running, At
  <2>1. CASE \E t \in Tasks : Permit(t)
    <3> PICK t \in Tasks : Permit(t)
      BY <2>1
    <3>1. TDNestCnt' = TDNestCnt - 1 /\ t = current /\ TDNestCnt' < 0 /\ IDNestCnt < 0
      BY Counting DEF Permit, Reschedule, SwitchAllowed
    <3>. QED
      BY <3>1 DEF Permit
  <2>2. CASE ReturnFromInterrupt
    BY <2>2 DEF ReturnFromInterrupt, Reschedule, SwitchAllowed
  <2>3. CASE ~ReturnFromInterrupt /\ ~\E t \in Tasks : Permit(t)
    BY <2>3 DEF AblesNext, Arbitrate, Disable1, DisableFrom, Disable2, Enable1, CountDown, Enable2,
                Forbid, ForbidTo, Interrupt
  <2>. QED
    BY <2>1, <2>2, <2>3
<1>2. AblesInv /\ [AblesNext]_ablesVars => [Free]_ablesVars
  BY <1>1
<1>. QED
  BY <1>2, AblesInvariance, PTL DEF AblesSpec, SwitchOnlyWhenFree

\* For any number of tasks, and any nesting a BYTE can count: the two counters
\* are the calls outstanding, less one, and so never wrap.
THEOREM NestingCountedTheorem == AblesSpec => []NestingCounted
<1>1. AblesInv => NestingCounted
  BY DEF AblesInv
<1>. QED
  BY <1>1, AblesInvariance, PTL

(***************************************************************************)
(* The list macros.                                                        *)
(* The inductive invariant: whoever is inside a macro on a list owns it,   *)
(* and ownership, by AblesInv, is exclusive.  A list that is being set up  *)
(* by NEWLIST is nobody else's yet.                                        *)
(***************************************************************************)
NewListLabels == {"NewList2", "NewList3"}
MacroLabels ==
  {"AddHead2", "AddHead3", "AddHead4", "AddTail2", "AddTail3", "AddTail4",
   "Remove2", "Remove3", "Remove4", "RemHead2", "RemHead3", "RemHead4",
   "RemHeadQ2", "RemHeadQ3", "RemHeadQ4",
   "RemTail2", "RemTail3", "RemTail4", "RemTail5", "TstLst2_2"}

Domains ==
  /\ pc \in [Actors -> {"idle", "Disable2", "Enable2"} \cup NewListLabels \cup MacroLabels]
  /\ arg = [p \in Actors |-> arg[p]]
  /\ ready = [l \in Lists |-> ready[l]]

BusyOwns ==
  \A p \in Actors : pc[p] \in MacroLabels =>
    arg[p].list \in Lists /\ Owns(p, arg[p].list) /\ ready[arg[p].list] = "usable"

BusyInitialises ==
  \A p \in Actors : pc[p] \in NewListLabels =>
    /\ arg[p].list \in Lists /\ ready[arg[p].list] = "initialising"
    /\ \A q \in Actors : pc[q] \in NewListLabels /\ arg[q].list = arg[p].list => q = p

HoldInv == Domains /\ BusyOwns /\ BusyInitialises
ListsInv == AblesInv /\ HoldInv

(***************************************************************************)
(* What the steps of ExecLists do to the program counters and arguments.   *)
(***************************************************************************)
SameExec == UNCHANGED <<exec, disables, forbids>>

Begins(p) ==
  \E l \in Lists, label \in MacroLabels, n \in Nodes \cup {0} :
    /\ At(p, "idle") /\ Usable(p, l) /\ Goto(p, label)
    /\ arg' = [arg EXCEPT ![p] = [list |-> l, node |-> n]]
    /\ ready' = ready /\ SameExec

BeginsNew(p) ==
  \E l \in Lists :
    /\ At(p, "idle") /\ ready[l] = "raw" /\ Goto(p, "NewList2")
    /\ arg' = [arg EXCEPT ![p] = [list |-> l, node |-> 0]]
    /\ ready' = [ready EXCEPT ![l] = "initialising"] /\ SameExec

Continues(p) ==
  /\ Running(p)
  /\ \/ pc[p] \in MacroLabels /\ \E label \in MacroLabels : Goto(p, label)
     \/ pc[p] \in NewListLabels /\ Goto(p, "NewList3")
  /\ arg' = arg /\ ready' = ready /\ SameExec

Ends(p) ==
  /\ Running(p) /\ Goto(p, "idle")
  /\ arg' = [arg EXCEPT ![p] = NoArg]
  /\ \/ pc[p] \in MacroLabels /\ ready' = ready
     \/ pc[p] \in NewListLabels /\ ready' = [ready EXCEPT ![arg[p].list] = "usable"]
  /\ SameExec

Arbitrates == AblesNext /\ arg' = arg /\ ready' = ready
StaysOut   == UNCHANGED <<ablesVars, arg, ready>>

\* Every step inside a macro goes on with it or ends it.
LEMMA MacroStepKinds ==
  ASSUME NEW p \in Actors, MacroStep(p)
  PROVE  Continues(p) \/ Ends(p)
<1> USE DEF Step, Finish, SameExec, NewListLabels, MacroLabels
<1>1. CASE NewList2(p) \/ NewList3(p)
  BY <1>1 DEF NewList2, NewList3, NewListEnds, Continues, Ends, At
<1>2. CASE AddHead2(p) \/ AddHead3(p) \/ AddHead4(p) \/ AddTail2(p) \/ AddTail3(p) \/ AddTail4(p)
  BY <1>2 DEF AddHead2, AddHead3, AddHead4, AddHeadEnds, AddTail2, AddTail3, AddTailLinks,
              AddTail4, Continues, Ends, At
<1>3. CASE Remove2(p) \/ Remove3(p) \/ Remove4(p)
  BY <1>3 DEF Remove2, Remove3, Remove4, Continues, Ends, At
<1>4. CASE RemHead2(p) \/ RemHead3(p) \/ RemHead4(p)
  BY <1>4 DEF RemHead2, RemHead3, RemHeadTakes, RemHead4, Continues, Ends, At
<1>5. CASE RemHeadQ2(p) \/ RemHeadQ3(p) \/ RemHeadQ4(p)
  BY <1>5 DEF RemHeadQ2, RemHeadQ3, RemHeadQ4, Continues, Ends, At
<1>6. CASE RemTail2(p) \/ RemTail3(p) \/ RemTail4(p) \/ RemTail5(p)
  BY <1>6 DEF RemTail2, RemTail3, RemTail4, RemTail5, RemTailEnds, Continues, Ends, At
<1>7. CASE TstLst2_2(p)
  BY <1>7 DEF TstLst2_2, Continues, Ends, At
<1>. QED
  BY <1>1, <1>2, <1>3, <1>4, <1>5, <1>6, <1>7 DEF MacroStep

\* Every step is one of these.
LEMMA StepKinds ==
  ASSUME Next
  PROVE  \/ Arbitrates \/ StaysOut
         \/ \E p \in Actors : Begins(p) \/ BeginsNew(p) \/ Continues(p) \/ Ends(p)
<1> USE DEF Call, Step, SameExec, NewListLabels, MacroLabels, NodeOr0
<1>1. ASSUME NEW p \in Actors, MacroStep(p)
      PROVE  Continues(p) \/ Ends(p)
  BY <1>1, MacroStepKinds
<1>2. ASSUME NEW p \in Actors, MacroCall(p)
      PROVE  Begins(p) \/ BeginsNew(p) \/ StaysOut
  <2>1. ASSUME NEW l \in Lists, NewList1(p, l)
        PROVE  BeginsNew(p)
    BY <2>1 DEF NewList1, BeginsNew
  <2>2. ASSUME NEW l \in Lists, RemHead1(p, l) \/ RemHeadQ1(p, l) \/ RemTail1(p, l) \/ TstLst2_1(p, l)
        PROVE  Begins(p)
    BY <2>2 DEF RemHead1, RemHeadQ1, RemTail1, TstLst2_1, Begins
  <2>3. ASSUME NEW l \in Lists, TstList(p, l) \/ WalkFrom(p, l)
        PROVE  StaysOut
    BY <2>3 DEF TstList, WalkFrom, StaysOut
  <2>4. ASSUME NEW l \in Lists, NEW n \in Nodes, AddHead1(p, l, n) \/ AddTail1(p, l, n)
        PROVE  Begins(p)
    BY <2>4 DEF AddHead1, AddTail1, Begins
  <2>5. ASSUME NEW n \in Nodes, Remove1(p, n)
        PROVE  Begins(p)
    BY <2>5 DEF Remove1, RemoveCall, Begins
  <2>. QED
    BY <1>2, <2>1, <2>2, <2>3, <2>4, <2>5 DEF MacroCall
<1>3. ASSUME NEW p \in Actors, NextNode(p)
      PROVE  StaysOut
  BY <1>3 DEF NextNode, WalkOn, StaysOut
<1>4. ASSUME NEW p \in Actors, Acquire(p) \/ Release(p) \/ EnableEnds(p)
      PROVE  Arbitrates
  BY <1>4 DEF Acquire, Release, EnableEnds, Arbitrates, AblesNext, Arbitrate, listVars
<1>5. CASE ServerEnters \/ ServerReturns
  BY <1>5 DEF ServerEnters, ServerReturns, Arbitrates, AblesNext, listVars
<1>. QED
  BY <1>1, <1>2, <1>3, <1>4, <1>5 DEF Next

\* A step inside or around a list macro, which changes neither the counters nor
\* who runs, preserves the invariant of arbitration.
LEMMA AblesUntouched ==
  ASSUME AblesInv, SameExec, NEW p \in Actors, Running(p), NEW label, Goto(p, label),
         ~InMacro(p), label \notin {"Disable2", "Enable2"}
  PROVE  AblesInv'
<1> USE ActorsAssumption
    DEF AblesInv, AblesState, AblesTypeOK, OnlyCurrentNests, NestingCounted, IntenaAgrees,
        MidMacro, InMacro, Running, Goto, Actors, SameExec, exec
<1>1. AblesState'
  OBVIOUS
<1>2. OnlyCurrentNests' /\ NestingCounted' /\ MidMacro'
  OBVIOUS
<1>3. IntenaAgrees'
  OBVIOUS
<1>. QED
  BY <1>1, <1>2, <1>3

\* Ownership is not lost by an actor inside a macro while others arbitrate.
LEMMA ArbitrationKeepsHolds ==
  ASSUME ListsInv, Arbitrates
  PROVE  HoldInv'
<1> USE DEF ListsInv, HoldInv, Domains, Arbitrates
<1>1. AblesState
  BY DEF AblesInv
<1>2. Domains'
  BY DEF AblesNext, Arbitrate, Disable1, DisableFrom, Disable2, Enable1, CountDown, Enable2,
         Forbid, ForbidTo, Permit, Interrupt, ReturnFromInterrupt, At, Goto, Actors
<1>3. ASSUME NEW q \in Actors, pc'[q] \notin {"idle", "Disable2", "Enable2"}
      PROVE  /\ pc'[q] = pc[q]
             /\ disables[q] > 0 => disables'[q] > 0
             /\ forbids[q] > 0 => forbids'[q] > 0
  BY <1>1, <1>3 DEF AblesState, AblesTypeOK, AblesNext, Arbitrate, Disable1, DisableFrom, Disable2,
         Enable1, CountDown, Enable2, Forbid, ForbidTo, Permit, Interrupt, ReturnFromInterrupt,
         At, Goto, Actors
<1>4. BusyOwns'
  BY <1>3 DEF BusyOwns, Owns, MacroLabels
<1>5. BusyInitialises'
  BY <1>3 DEF BusyInitialises, NewListLabels
<1>. QED
  BY <1>2, <1>4, <1>5

\* A list macro is begun on a list its caller owns, or on one nobody has yet.
LEMMA MacrosKeepHolds ==
  ASSUME HoldInv, NEW p \in Actors, Begins(p) \/ BeginsNew(p) \/ Continues(p) \/ Ends(p)
  PROVE  HoldInv'
<1> USE DEF HoldInv, Domains, BusyOwns, BusyInitialises, Owns, NewListLabels, MacroLabels,
            SameExec, Goto, At, Usable, NoArg
<1>1. CASE Begins(p)
  <2> PICK l \in Lists, label \in MacroLabels, n \in Nodes \cup {0} :
         /\ At(p, "idle") /\ Usable(p, l) /\ Goto(p, label)
         /\ arg' = [arg EXCEPT ![p] = [list |-> l, node |-> n]]
         /\ ready' = ready /\ SameExec
    BY <1>1 DEF Begins
  <2>1. Domains'
    OBVIOUS
  <2>2. arg'[p].list = l /\ \A q \in Actors : q # p => arg'[q] = arg[q] /\ pc'[q] = pc[q]
    OBVIOUS
  <2>3. BusyOwns'
    BY <2>2
  <2>4. BusyInitialises'
    BY <2>2
  <2>. QED
    BY <2>1, <2>3, <2>4
<1>2. CASE BeginsNew(p)
  BY <1>2 DEF BeginsNew
<1>3. CASE Continues(p)
  BY <1>3 DEF Continues
<1>4. CASE Ends(p)
  BY <1>4 DEF Ends
<1>. QED
  BY <1>1, <1>2, <1>3, <1>4

\* Each step of the lists preserves ListsInv.
LEMMA ListsStep == ListsInv /\ [Next]_vars => ListsInv'
<1> SUFFICES ASSUME ListsInv, [Next]_vars PROVE ListsInv'
  OBVIOUS
<1>1. CASE Arbitrates
  BY <1>1, AblesStepInv, ArbitrationKeepsHolds DEF ListsInv, Arbitrates
<1>2. CASE StaysOut \/ UNCHANGED vars
  <2>1. UNCHANGED <<ablesVars, arg, ready>>
    BY <1>2 DEF StaysOut, vars, listVars
  <2>2. AblesInv'
    BY <2>1 DEF ListsInv, AblesInv, AblesState, AblesTypeOK, OnlyCurrentNests, NestingCounted,
                IntenaAgrees, MidMacro, InMacro, ablesVars, exec
  <2>3. HoldInv'
    BY <2>1 DEF ListsInv, HoldInv, Domains, BusyOwns, BusyInitialises, Owns, ablesVars
  <2>. QED
    BY <2>2, <2>3 DEF ListsInv
<1>3. ASSUME NEW p \in Actors, Begins(p) \/ BeginsNew(p) \/ Continues(p) \/ Ends(p)
      PROVE  ListsInv'
  <2>1. SameExec /\ Running(p) /\ ~InMacro(p)
    BY <1>3 DEF Begins, BeginsNew, Continues, Ends, At, InMacro, NewListLabels, MacroLabels
  <2>2. \E label : label \notin {"Disable2", "Enable2"} /\ Goto(p, label)
    BY <1>3 DEF Begins, BeginsNew, Continues, Ends, NewListLabels, MacroLabels
  <2>. QED
    BY <1>3, <2>1, <2>2, AblesUntouched, MacrosKeepHolds DEF ListsInv
<1>. QED
  BY <1>1, <1>2, <1>3, StepKinds

\* ListsInv holds initially.
LEMMA ListsInitInv == Init => ListsInv
<1>1. Init => AblesInv
  BY AblesInitInv DEF Init
<1>2. Init => HoldInv
  BY DEF Init, AblesInit, HoldInv, Domains, BusyOwns, BusyInitialises, NewListLabels, MacroLabels
<1>. QED
  BY <1>1, <1>2 DEF ListsInv

\* ListsInv is an invariant of the lists.
LEMMA ListsInvariance == Spec => []ListsInv
BY ListsInitInv, ListsStep, PTL DEF Spec

\* An actor can be executing, or stopped in the middle of something: for the
\* server that is only so during an interrupt.
Active(p) == p = Server => inServer

\* Two active actors never own the same list.
LEMMA SoleOwner ==
  ASSUME AblesInv, NEW p \in Actors, NEW q \in Actors, NEW l \in Lists,
         Owns(p, l), Owns(q, l), Active(p), Active(q)
  PROVE  p = q
<1> SUFFICES ASSUME p # q PROVE FALSE
  OBVIOUS
<1>1. p \in Tasks => p = current
  BY ActorsAssumption DEF Owns, AblesInv, AblesState, AblesTypeOK, OnlyCurrentNests
<1>2. q \in Tasks => q = current
  BY ActorsAssumption DEF Owns, AblesInv, AblesState, AblesTypeOK, OnlyCurrentNests
<1>3. {p, q} = {current, Server}
  BY <1>1, <1>2, ActorsAssumption DEF Actors
<1>4. disables[current] > 0
  BY <1>3, ActorsAssumption DEF Owns, AblesInv, AblesState, AblesTypeOK
<1>5. inServer
  BY <1>3 DEF Active
<1>. QED
  BY <1>4, <1>5, ActorsAssumption DEF AblesInv, AblesState, AblesTypeOK, IntenaAgrees, Actors

\* Who is inside a macro is active.
LEMMA BusyActive ==
  ASSUME AblesInv, NEW p \in Actors, pc[p] # "idle" \/ Running(p)
  PROVE  Active(p)
BY ActorsAssumption DEF Active, AblesInv, AblesState, AblesTypeOK, IntenaAgrees, Running, Actors

\* What ListsInv says of two actors inside macros on one list.
LEMMA ListsOneAtATime == ListsInv => OneAtATime
<1> SUFFICES ASSUME ListsInv, NEW p \in Actors, NEW q \in Actors, NEW l \in Lists,
                    Busy(p, l), Busy(q, l)
             PROVE  p = q
  BY DEF OneAtATime
<1> USE DEF ListsInv, HoldInv
<1>1. CASE pc[p] \in NewListLabels \/ pc[q] \in NewListLabels
  BY <1>1 DEF Domains, BusyOwns, BusyInitialises, Busy, NewListLabels, MacroLabels
<1>2. CASE pc[p] \in MacroLabels /\ pc[q] \in MacroLabels
  <2>1. Owns(p, l) /\ Owns(q, l)
    BY <1>2 DEF BusyOwns, Busy
  <2>2. Active(p) /\ Active(q)
    BY BusyActive DEF Busy
  <2>. QED
    BY <2>1, <2>2, SoleOwner
<1>. QED
  BY <1>1, <1>2 DEF Domains, Busy, NewListLabels, MacroLabels

\* For any number of tasks, lists and nodes: FORBID and DISABLE, used as lists.i
\* asks for, keep two actors from being inside macros on the same list.
THEOREM OneAtATimeTheorem == Spec => []OneAtATime
BY ListsInvariance, ListsOneAtATime, PTL


(***************************************************************************)
(* Lists as chains in memory                                               *)
(***************************************************************************)

\* The cells of c from a to b, as a set.
Cells(c, a, b) == {c[i] : i \in a .. b}

\* In memory m, the k nodes c[1] .. c[k] of the set M hang between the two ends
\* of header l, c[0] and c[k + 1], linked both ways (exec/lists.h).
Chain(l, m, M, k, c) ==
  /\ c[0] = l /\ c[k + 1] = l + LH_TAIL
  /\ \A i \in 1 .. k : c[i] \in Nodes
  /\ \A i, j \in 1 .. k : c[i] = c[j] => i = j
  /\ M = Cells(c, 1, k)
  /\ \A i \in 0 .. k : m[c[i]] = c[i + 1] /\ m[c[i + 1] + LN_PRED] = c[i]
  /\ m[l + LH_TAIL] = 0

\* List l is whole in m, with the nodes M.
Whole(l, m, M) ==
  \E k \in Nat : \E c \in [0 .. k + 1 -> Nodes \cup {l, l + LH_TAIL}] : Chain(l, m, M, k, c)

\* From m to m2, the links of list l with nodes M are the same, but for a's to
\* its successor and b's to its predecessor.
SameBut(l, M, m, m2, a, b) ==
  /\ m2[l + LH_TAIL] = m[l + LH_TAIL]
  /\ \A x \in M \cup {l} : x # a => m2[x] = m[x]
  /\ \A x \in M \cup {l + LH_TAIL} : x # b => m2[x + LN_PRED] = m[x + LN_PRED]
SameLinks(l, M, m, m2) == SameBut(l, M, m, m2, 0, 0)

\* The words of two nodes are different words.
LEMMA NodesApart ==
  ASSUME NEW a \in Nodes, NEW b \in Nodes
  PROVE  a \in Nat /\ a > 0 /\ a # b + 4 /\ (a + 4 = b + 4 => a = b)
BY AddressAssumption

\* The words of a node are no words of a header.
LEMMA NodeApartFromList ==
  ASSUME NEW a \in Nodes, NEW l \in Lists
  PROVE  /\ a \notin {l, l + 4, l + 8} /\ a + 4 \notin {l, l + 4, l + 8}
         /\ a \in Nat /\ l \in Nat /\ l > 0 /\ a > 0
BY AddressAssumption

\* Two headers share no word.
LEMMA ListsApart ==
  ASSUME NEW k \in Lists, NEW l \in Lists, k # l
  PROVE  {k, k + 4, k + 8} \cap {l, l + 4, l + 8} = {}
BY AddressAssumption

\* What the cells of a chain are.
LEMMA ChainMembers ==
  ASSUME NEW l, NEW m, NEW M, NEW k \in Nat, NEW c, Chain(l, m, M, k, c)
  PROVE  /\ M \subseteq Nodes
         /\ \A i \in 0 .. k : c[i] \in M \cup {l}
         /\ \A i \in 1 .. k + 1 : c[i] \in M \cup {l + LH_TAIL}
         /\ \A a \in M : \E i \in 1 .. k : a = c[i]
  BY DEF Chain, Cells

\* The cells of a chain are all different.
Distinct(k, c) == \A i, j \in 0 .. k : i # j => c[i] # c[j] /\ c[i + 1] # c[j + 1]

\* A chain meets no cell twice, nor an end of the header on the way.
LEMMA ChainDistinct ==
  ASSUME NEW l \in Lists, NEW m, NEW M, NEW k \in Nat, NEW c, Chain(l, m, M, k, c)
  PROVE  Distinct(k, c)
<1> SUFFICES ASSUME NEW i \in 0 .. k, NEW j \in 0 .. k, i # j
             PROVE  c[i] # c[j] /\ c[i + 1] # c[j + 1]
  BY DEF Distinct
<1> USE DEF Chain
<1>1. l \notin Nodes /\ l + LH_TAIL \notin Nodes
  BY NodeApartFromList DEF LH_TAIL
<1>2. c[i] # c[j]
  <2>1. CASE i # 0 /\ j # 0
    BY <2>1
  <2>2. CASE i = 0
    <3>1. j \in 1 .. k
      BY <2>2
    <3>. QED
      BY <2>2, <3>1, <1>1
  <2>3. CASE j = 0
    <3>1. i \in 1 .. k
      BY <2>3
    <3>. QED
      BY <2>3, <3>1, <1>1
  <2>. QED
    BY <2>1, <2>2, <2>3
<1>3. c[i + 1] # c[j + 1]
  <2>1. CASE i # k /\ j # k
    BY <2>1
  <2>2. CASE i = k
    <3>1. j + 1 \in 1 .. k
      BY <2>2
    <3>. QED
      BY <2>2, <3>1, <1>1
  <2>3. CASE j = k
    <3>1. i + 1 \in 1 .. k
      BY <2>3
    <3>. QED
      BY <2>3, <3>1, <1>1
  <2>. QED
    BY <2>1, <2>2, <2>3
<1>. QED
  BY <1>2, <1>3

\* A chain depends on its own links only.
LEMMA ChainFrame ==
  ASSUME NEW l \in Lists, NEW m, NEW m2, NEW M, NEW k \in Nat, NEW c, Chain(l, m, M, k, c),
         SameLinks(l, M, m, m2)
  PROVE  Chain(l, m2, M, k, c)
<1>1. ASSUME NEW i \in 0 .. k
      PROVE  m2[c[i]] = m[c[i]] /\ m2[c[i + 1] + LN_PRED] = m[c[i + 1] + LN_PRED]
  <2>1. c[i] \in M \cup {l} /\ c[i + 1] \in M \cup {l + LH_TAIL} /\ M \subseteq Nodes
    <3>1. i + 1 \in 1 .. k + 1
      OBVIOUS
    <3>. QED
      BY <3>1, ChainMembers
  <2>2. c[i] # 0 /\ c[i + 1] # 0
    BY <2>1, AddressAssumption DEF LH_TAIL
  <2>. QED
    BY <2>1, <2>2 DEF SameLinks, SameBut
<1>2. m2[l + LH_TAIL] = 0
  BY DEF SameLinks, SameBut, Chain
<1>. QED
  BY <1>1, <1>2 DEF Chain

\* So does a whole list.
LEMMA WholeFrame ==
  ASSUME NEW l \in Lists, NEW m, NEW m2, NEW M, Whole(l, m, M), SameLinks(l, M, m, m2)
  PROVE  Whole(l, m2, M)
  BY ChainFrame DEF Whole

\* What the macros rely on of a whole list: links come back, no node is its own
\* neighbour, and the emptiness tests are right.
LEMMA WholeFacts ==
  ASSUME NEW l \in Lists, NEW m, NEW M, Whole(l, m, M)
  PROVE  /\ M \subseteq Nodes /\ m[l + LH_TAIL] = 0
         /\ \A a \in M \cup {l} : m[a] \in M \cup {l + LH_TAIL} /\ m[m[a] + LN_PRED] = a
         /\ \A a \in M \cup {l + LH_TAIL} : m[a + LN_PRED] \in M \cup {l} /\ m[m[a + LN_PRED]] = a
         /\ \A a \in M : m[a] # a /\ m[a + LN_PRED] # a
         /\ M = {} <=> m[l] = l + LH_TAIL
         /\ M = {} <=> m[l + LH_TAILPRED] = l
         /\ M = {} <=> m[m[l]] = 0
         /\ M = {} <=> m[m[l + LH_TAILPRED] + LN_PRED] = 0
<1> PICK k \in Nat : \E c \in [0 .. k + 1 -> Nodes \cup {l, l + LH_TAIL}] : Chain(l, m, M, k, c)
  BY DEF Whole
<1> PICK c \in [0 .. k + 1 -> Nodes \cup {l, l + LH_TAIL}] : Chain(l, m, M, k, c)
  OBVIOUS
<1>1. M \subseteq Nodes /\ m[l + LH_TAIL] = 0
  BY ChainMembers DEF Chain, Cells
<1>m. \A a \in M : \E i \in 1 .. k : a = c[i]
  BY DEF Chain, Cells
<1>2. \A a \in M \cup {l} : \E i \in 0 .. k : a = c[i]
  <2>1. l = c[0] /\ 0 \in 0 .. k
    BY DEF Chain
  <2>. QED
    BY <2>1, <1>m
<1>3. \A a \in M \cup {l + LH_TAIL} : \E i \in 0 .. k : a = c[i + 1]
  <2>1. l + LH_TAIL = c[k + 1]
    BY DEF Chain
  <2>2. ASSUME NEW a \in M PROVE \E i \in 0 .. k : a = c[i + 1]
    <3> PICK j \in 1 .. k : a = c[j]
      BY <1>m
    <3>1. j - 1 \in 0 .. k /\ a = c[(j - 1) + 1]
      OBVIOUS
    <3>. QED
      BY <3>1
  <2>. QED
    BY <2>1, <2>2
<1>4. \A a \in M \cup {l} : m[a] \in M \cup {l + LH_TAIL} /\ m[m[a] + LN_PRED] = a
  <2> SUFFICES ASSUME NEW a \in M \cup {l}
               PROVE  m[a] \in M \cup {l + LH_TAIL} /\ m[m[a] + LN_PRED] = a
    OBVIOUS
  <2> PICK i \in 0 .. k : a = c[i]
    BY <1>2
  <2>1. m[c[i]] = c[i + 1] /\ m[c[i + 1] + LN_PRED] = c[i]
    BY DEF Chain
  <2>2. c[i + 1] \in M \cup {l + LH_TAIL}
    BY ChainMembers
  <2>. QED
    BY <2>1, <2>2
<1>5. \A a \in M \cup {l + LH_TAIL} : m[a + LN_PRED] \in M \cup {l} /\ m[m[a + LN_PRED]] = a
  <2> SUFFICES ASSUME NEW a \in M \cup {l + LH_TAIL}
               PROVE  m[a + LN_PRED] \in M \cup {l} /\ m[m[a + LN_PRED]] = a
    OBVIOUS
  <2> PICK i \in 0 .. k : a = c[i + 1]
    BY <1>3
  <2>1. m[c[i]] = c[i + 1] /\ m[c[i + 1] + LN_PRED] = c[i]
    BY DEF Chain
  <2>2. c[i] \in M \cup {l}
    BY ChainMembers
  <2>. QED
    BY <2>1, <2>2
<1>9. ASSUME NEW a \in M PROVE m[a] # a /\ m[a + LN_PRED] # a
  <2>1. Distinct(k, c)
    BY ChainDistinct
  <2>2. PICK i \in 1 .. k : a = c[i]
    BY <1>m
  <2>3. i - 1 \in 0 .. k /\ (i - 1) + 1 = i
    OBVIOUS
  <2>4. c[i - 1] # c[i]
    BY <2>1, <2>3 DEF Distinct
  <2>5. c[i] # c[i + 1]
    <3>1. c[(i - 1) + 1] # c[i + 1]
      BY <2>1, <2>3 DEF Distinct
    <3>. QED
      BY <3>1
  <2>6. m[c[i]] = c[i + 1] /\ m[c[(i - 1) + 1] + LN_PRED] = c[i - 1]
    BY <2>3 DEF Chain
  <2>. QED
    BY <2>2, <2>4, <2>5, <2>6
<1>6. m[l] = c[1] /\ m[l + LH_TAILPRED] = c[k]
  BY AddressAssumption DEF Chain, LH_TAIL, LH_TAILPRED, LN_PRED
<1>7. CASE k = 0
  <2>1. M = {} /\ m[l] = l + LH_TAIL /\ m[l + LH_TAILPRED] = l
    BY <1>6, <1>7 DEF Chain, Cells
  <2>2. m[m[l]] = 0 /\ m[m[l + LH_TAILPRED] + LN_PRED] = 0
    BY <2>1, <1>1 DEF LN_PRED, LH_TAIL
  <2>. QED
    BY <1>1, <1>4, <1>5, <1>9, <2>1, <2>2
<1>8. CASE k > 0
  <2>1. c[1] \in M /\ c[k] \in M /\ M # {}
    BY <1>8 DEF Chain, Cells
  <2>2. c[1] \in Nodes /\ c[k] \in Nodes
    BY <2>1, <1>1
  <2>3. m[l] # l + LH_TAIL /\ m[l + LH_TAILPRED] # l
    BY <1>6, <2>2, NodeApartFromList DEF LH_TAIL
  <2>4. m[c[1]] \in Nodes \cup {l + LH_TAIL}
    BY <1>1, <1>4, <2>1
  <2>5. m[c[k] + LN_PRED] \in Nodes \cup {l}
    BY <1>1, <1>5, <2>1
  <2>6. 0 \notin Nodes /\ l + LH_TAIL # 0 /\ l # 0
    BY AddressAssumption DEF LH_TAIL
  <2>. QED
    BY <1>1, <1>4, <1>5, <1>6, <1>9, <2>1, <2>3, <2>4, <2>5, <2>6
<1>. QED
  BY <1>7, <1>8
\* The cells of a chain of k nodes with n put in after cell j, or without cell j.
With(c, k, j, n) == [i \in 0 .. k + 2 |-> IF i <= j THEN c[i] ELSE IF i = j + 1 THEN n ELSE c[i - 1]]
Without(c, k, j) == [i \in 0 .. k |-> IF i < j THEN c[i] ELSE c[i + 1]]

\* Linking a new node between two neighbours puts it in the chain.
LEMMA ChainInsert ==
  ASSUME NEW l \in Lists, NEW m, NEW m2, NEW M, NEW k \in Nat,
         NEW c \in [0 .. k + 1 -> Nodes \cup {l, l + LH_TAIL}], Chain(l, m, M, k, c),
         NEW j \in 0 .. k, NEW n \in Nodes, n \notin M,
         SameBut(l, M, m, m2, c[j], c[j + 1]),
         m2[c[j]] = n, m2[n] = c[j + 1], m2[c[j + 1] + LN_PRED] = n, m2[n + LN_PRED] = c[j]
  PROVE  /\ With(c, k, j, n) \in [0 .. (k + 1) + 1 -> Nodes \cup {l, l + LH_TAIL}]
         /\ Chain(l, m2, M \cup {n}, k + 1, With(c, k, j, n))
<1> DEFINE d == With(c, k, j, n)
<1>0. d \in [0 .. (k + 1) + 1 -> Nodes \cup {l, l + LH_TAIL}]
  BY DEF With
<1>c. /\ \A i \in 0 .. j : d[i] = c[i]
      /\ d[j + 1] = n
      /\ \A i \in j + 2 .. k + 2 : d[i] = c[i - 1]
  BY DEF With
<1> HIDE DEF d
<1>1. d[0] = l /\ d[(k + 1) + 1] = l + LH_TAIL
  BY <1>c DEF Chain
<1>2. \A i \in 1 .. k + 1 : d[i] \in Nodes
  BY <1>c DEF Chain
<1>3. \A i \in 1 .. k : c[i] # n
  BY DEF Chain, Cells
<1>4. \A i, h \in 1 .. k + 1 : d[i] = d[h] => i = h
  <2> SUFFICES ASSUME NEW i \in 1 .. k + 1, NEW h \in 1 .. k + 1, i # h
               PROVE  d[i] # d[h]
    OBVIOUS
  <2> DEFINE old(x) == IF x <= j THEN x ELSE x - 1
  <2>1. \A x \in 1 .. k + 1 : x # j + 1 => old(x) \in 1 .. k /\ d[x] = c[old(x)]
    BY <1>c
  <2>2. \A x \in 1 .. k + 1 : x # j + 1 => d[x] # n
    BY <2>1, <1>3
  <2>3. CASE i = j + 1 \/ h = j + 1
    BY <2>2, <2>3, <1>c
  <2>4. CASE i # j + 1 /\ h # j + 1
    <3>1. old(i) # old(h)
      BY <2>4
    <3>. QED
      BY <2>1, <2>4, <3>1 DEF Chain, Cells
  <2>. QED
    BY <2>3, <2>4
<1>5. M \cup {n} = Cells(d, 1, k + 1)
  <2>1. ASSUME NEW x \in M PROVE \E i \in 1 .. k + 1 : x = d[i]
    <3> PICK h \in 1 .. k : x = c[h]
      BY DEF Chain, Cells
    <3>1. CASE h <= j
      BY <3>1, <1>c
    <3>2. CASE h > j
      <4>1. h + 1 \in 1 .. k + 1 /\ d[h + 1] = c[h]
        BY <3>2, <1>c
      <4>. QED
        BY <4>1
    <3>. QED
      BY <3>1, <3>2
  <2>2. ASSUME NEW i \in 1 .. k + 1 PROVE d[i] \in M \cup {n}
    BY <1>c DEF Chain, Cells
  <2>3. n = d[j + 1] /\ j + 1 \in 1 .. k + 1
    BY <1>c
  <2>. QED
    BY <2>1, <2>2, <2>3 DEF Cells
<1>a. Distinct(k, c)
  BY ChainDistinct
<1>b. ASSUME NEW x \in 0 .. k, NEW y \in 0 .. k, x # y PROVE c[x] # c[y] /\ c[x + 1] # c[y + 1]
  BY <1>a, <1>b DEF Distinct
<1>6. ASSUME NEW i \in 0 .. k, i # j
      PROVE  m2[c[i]] = c[i + 1] /\ m2[c[i + 1] + LN_PRED] = c[i]
  <2>1. c[i] \in M \cup {l} /\ c[i + 1] \in M \cup {l + LH_TAIL} /\ M \subseteq Nodes
    <3>1. i + 1 \in 1 .. k + 1
      OBVIOUS
    <3>. QED
      BY <3>1, ChainMembers
  <2>2. c[i] # c[j] /\ c[i + 1] # c[j + 1]
    BY <1>6, <1>b
  <2>3. m[c[i]] = c[i + 1] /\ m[c[i + 1] + LN_PRED] = c[i]
    BY DEF Chain
  <2>. QED
    BY <2>1, <2>2, <2>3 DEF SameBut
<1>7. ASSUME NEW i \in 0 .. k + 1
      PROVE  m2[d[i]] = d[i + 1] /\ m2[d[i + 1] + LN_PRED] = d[i]
  <2>1. CASE i < j
    BY <2>1, <1>6, <1>c
  <2>2. CASE i = j
    BY <2>2, <1>c
  <2>3. CASE i = j + 1
    BY <2>3, <1>c
  <2>4. CASE i > j + 1
    <3>1. i - 1 \in 0 .. k /\ i - 1 # j /\ d[i] = c[i - 1] /\ d[i + 1] = c[(i - 1) + 1]
      BY <2>4, <1>c
    <3>. QED
      BY <3>1, <1>6
  <2>. QED
    BY <2>1, <2>2, <2>3, <2>4
<1>8. m2[l + LH_TAIL] = 0
  BY DEF SameBut, Chain
<1>. QED
  BY <1>0, <1>1, <1>2, <1>4, <1>5, <1>7, <1>8 DEF Chain, d

\* Linking the two neighbours of a cell takes it out of the chain.
LEMMA ChainRemove ==
  ASSUME NEW l \in Lists, NEW m, NEW m2, NEW M, NEW k \in Nat,
         NEW c \in [0 .. k + 1 -> Nodes \cup {l, l + LH_TAIL}], Chain(l, m, M, k, c),
         NEW j \in 1 .. k,
         SameBut(l, M \ {c[j]}, m, m2, c[j - 1], c[j + 1]),
         m2[c[j - 1]] = c[j + 1], m2[c[j + 1] + LN_PRED] = c[j - 1]
  PROVE  /\ Without(c, k, j) \in [0 .. (k - 1) + 1 -> Nodes \cup {l, l + LH_TAIL}]
         /\ Chain(l, m2, M \ {c[j]}, k - 1, Without(c, k, j))
<1> DEFINE d == Without(c, k, j)
<1>0. d \in [0 .. (k - 1) + 1 -> Nodes \cup {l, l + LH_TAIL}]
  BY DEF Without
<1>c. /\ \A i \in 0 .. j - 1 : d[i] = c[i]
      /\ \A i \in j .. k : d[i] = c[i + 1]
  BY DEF Without
<1>a. Distinct(k, c)
  BY ChainDistinct
<1>b. ASSUME NEW x \in 0 .. k, NEW y \in 0 .. k, x # y PROVE c[x] # c[y] /\ c[x + 1] # c[y + 1]
  BY <1>a, <1>b DEF Distinct
<1> HIDE DEF d
<1>1. d[0] = l /\ d[(k - 1) + 1] = l + LH_TAIL
  BY <1>c DEF Chain
<1>2. ASSUME NEW i \in 1 .. k - 1 PROVE d[i] \in Nodes
  <2> PICK h \in 1 .. k : d[i] = c[h]
    BY <1>c
  <2>. QED
    BY DEF Chain
<1>4. ASSUME NEW i \in 1 .. k - 1, NEW h \in 1 .. k - 1, i # h
      PROVE  d[i] # d[h]
  <2> DEFINE old(x) == IF x < j THEN x ELSE x + 1
  <2>1. old(i) \in 1 .. k /\ old(h) \in 1 .. k /\ d[i] = c[old(i)] /\ d[h] = c[old(h)]
    BY <1>c
  <2>2. old(i) # old(h)
    BY <1>4
  <2>. QED
    BY <2>1, <2>2 DEF Chain
<1>5. M \ {c[j]} = Cells(d, 1, k - 1)
  <2>1. ASSUME NEW x \in M, x # c[j] PROVE \E i \in 1 .. k - 1 : x = d[i]
    <3> PICK h \in 1 .. k : x = c[h]
      BY DEF Chain, Cells
    <3>1. CASE h < j
      BY <3>1, <1>c
    <3>2. CASE h > j
      <4>1. h - 1 \in 1 .. k - 1 /\ d[h - 1] = c[h]
        BY <3>2, <1>c
      <4>. QED
        BY <4>1
    <3>. QED
      BY <3>1, <3>2, <2>1
  <2>2. ASSUME NEW i \in 1 .. k - 1 PROVE d[i] \in M \ {c[j]}
    <3> PICK h \in 1 .. k : h # j /\ d[i] = c[h]
      BY <1>c
    <3>1. c[h] # c[j] /\ c[h] \in M
      BY DEF Chain, Cells
    <3>. QED
      BY <3>1
  <2>. QED
    BY <2>1, <2>2 DEF Cells
<1>6. ASSUME NEW i \in 0 .. k, i # j - 1, i # j
      PROVE  m2[c[i]] = c[i + 1] /\ m2[c[i + 1] + LN_PRED] = c[i]
  <2>1. c[i] \in M \cup {l} /\ c[i + 1] \in M \cup {l + LH_TAIL} /\ M \subseteq Nodes
    <3>1. i + 1 \in 1 .. k + 1
      OBVIOUS
    <3>. QED
      BY <3>1, ChainMembers
  <2>2. c[i] # c[j] /\ c[i + 1] # c[j + 1]
    <3>1. j \in 0 .. k /\ i # j
      BY <1>6
    <3>. QED
      BY <3>1, <1>b
  <2>3. j - 1 \in 0 .. k
    OBVIOUS
  <2>5. c[i] # c[j - 1] /\ c[i + 1] # c[(j - 1) + 1]
    BY <1>6, <1>b, <2>3
  <2>6. c[i + 1] # c[j]
    BY <2>5
  <2>4. m[c[i]] = c[i + 1] /\ m[c[i + 1] + LN_PRED] = c[i]
    BY DEF Chain
  <2>. QED
    BY <2>1, <2>2, <2>4, <2>5, <2>6 DEF SameBut
<1>7. ASSUME NEW i \in 0 .. k - 1
      PROVE  m2[d[i]] = d[i + 1] /\ m2[d[i + 1] + LN_PRED] = d[i]
  <2>1. CASE i < j - 1
    BY <2>1, <1>6, <1>c
  <2>2. CASE i = j - 1
    BY <2>2, <1>c
  <2>3. CASE i > j - 1
    <3>1. i + 1 \in 0 .. k /\ i + 1 # j /\ i + 1 # j - 1 /\ d[i] = c[i + 1] /\ d[i + 1] = c[(i + 1) + 1]
      BY <2>3, <1>c
    <3>. QED
      BY <3>1, <1>6
  <2>. QED
    BY <2>1, <2>2, <2>3
<1>8. m2[l + LH_TAIL] = 0
  BY DEF SameBut, Chain
<1>9. \A i, h \in 1 .. k - 1 : d[i] = d[h] => i = h
  BY <1>4
<1>. QED
  BY <1>0, <1>1, <1>2, <1>5, <1>7, <1>8, <1>9 DEF Chain, d

\* The same two facts for whole lists.
LEMMA WholeInsert ==
  ASSUME NEW l \in Lists, NEW m, NEW m2, NEW M, Whole(l, m, M), NEW n \in Nodes, n \notin M,
         NEW a \in M \cup {l}, NEW b, b = m[a], SameBut(l, M, m, m2, a, b),
         m2[a] = n, m2[n] = b, m2[b + LN_PRED] = n, m2[n + LN_PRED] = a
  PROVE  Whole(l, m2, M \cup {n})
<1> PICK k \in Nat : \E c \in [0 .. k + 1 -> Nodes \cup {l, l + LH_TAIL}] : Chain(l, m, M, k, c)
  BY DEF Whole
<1> PICK c \in [0 .. k + 1 -> Nodes \cup {l, l + LH_TAIL}] : Chain(l, m, M, k, c)
  OBVIOUS
<1>1. PICK j \in 0 .. k : a = c[j]
  <2>1. l = c[0] /\ 0 \in 0 .. k
    BY DEF Chain
  <2>2. ASSUME a \in M PROVE \E j \in 1 .. k : a = c[j]
    <3>1. a \in {c[j] : j \in 1 .. k}
      BY <2>2 DEF Chain, Cells
    <3>. QED
      BY <3>1
  <2>. QED
    BY <2>1, <2>2
<1>2. b = c[j + 1]
  BY <1>1 DEF Chain
<1>3. /\ With(c, k, j, n) \in [0 .. (k + 1) + 1 -> Nodes \cup {l, l + LH_TAIL}]
      /\ Chain(l, m2, M \cup {n}, k + 1, With(c, k, j, n))
  <2>1. SameBut(l, M, m, m2, c[j], c[j + 1])
    BY <1>1, <1>2
  <2>2. m2[c[j]] = n /\ m2[n] = c[j + 1] /\ m2[c[j + 1] + LN_PRED] = n /\ m2[n + LN_PRED] = c[j]
    BY <1>1, <1>2
  <2>. QED
    BY <1>1, <2>1, <2>2, ChainInsert
<1>4. k + 1 \in Nat
  OBVIOUS
<1>. QED
  BY <1>3, <1>4 DEF Whole

\* Taking out a node of a whole list.
LEMMA WholeRemove ==
  ASSUME NEW l \in Lists, NEW m, NEW m2, NEW M, Whole(l, m, M), NEW n \in M,
         NEW a, a = m[n + LN_PRED], NEW b, b = m[n],
         SameBut(l, M \ {n}, m, m2, a, b), m2[a] = b, m2[b + LN_PRED] = a
  PROVE  Whole(l, m2, M \ {n})
<1> PICK k \in Nat : \E c \in [0 .. k + 1 -> Nodes \cup {l, l + LH_TAIL}] : Chain(l, m, M, k, c)
  BY DEF Whole
<1> PICK c \in [0 .. k + 1 -> Nodes \cup {l, l + LH_TAIL}] : Chain(l, m, M, k, c)
  OBVIOUS
<1>1. PICK j \in 1 .. k : n = c[j]
  BY DEF Chain, Cells
<1>2. b = c[j + 1]
  BY <1>1 DEF Chain
<1>3. a = c[j - 1]
  <2>1. j - 1 \in 0 .. k /\ (j - 1) + 1 = j
    OBVIOUS
  <2>. QED
    BY <1>1, <2>1 DEF Chain
<1>4. /\ Without(c, k, j) \in [0 .. (k - 1) + 1 -> Nodes \cup {l, l + LH_TAIL}]
      /\ Chain(l, m2, M \ {n}, k - 1, Without(c, k, j))
  <2>1. SameBut(l, M \ {c[j]}, m, m2, c[j - 1], c[j + 1])
    BY <1>1, <1>2, <1>3
  <2>2. m2[c[j - 1]] = c[j + 1] /\ m2[c[j + 1] + LN_PRED] = c[j - 1]
    BY <1>2, <1>3
  <2>3. /\ Without(c, k, j) \in [0 .. (k - 1) + 1 -> Nodes \cup {l, l + LH_TAIL}]
        /\ Chain(l, m2, M \ {c[j]}, k - 1, Without(c, k, j))
    BY <2>1, <2>2, ChainRemove
  <2>. QED
    BY <1>1, <2>3
<1>5. k - 1 \in Nat
  OBVIOUS
<1>. QED
  BY <1>4, <1>5 DEF Whole

\* A header whose ends point at each other is a whole empty list.
LEMMA WholeNew ==
  ASSUME NEW l \in Lists, NEW m, m[l] = l + LH_TAIL, m[l + LH_TAIL] = 0, m[l + LH_TAILPRED] = l
  PROVE  Whole(l, m, {})
<1> DEFINE c == [i \in 0 .. 1 |-> IF i = 0 THEN l ELSE l + LH_TAIL]
<1>1. c \in [0 .. 0 + 1 -> Nodes \cup {l, l + LH_TAIL}]
  OBVIOUS
<1>2. c[0] = l /\ c[0 + 1] = l + LH_TAIL
  OBVIOUS
<1>3. l + LH_TAIL + LN_PRED = l + LH_TAILPRED
  BY AddressAssumption DEF LH_TAIL, LN_PRED, LH_TAILPRED
<1> HIDE DEF c
<1>4. Chain(l, m, {}, 0, c)
  BY <1>2, <1>3 DEF Chain, Cells
<1> SUFFICES \E k \in Nat : \E d \in [0 .. k + 1 -> Nodes \cup {l, l + LH_TAIL}] : Chain(l, m, {}, k, d)
  BY DEF Whole
<1> WITNESS 0 \in Nat
<1>. QED
  BY <1>1, <1>4

\* A walk: next is a cell of the chain, due the nodes from it on, and cur, if
\* still on the list, the cell just before.
Ahead(l, m, M, next, cur, due) ==
  \E k \in Nat : \E c \in [0 .. k + 1 -> Nodes \cup {l, l + LH_TAIL}] :
    /\ Chain(l, m, M, k, c)
    /\ \E j \in 1 .. k + 1 : /\ next = c[j] /\ due = Cells(c, j, k)
                             /\ cur \in M => cur = c[j - 1]

\* A walk starts with the whole list ahead.
LEMMA AheadStart ==
  ASSUME NEW l \in Lists, NEW m, NEW M, Whole(l, m, M)
  PROVE  Ahead(l, m, M, m[l], 0, M)
<1> PICK k \in Nat : \E c \in [0 .. k + 1 -> Nodes \cup {l, l + LH_TAIL}] : Chain(l, m, M, k, c)
  BY DEF Whole
<1> PICK c \in [0 .. k + 1 -> Nodes \cup {l, l + LH_TAIL}] : Chain(l, m, M, k, c)
  OBVIOUS
<1>1. m[l] = c[1] /\ M = Cells(c, 1, k)
  <2>1. 0 \in 0 .. k /\ 0 + 1 = 1
    OBVIOUS
  <2>. QED
    BY <2>1 DEF Chain
<1>2. 0 \notin M
  BY ChainMembers, AddressAssumption
<1>3. 1 \in 1 .. k + 1
  OBVIOUS
<1>. QED
  BY <1>1, <1>2, <1>3 DEF Ahead

\* What is ahead of a walk depends on the links of the list only.
LEMMA AheadFrame ==
  ASSUME NEW l \in Lists, NEW m, NEW m2, NEW M, NEW next, NEW cur, NEW due,
         Ahead(l, m, M, next, cur, due), SameLinks(l, M, m, m2)
  PROVE  Ahead(l, m2, M, next, cur, due)
  BY ChainFrame DEF Ahead

\* NEXTNODE stops when nothing is due, and else passes the first node due.
LEMMA AheadOn ==
  ASSUME NEW l \in Lists, NEW m, NEW M, NEW next, NEW cur, NEW due,
         Ahead(l, m, M, next, cur, due)
  PROVE  /\ m[next] = 0 => due = {}
         /\ m[next] # 0 => next \in due /\ Ahead(l, m, M, m[next], next, due \ {next})
<1> PICK k \in Nat : \E c \in [0 .. k + 1 -> Nodes \cup {l, l + LH_TAIL}] :
            /\ Chain(l, m, M, k, c)
            /\ \E j \in 1 .. k + 1 : /\ next = c[j] /\ due = Cells(c, j, k)
                                     /\ cur \in M => cur = c[j - 1]
  BY DEF Ahead
<1> PICK c \in [0 .. k + 1 -> Nodes \cup {l, l + LH_TAIL}] :
            /\ Chain(l, m, M, k, c)
            /\ \E j \in 1 .. k + 1 : /\ next = c[j] /\ due = Cells(c, j, k)
                                     /\ cur \in M => cur = c[j - 1]
  OBVIOUS
<1> PICK j \in 1 .. k + 1 : next = c[j] /\ due = Cells(c, j, k)
  OBVIOUS
<1>1. CASE j = k + 1
  <2>1. next = l + LH_TAIL /\ due = Cells(c, k + 1, k)
    BY <1>1 DEF Chain
  <2>2. m[next] = 0
    BY <2>1 DEF Chain
  <2>3. ASSUME NEW x \in due PROVE FALSE
    <3>1. PICK i \in k + 1 .. k : x = c[i]
      BY <2>1 DEF Cells
    <3>. QED
      OBVIOUS
  <2>. QED
    BY <2>2, <2>3
<1>2. CASE j \in 1 .. k
  <2>1. m[next] = c[j + 1]
    BY <1>2 DEF Chain
  <2>2. c[j + 1] # 0 /\ c[j + 1] \in Nodes \cup {l, l + LH_TAIL}
    BY <1>2, AddressAssumption DEF LH_TAIL
  <2>3. next \in due
    <3>1. j \in j .. k
      BY <1>2
    <3>. QED
      BY <3>1 DEF Cells
  <2>4. \A i \in 1 .. k : i # j => c[i] # c[j]
    BY <1>2 DEF Chain
  <2>5. due \ {next} = Cells(c, j + 1, k)
    <3>1. ASSUME NEW x \in due, x # next PROVE x \in Cells(c, j + 1, k)
      <4> PICK i \in j .. k : x = c[i]
        BY DEF Cells
      <4>1. i \in j + 1 .. k
        BY <3>1
      <4>. QED
        BY <4>1 DEF Cells
    <3>2. ASSUME NEW x \in Cells(c, j + 1, k) PROVE x \in due /\ x # next
      <4> PICK i \in j + 1 .. k : x = c[i]
        BY DEF Cells
      <4>1. i \in j .. k /\ i \in 1 .. k /\ i # j
        BY <1>2
      <4>. QED
        BY <4>1, <2>4 DEF Cells
    <3>. QED
      BY <3>1, <3>2
  <2>6. j + 1 \in 1 .. k + 1 /\ next = c[(j + 1) - 1]
    BY <1>2
  <2>7. Ahead(l, m, M, m[next], next, due \ {next})
    BY <2>1, <2>5, <2>6 DEF Ahead
  <2>. QED
    BY <2>1, <2>2, <2>3, <2>7
<1>. QED
  BY <1>1, <1>2

\* The walker REMOVEs the node it stands on.
LEMMA AheadRemove ==
  ASSUME NEW l \in Lists, NEW m, NEW m2, NEW M, NEW next, NEW n \in M, NEW due,
         Ahead(l, m, M, next, n, due), NEW a, a = m[n + LN_PRED], NEW b, b = m[n],
         SameBut(l, M \ {n}, m, m2, a, b), m2[a] = b, m2[b + LN_PRED] = a
  PROVE  Ahead(l, m2, M \ {n}, next, n, due)
<1> PICK k \in Nat : \E c \in [0 .. k + 1 -> Nodes \cup {l, l + LH_TAIL}] :
            /\ Chain(l, m, M, k, c)
            /\ \E j \in 1 .. k + 1 : /\ next = c[j] /\ due = Cells(c, j, k)
                                     /\ n \in M => n = c[j - 1]
  BY DEF Ahead
<1> PICK c \in [0 .. k + 1 -> Nodes \cup {l, l + LH_TAIL}] :
            /\ Chain(l, m, M, k, c)
            /\ \E j \in 1 .. k + 1 : /\ next = c[j] /\ due = Cells(c, j, k)
                                     /\ n \in M => n = c[j - 1]
  OBVIOUS
<1> PICK j \in 1 .. k + 1 : next = c[j] /\ due = Cells(c, j, k) /\ n = c[j - 1]
  OBVIOUS
<1> DEFINE h == j - 1
           d == Without(c, k, h)
<1>1. h \in 1 .. k
  <2>1. n \in Nodes
    BY ChainMembers
  <2>2. n # l
    BY <2>1, NodeApartFromList
  <2>. QED
    BY <2>2 DEF Chain
<1>2. b = c[h + 1] /\ n = c[h]
  BY <1>1 DEF Chain
<1>3. a = c[h - 1]
  <2>1. h - 1 \in 0 .. k /\ (h - 1) + 1 = h
    BY <1>1
  <2>. QED
    BY <1>2, <2>1 DEF Chain
<1>4. d \in [0 .. (k - 1) + 1 -> Nodes \cup {l, l + LH_TAIL}] /\ Chain(l, m2, M \ {n}, k - 1, d)
  <2> HIDE DEF h
  <2>1. SameBut(l, M \ {c[h]}, m, m2, c[h - 1], c[h + 1])
    BY <1>2, <1>3
  <2>2. m2[c[h - 1]] = c[h + 1] /\ m2[c[h + 1] + LN_PRED] = c[h - 1]
    BY <1>2, <1>3
  <2>3. /\ Without(c, k, h) \in [0 .. (k - 1) + 1 -> Nodes \cup {l, l + LH_TAIL}]
        /\ Chain(l, m2, M \ {c[h]}, k - 1, Without(c, k, h))
    BY <1>1, <2>1, <2>2, ChainRemove
  <2>. QED
    BY <1>2, <2>3
<1>5. k - 1 \in Nat /\ h \in 1 .. (k - 1) + 1
  BY <1>1
<1>6. next = d[h]
  BY <1>1 DEF Without
<1>7. due = Cells(d, h, k - 1)
  <2>1. ASSUME NEW i \in h .. k - 1 PROVE i + 1 \in j .. k /\ d[i] = c[i + 1]
    BY <1>1 DEF Without
  <2>2. ASSUME NEW i \in j .. k PROVE i - 1 \in h .. k - 1 /\ d[i - 1] = c[i]
    BY <1>1 DEF Without
  <2> HIDE DEF d, h
  <2>3. ASSUME NEW x \in Cells(d, h, k - 1) PROVE x \in due
    <3> PICK i \in h .. k - 1 : x = d[i]
      BY DEF Cells
    <3>. QED
      BY <2>1 DEF Cells
  <2>4. ASSUME NEW x \in due PROVE x \in Cells(d, h, k - 1)
    <3> PICK i \in j .. k : x = c[i]
      BY DEF Cells
    <3>. QED
      BY <2>2 DEF Cells
  <2>. QED
    BY <2>3, <2>4
<1>8. n \notin M \ {n}
  OBVIOUS
<1> HIDE DEF d, h
<1>. QED
  BY <1>4, <1>5, <1>6, <1>7, <1>8 DEF Ahead

\* No word.
None == [at |-> 0, val |-> 0]
\* The store that puts right the list an interrupted macro is on: it takes
\* ADDHEAD and ADDTAIL back, and completes the others.
Owed(p) ==
  CASE pc[p] \in {"AddHead3", "AddHead4"} -> [at |-> arg[p].list, val |-> D0(p)]
    [] pc[p] \in {"AddTail3", "AddTail4"} -> [at |-> arg[p].list + LH_TAILPRED, val |-> A0(p)]
    [] pc[p] = "Remove4" -> [at |-> A0(p) + LN_PRED, val |-> A1(p)]
    [] pc[p] \in {"RemHead4", "RemHeadQ4"} -> [at |-> A1(p) + LN_PRED, val |-> arg[p].list]
    [] pc[p] \in {"RemTail4", "RemTail5"} -> [at |-> A1(p), val |-> arg[p].list + LH_TAIL]
    [] OTHER -> None

\* Memory with that store made.
Repaired(p) == [mem EXCEPT ![Owed(p).at] = Owed(p).val]

\* The node of the macro is p's own.
Adding(p)   == pc[p] \in {"AddHead2", "AddHead3", "AddHead4", "AddTail2", "AddTail3", "AddTail4"}
\* The node of the macro is still on the list.
Removing(p) == pc[p] \in {"Remove2", "Remove3", "RemHead3", "RemHeadQ2", "RemHeadQ3", "RemTail3"}
\* The node of the macro is off the list.
Removed(p)  == pc[p] \in {"Remove4", "RemHead4", "RemHeadQ4", "RemTail4", "RemTail5"}

\* Whose the node of p's macro is.
NodeOf(p) ==
  LET n == arg[p].node IN
  /\ Adding(p) \/ Removed(p) => n \in Nodes /\ where[n] = p
  /\ Removing(p) => n \in Nodes /\ where[n] = arg[p].list
  /\ pc[p] = "RemHead2" => n = NodeOr0(mem[arg[p].list])
  /\ pc[p] = "RemTail2" => n = NodeOr0(mem[arg[p].list + LH_TAILPRED])
  /\ pc[p] = "TstLst2_2" => n = 0

Firsts(l)  == Members(l) \cup {l + LH_TAIL}    \* where a successor may point
Lasts(l)   == Members(l) \cup {l}              \* where a predecessor may

\* p's registers, and what it has stored already.
RegistersOf(p) ==
  LET l == arg[p].list
      n == arg[p].node
      a0 == A0(p)
      a1 == A1(p)
      d0 == D0(p)
      at == pc[p]
  IN
  /\ at = "AddHead2" => a0 = l /\ a1 = n /\ d0 = mem[l]
  /\ at = "AddHead3" => a0 = l /\ a1 = n /\ mem[l] = n
  /\ at = "AddHead4" => a0 = d0 /\ a1 = n /\ mem[l] = n /\ mem[n] = d0 /\ mem[n + LN_PRED] = l
  /\ at = "AddTail2" => a0 = l + LH_TAIL /\ a1 = n /\ d0 = mem[l + LH_TAILPRED]
  /\ at = "AddTail3" => d0 = l + LH_TAIL /\ a1 = n /\ mem[l + LH_TAILPRED] = n
  /\ at = "AddTail4" => /\ a1 = n /\ mem[l + LH_TAILPRED] = n
                        /\ mem[n] = l + LH_TAIL /\ mem[n + LN_PRED] = a0
  /\ at = "Remove2" => a0 = mem[n] /\ a1 = n + LN_PRED
  /\ at = "Remove3" => a0 = mem[n] /\ a1 = mem[n + LN_PRED]
  /\ at = "Remove4" => a0 \in Firsts(l) /\ a1 \in Lasts(l) /\ mem[a0 + LN_PRED] = n
  /\ at = "RemHead2" => a0 = l /\ a1 = mem[l]
  /\ at = "RemHead3" => a0 = l /\ a1 = n /\ n = mem[l] /\ d0 = mem[n]
  /\ at = "RemHead4" => a0 = l /\ a1 \in Firsts(l) /\ mem[a1 + LN_PRED] = n
  /\ at = "RemHeadQ2" => a0 = l /\ d0 = n /\ n = mem[l]
  /\ at = "RemHeadQ3" => a0 = l /\ d0 = n /\ n = mem[l] /\ a1 = mem[n]
  /\ at = "RemHeadQ4" => a0 = l /\ a1 \in Firsts(l) /\ mem[a1 + LN_PRED] = n
  /\ at = "RemTail2" => a0 = l /\ a1 = mem[l + LH_TAILPRED]
  /\ at = "RemTail3" => a0 = l /\ a1 = n /\ n = mem[l + LH_TAILPRED] /\ d0 = mem[n + LN_PRED]
  /\ at = "RemTail4" => a0 = l /\ a1 \in Lasts(l)
  /\ at = "RemTail5" => a1 \in Lasts(l) /\ mem[a1] = l
  /\ at = "TstLst2_2" => a1 = mem[l]
  /\ at = "NewList2" => a0 = l /\ mem[l + LH_TAILPRED] = l
  /\ at = "NewList3" => a0 = l + LH_TAIL /\ mem[l + LH_TAILPRED] = l /\ mem[l + LH_TAIL] = 0

\* Memory, registers and owners have their shape.
Shape ==
  /\ mem \in [Words -> Addresses]
  /\ reg = [p \in Actors |-> reg[p]] /\ pc = [p \in Actors |-> pc[p]] /\ arg = [p \in Actors |-> arg[p]]
  /\ where \in [Nodes -> Lists \cup Actors]
  /\ ready \in [Lists -> {"raw", "initialising", "usable"}]

\* The list p's macro is on will be whole, and p knows what it needs for that.
Result(p, l) == Whole(l, Repaired(p), Members(l)) /\ NodeOf(p) /\ RegistersOf(p)

(***************************************************************************)
(* A step of p on list l writes to words of l, of its nodes and of p's,    *)
(* and leaves everybody else's nodes, lists and registers alone.           *)
(***************************************************************************)
Mine(p, l, n) == n \in Nodes /\ where[n] \in {l, p}

OwnWords(p, l) ==
  /\ mem' \in [Words -> Addresses]
  /\ \A n \in Nodes : ~Mine(p, l, n) => mem'[n] = mem[n] /\ mem'[n + LN_PRED] = mem[n + LN_PRED]
  /\ \A k \in Lists : k # l => /\ mem'[k] = mem[k] /\ mem'[k + LH_TAIL] = mem[k + LH_TAIL]
                             /\ mem'[k + LH_TAILPRED] = mem[k + LH_TAILPRED]

OwnNodes(p, l) ==
  /\ where' \in [Nodes -> Lists \cup Actors]
  /\ \A n \in Nodes : IF Mine(p, l, n) THEN where'[n] \in {l, p} ELSE where'[n] = where[n]

OwnRegisters(p, l) ==
  /\ pc' = [pc EXCEPT ![p] = pc'[p]] /\ reg' = [reg EXCEPT ![p] = reg'[p]]
  /\ arg' = [arg EXCEPT ![p] = arg'[p]]
  /\ ready' \in [Lists -> {"raw", "initialising", "usable"}]
  /\ \A k \in Lists : k # l => ready'[k] = ready[k]

Local(p, l) == OwnWords(p, l) /\ OwnNodes(p, l) /\ OwnRegisters(p, l)

\* The words of nodes and headers.
LEMMA InWords ==
  /\ \A n \in Nodes : n \in Words /\ n + LN_PRED \in Words
  /\ \A l \in Lists : l \in Words /\ l + LH_TAIL \in Words /\ l + LH_TAILPRED \in Words
  /\ 0 \notin Words
<1>1. ASSUME NEW n \in Nodes PROVE n \in Words /\ n + LN_PRED \in Words
  <2> DEFINE s == {n, n + LN_PRED}
  <2>1. s \in {{x, x + LN_PRED} : x \in Nodes} /\ n \in s /\ n + LN_PRED \in s
    OBVIOUS
  <2> HIDE DEF s
  <2>. QED
    BY <2>1 DEF Words
<1>2. ASSUME NEW l \in Lists PROVE l \in Words /\ l + LH_TAIL \in Words /\ l + LH_TAILPRED \in Words
  <2> DEFINE s == {l, l + LH_TAIL, l + LH_TAILPRED}
  <2>1. /\ s \in {{x, x + LH_TAIL, x + LH_TAILPRED} : x \in Lists}
        /\ l \in s /\ l + LH_TAIL \in s /\ l + LH_TAILPRED \in s
    OBVIOUS
  <2> HIDE DEF s
  <2>2. \A w \in s : w \in UNION {{x, x + LH_TAIL, x + LH_TAILPRED} : x \in Lists}
    BY <2>1
  <2>. QED
    BY <2>1, <2>2 DEF Words
<1>3. 0 \notin Words
  <2>1. \A n \in Nodes : n # 0 /\ n + LN_PRED # 0
    BY AddressAssumption DEF LN_PRED
  <2>2. \A l \in Lists : l # 0 /\ l + LH_TAIL # 0 /\ l + LH_TAILPRED # 0
    BY AddressAssumption DEF LH_TAIL, LH_TAILPRED
  <2>3. 0 \notin UNION {{n, n + LN_PRED} : n \in Nodes}
    BY <2>1
  <2>4. 0 \notin UNION {{l, l + LH_TAIL, l + LH_TAILPRED} : l \in Lists}
    BY <2>2
  <2>. QED
    BY <2>3, <2>4 DEF Words
<1>. QED
  BY <1>1, <1>2, <1>3

\* The succ word of a cell is never the pred word of one, nor LH_TAIL.
LEMMA CellsApart ==
  ASSUME NEW l \in Lists, NEW x \in Nodes \cup {l}, NEW y \in Nodes \cup {l + LH_TAIL}
  PROVE  /\ x # y + LN_PRED /\ x # l + LH_TAIL /\ y + LN_PRED # l + LH_TAIL
         /\ x \in Nat /\ y \in Nat /\ l \in Nat /\ x # 0 /\ y # 0
         /\ x \in Words /\ y + LN_PRED \in Words /\ l + LH_TAIL \in Words
         /\ x # y \/ x \in Nodes
<1>0. x \in Nat /\ y \in Nat /\ l \in Nat /\ x # 0 /\ y # 0
  BY AddressAssumption DEF LH_TAIL
<1>1. x \in Words /\ y + LN_PRED \in Words /\ l + LH_TAIL \in Words
  BY <1>0, InWords DEF LH_TAIL, LN_PRED, LH_TAILPRED
<1>2. x # y + LN_PRED
  BY AddressAssumption DEF LH_TAIL, LN_PRED
<1>3. x # l + LH_TAIL /\ y + LN_PRED # l + LH_TAIL /\ (x # y \/ x \in Nodes)
  BY <1>0, NodeApartFromList DEF LH_TAIL, LN_PRED
<1>. QED
  BY <1>0, <1>1, <1>2, <1>3

\* A word that p may write in a step on list l.
OwnWord(p, l, a) == \/ a \in {l, l + LH_TAIL, l + LH_TAILPRED}
                    \/ \E n \in Nodes : Mine(p, l, n) /\ a \in {n, n + LN_PRED}

\* Such a word is no word of another list, or of a node elsewhere.
LEMMA OwnWordApart ==
  ASSUME NEW p \in Actors, NEW l \in Lists, NEW a, OwnWord(p, l, a)
  PROVE  /\ a \in Words
         /\ \A n \in Nodes : ~Mine(p, l, n) => a # n /\ a # n + LN_PRED
         /\ \A k \in Lists : k # l => a \notin {k, k + LH_TAIL, k + LH_TAILPRED}
<1> USE DEF OwnWord
<1>1. a \in Words
  BY InWords
<1>2. ASSUME NEW n \in Nodes, ~Mine(p, l, n)
      PROVE  a # n /\ a # n + LN_PRED
  BY <1>2, NodesApart, NodeApartFromList DEF LN_PRED, LH_TAIL, LH_TAILPRED
<1>3. ASSUME NEW k \in Lists, k # l
      PROVE  a \notin {k, k + LH_TAIL, k + LH_TAILPRED}
  BY <1>3, ListsApart, NodeApartFromList DEF LN_PRED, LH_TAIL, LH_TAILPRED
<1>. QED
  BY <1>1, <1>2, <1>3

\* A store of one of p's words.
LEMMA OwnStore ==
  ASSUME Shape, NEW p \in Actors, NEW l \in Lists, NEW a, NEW v \in Addresses, Store(a, v),
         OwnWord(p, l, a)
  PROVE  /\ OwnWords(p, l)
         /\ mem'[a] = v /\ \A w : w # a => mem'[w] = mem[w]
<1>1. /\ mem' \in [Words -> Addresses] /\ mem'[a] = v
      /\ \A w : w # a => mem'[w] = mem[w]
  BY OwnWordApart DEF Store, Shape
<1>. QED
  BY <1>1, OwnWordApart DEF OwnWords

\* The two stores of ADDHEAD and ADDTAIL into the new node.
LEMMA OwnStore2 ==
  ASSUME Shape, NEW p \in Actors, NEW l \in Lists, NEW n \in Nodes, Mine(p, l, n),
         NEW v \in Addresses, NEW w \in Addresses, Store2(n, v, n + LN_PRED, w)
  PROVE  /\ OwnWords(p, l)
         /\ mem'[n] = v /\ mem'[n + LN_PRED] = w
         /\ \A x : x # n /\ x # n + LN_PRED => mem'[x] = mem[x]
<1>1. OwnWord(p, l, n) /\ OwnWord(p, l, n + LN_PRED)
  BY DEF OwnWord
<1>2. n \in Words /\ n + LN_PRED \in Words /\ n # n + LN_PRED
  BY InWords, NodesApart DEF LN_PRED
<1>3. /\ mem' \in [Words -> Addresses] /\ mem'[n] = v /\ mem'[n + LN_PRED] = w
      /\ \A x : x # n /\ x # n + LN_PRED => mem'[x] = mem[x]
  <2> DEFINE b == n + LN_PRED
             m1 == [mem EXCEPT ![n] = v]
  <2>1. mem' = [m1 EXCEPT ![b] = w]
    BY DEF Store2
  <2>2. m1 \in [Words -> Addresses] /\ m1[n] = v /\ \A x : x # n => m1[x] = mem[x]
    BY <1>2 DEF Shape
  <2>3. b \in Words /\ b # n
    BY <1>2
  <2> HIDE DEF b, m1
  <2>4. mem' \in [Words -> Addresses] /\ mem'[b] = w /\ \A x : x # b => mem'[x] = m1[x]
    BY <2>1, <2>2, <2>3
  <2>5. mem'[n] = v /\ \A x : x # n /\ x # b => mem'[x] = mem[x]
    BY <2>2, <2>3, <2>4
  <2>. QED
    BY <2>4, <2>5 DEF b
<1>. QED
  BY <1>1, <1>3, OwnWordApart DEF OwnWords

\* Local steps keep the shape of memory.
LEMMA LocalShape ==
  ASSUME Shape, NEW p \in Actors, NEW l \in Lists, Local(p, l)
  PROVE  Shape'
  BY DEF Shape, Local, OwnWords, OwnNodes, OwnRegisters

\* The cases of a step that leaves mem or where as it is, or moves one node.
LEMMA OwnSame ==
  ASSUME Shape, NEW p \in Actors, NEW l \in Lists
  PROVE  /\ mem' = mem => OwnWords(p, l)
         /\ where' = where => OwnNodes(p, l)
         /\ \A n \in Nodes, o \in {l, p} :
              Mine(p, l, n) /\ where' = [where EXCEPT ![n] = o] => OwnNodes(p, l)
  BY DEF Shape, OwnWords, OwnNodes, Mine

\* Where nothing is owed, memory is as it should be.
LEMMA NothingOwed ==
  ASSUME Shape, NEW p \in Actors, Owed(p) = None
  PROVE  Repaired(p) = mem
  BY InWords DEF Shape, Repaired, None

\* What a step of p does to list l: it leaves it as it is, links node n in after
\* cell a, or takes node n out.
Keeps(p, l) == where' = where /\ SameLinks(l, Members(l), Repaired(p), Repaired(p)')

LinksIn(p, l, a, n) ==
  LET m  == Repaired(p)
      m2 == Repaired(p)'
  IN
  /\ n \in Nodes /\ where[n] = p /\ where' = [where EXCEPT ![n] = l]
  /\ a \in Members(l) \cup {l} /\ SameBut(l, Members(l), m, m2, a, m[a])
  /\ m2[a] = n /\ m2[n] = m[a] /\ m2[m[a] + LN_PRED] = n /\ m2[n + LN_PRED] = a

TakesOut(p, l, n) ==
  LET m  == Repaired(p)
      m2 == Repaired(p)'
  IN
  /\ n \in Members(l) /\ where' = [where EXCEPT ![n] = p]
  /\ SameBut(l, Members(l) \ {n}, m, m2, m[n + LN_PRED], m[n])
  /\ m2[m[n + LN_PRED]] = m[n] /\ m2[m[n] + LN_PRED] = m[n + LN_PRED]

\* The members of a list after such a step.
LEMMA MembersAfter ==
  ASSUME Shape, NEW p \in Actors, NEW l \in Lists, NEW n \in Nodes
  PROVE  /\ where' = where => Members(l)' = Members(l)
         /\ where' = [where EXCEPT ![n] = l] => Members(l)' = Members(l) \cup {n}
         /\ where' = [where EXCEPT ![n] = p] => Members(l)' = Members(l) \ {n}
<1>1. p # l
  BY AddressAssumption
<1>. QED
  BY <1>1 DEF Shape, Members

\* A list whose links stay is whole still.
LEMMA KeepsWhole ==
  ASSUME NEW p \in Actors, NEW l \in Lists, Whole(l, Repaired(p), Members(l)), Keeps(p, l)
  PROVE  Whole(l, Repaired(p)', Members(l)')
<1>1. Members(l)' = Members(l)
  BY DEF Keeps, Members
<1>. QED
  BY <1>1, WholeFrame DEF Keeps

\* So is a list with a node linked in,
LEMMA LinksInWhole ==
  ASSUME Shape, NEW p \in Actors, NEW l \in Lists, Whole(l, Repaired(p), Members(l)),
         NEW a, NEW n, LinksIn(p, l, a, n)
  PROVE  Whole(l, Repaired(p)', Members(l)')
<1> DEFINE m  == Repaired(p)
           m2 == Repaired(p)'
           M  == Members(l)
           b  == m[a]
<1>1. n \in Nodes /\ n \notin M /\ Members(l)' = M \cup {n} /\ M' = M \cup {n}
  <2>1. p # l
    BY AddressAssumption
  <2>. QED
    BY <2>1, MembersAfter DEF LinksIn, Members
<1>2. /\ a \in M \cup {l} /\ b = m[a] /\ SameBut(l, M, m, m2, a, b)
      /\ m2[a] = n /\ m2[n] = b /\ m2[b + LN_PRED] = n /\ m2[n + LN_PRED] = a /\ Whole(l, m, M)
  BY DEF LinksIn
<1> HIDE DEF m, m2, M, b
<1>3. Whole(l, m2, M \cup {n})
  BY <1>1, <1>2, WholeInsert
<1>. QED
  BY <1>1, <1>3 DEF m2

\* and one with a node taken out.
LEMMA TakesOutWhole ==
  ASSUME Shape, NEW p \in Actors, NEW l \in Lists, Whole(l, Repaired(p), Members(l)),
         NEW n, TakesOut(p, l, n)
  PROVE  Whole(l, Repaired(p)', Members(l)')
<1> DEFINE m  == Repaired(p)
           m2 == Repaired(p)'
           M  == Members(l)
           a  == m[n + LN_PRED]
           b  == m[n]
<1>1. n \in M /\ Members(l)' = M \ {n}
  <2>1. n \in Nodes /\ n \in M /\ where' = [where EXCEPT ![n] = p]
    BY DEF TakesOut, Members
  <2>. QED
    BY <2>1, MembersAfter
<1>2. /\ a = m[n + LN_PRED] /\ b = m[n] /\ SameBut(l, M \ {n}, m, m2, a, b)
      /\ m2[a] = b /\ m2[b + LN_PRED] = a /\ Whole(l, m, M)
  BY DEF TakesOut
<1> HIDE DEF m, m2, M, a, b
<1>3. Whole(l, m2, M \ {n})
  BY <1>1, <1>2, WholeRemove
<1>. QED
  BY <1>1, <1>3 DEF m2

\* A macro may end where the list is whole.
LEMMA EndsWhole ==
  ASSUME Shape', NEW p \in Actors, NEW l \in Lists, pc'[p] = "idle"
  PROVE  /\ Repaired(p)' = mem'
         /\ Whole(l, mem', Members(l)') => Result(p, l)'
<1>1. Owed(p)' = None
  BY DEF Owed
<1>2. Repaired(p)' = mem'
  BY <1>1, InWords DEF Shape, Repaired, None
<1>3. NodeOf(p)' /\ RegistersOf(p)'
  BY DEF NodeOf, RegistersOf, Adding, Removing, Removed
<1>. QED
  BY <1>2, <1>3 DEF Result

\* A macro that ends with its last owed store, or owing none, keeps the list.
LEMMA EndsKeeping ==
  ASSUME Shape', NEW p \in Actors, NEW l \in Lists, pc'[p] = "idle", where' = where,
         mem' = Repaired(p), Whole(l, Repaired(p), Members(l))
  PROVE  Result(p, l)' /\ Keeps(p, l)
<1>1. Members(l)' = Members(l)
  BY DEF Members
<1>2. Repaired(p)' = Repaired(p)
  BY EndsWhole
<1>3. SameLinks(l, Members(l), Repaired(p), Repaired(p)')
  BY <1>2 DEF SameLinks, SameBut
<1>. QED
  BY <1>1, <1>3, EndsWhole DEF Keeps

(***************************************************************************)
(* ADDHEAD and ADDTAIL                                                     *)
(*                                                                         *)
(* Each instruction writes words of its own list and node only (Local),    *)
(* and leaves the list whole once the store owed is made (Result).         *)
(* ADDHEAD's and ADDTAIL's first store breaks one direction of the list;   *)
(* the node joins it with the last.                                        *)
(***************************************************************************)

\* The first store leaves the list whole but for the word it owes.
LEMMA AddHead2Links ==
  ASSUME Shape, NEW p \in Actors, NEW l \in Lists, l = arg[p].list, AddHead2(p), Result(p, l)
  PROVE  Local(p, l) /\ Result(p, l)' /\ Keeps(p, l)
<1> DEFINE n == arg[p].node
           M == Members(l)
           R == Repaired(p)
<1>1. /\ pc[p] = "AddHead2" /\ M \subseteq Nodes /\ l \in Addresses /\ l + LH_TAIL \in Addresses
      /\ n \in Nodes /\ where[n] = p /\ Mine(p, l, n) /\ n \notin M /\ n \in Addresses
      /\ A0(p) = l /\ A1(p) = n /\ D0(p) = mem[l]
  BY AddressAssumption DEF Result, NodeOf, RegistersOf, Adding, Removing, Removed, AddHead2, Step, Finish, At,
                           Mine, Members, Addresses
<1>2. /\ pc' = [pc EXCEPT ![p] = "AddHead3"] /\ arg' = arg /\ ready' = ready
      /\ reg' = [reg EXCEPT ![p] = [a0 |-> l, a1 |-> n, d0 |-> mem[l]]]
      /\ Store(l, n) /\ where' = where
  BY <1>1 DEF AddHead2, Step, Finish, Goto
<1>3. OwnWords(p, l) /\ mem'[l] = n /\ \A w : w # l => mem'[w] = mem[w]
  <2>1. OwnWord(p, l, l) /\ n \in Addresses
    BY <1>1 DEF OwnWord
  <2>. QED
    BY <1>2, <2>1, OwnStore
<1>4. Local(p, l)
  <2>1. OwnNodes(p, l)
    BY <1>1, <1>2, OwnSame
  <2>. QED
    BY <1>2, <1>3, <2>1 DEF Local, OwnRegisters, Shape
<1>5. Shape'
  BY <1>4, LocalShape
<1>6. /\ pc'[p] = "AddHead3" /\ A0(p)' = l /\ A1(p)' = n /\ D0(p)' = mem[l]
      /\ arg'[p] = arg[p] /\ where' = where /\ Members(l)' = M
  BY <1>1, <1>2 DEF Shape, A0, A1, D0, Members
<1>7. NodeOf(p)' /\ RegistersOf(p)'
  BY <1>1, <1>3, <1>6 DEF NodeOf, RegistersOf, Adding, Removing, Removed
<1>8. Keeps(p, l)
  <2>1. Owed(p) = None /\ Owed(p)' = [at |-> l, val |-> mem[l]]
    BY <1>1, <1>6 DEF Owed
  <2>2. \A w \in Words : Repaired(p)'[w] = R[w]
    BY <2>1, <1>3, <1>5, InWords DEF Shape, Repaired, None
  <2>3. SameLinks(l, M, R, Repaired(p)')
    BY <1>1, <2>2, CellsApart DEF SameLinks, SameBut
  <2>. QED
    BY <2>3, <1>6 DEF Keeps
<1>. QED
  BY <1>4, <1>7, <1>8, KeepsWhole DEF Result

\* The first store leaves the list whole but for the word it owes.
LEMMA AddTail2Links ==
  ASSUME Shape, NEW p \in Actors, NEW l \in Lists, l = arg[p].list, AddTail2(p), Result(p, l)
  PROVE  Local(p, l) /\ Result(p, l)' /\ Keeps(p, l)
<1> DEFINE n == arg[p].node
           M == Members(l)
           R == Repaired(p)
<1>1. /\ pc[p] = "AddTail2" /\ M \subseteq Nodes /\ l \in Addresses /\ l + LH_TAIL \in Addresses
      /\ n \in Nodes /\ where[n] = p /\ Mine(p, l, n) /\ n \notin M /\ n \in Addresses
      /\ A0(p) = l + LH_TAIL /\ A1(p) = n /\ D0(p) = mem[l + LH_TAILPRED]
  BY AddressAssumption DEF Result, NodeOf, RegistersOf, Adding, Removing, Removed, AddTail2, Step, Finish, At,
                           Mine, Members, Addresses
<1>2. /\ pc' = [pc EXCEPT ![p] = "AddTail3"] /\ arg' = arg /\ ready' = ready
      /\ reg' = [reg EXCEPT ![p] = [a0 |-> mem[l + LH_TAILPRED], a1 |-> n, d0 |-> l + LH_TAIL]]
      /\ Store(l + LH_TAILPRED, n) /\ where' = where
  BY <1>1, AddressAssumption DEF AddTail2, Step, Finish, Goto, LH_TAIL, LN_PRED, LH_TAILPRED
<1>3. OwnWords(p, l) /\ mem'[l + LH_TAILPRED] = n /\ \A w : w # l + LH_TAILPRED => mem'[w] = mem[w]
  <2>1. OwnWord(p, l, l + LH_TAILPRED) /\ n \in Addresses
    BY <1>1 DEF OwnWord
  <2>. QED
    BY <1>2, <2>1, OwnStore
<1>4. Local(p, l)
  <2>1. OwnNodes(p, l)
    BY <1>1, <1>2, OwnSame
  <2>. QED
    BY <1>2, <1>3, <2>1 DEF Local, OwnRegisters, Shape
<1>5. Shape'
  BY <1>4, LocalShape
<1>6. /\ pc'[p] = "AddTail3" /\ A0(p)' = mem[l + LH_TAILPRED] /\ A1(p)' = n /\ D0(p)' = l + LH_TAIL
      /\ arg'[p] = arg[p] /\ where' = where /\ Members(l)' = M
  BY <1>1, <1>2 DEF Shape, A0, A1, D0, Members
<1>7. NodeOf(p)' /\ RegistersOf(p)'
  BY <1>1, <1>3, <1>6 DEF NodeOf, RegistersOf, Adding, Removing, Removed
<1>8. Keeps(p, l)
  <2>1. Owed(p) = None /\ Owed(p)' = [at |-> l + LH_TAILPRED, val |-> mem[l + LH_TAILPRED]]
    BY <1>1, <1>6 DEF Owed
  <2>2. \A w \in Words : Repaired(p)'[w] = R[w]
    BY <2>1, <1>3, <1>5, InWords DEF Shape, Repaired, None
  <2>3. SameLinks(l, M, R, Repaired(p)')
    BY <1>1, <2>2, CellsApart DEF SameLinks, SameBut
  <2>. QED
    BY <2>3, <1>6 DEF Keeps
<1>. QED
  BY <1>4, <1>7, <1>8, KeepsWhole DEF Result

\* The new node's own links are no words of the chain.
LEMMA AddHead3Links ==
  ASSUME Shape, NEW p \in Actors, NEW l \in Lists, l = arg[p].list, AddHead3(p), Result(p, l)
  PROVE  Local(p, l) /\ Result(p, l)' /\ Keeps(p, l)
<1> DEFINE n == arg[p].node
           M == Members(l)
           R == Repaired(p)
<1>1. /\ pc[p] = "AddHead3" /\ M \subseteq Nodes /\ l \in Addresses /\ l + LH_TAIL \in Addresses
      /\ n \in Nodes /\ where[n] = p /\ Mine(p, l, n) /\ n \notin M /\ n \in Addresses
      /\ A0(p) = l /\ A1(p) = n /\ mem[l] = n
  BY AddressAssumption DEF Result, NodeOf, RegistersOf, Adding, Removing, Removed, AddHead3, Step, Finish, At,
                           Mine, Members, Addresses
<1>2. /\ pc' = [pc EXCEPT ![p] = "AddHead4"] /\ arg' = arg /\ ready' = ready
      /\ reg' = [reg EXCEPT ![p] = [a0 |-> D0(p), a1 |-> n, d0 |-> D0(p)]]
      /\ Store2(n, D0(p), n + LN_PRED, l) /\ where' = where
  BY <1>1 DEF AddHead3, Step, Finish, Goto
<1>f. /\ Owed(p) = [at |-> l, val |-> D0(p)] /\ Whole(l, R, M)
      /\ l + LH_TAIL + LN_PRED = l + LH_TAILPRED
  BY <1>1, AddressAssumption DEF Owed, Result, LH_TAIL, LN_PRED, LH_TAILPRED
<1>g. D0(p) \in Addresses
  <2>1. R[l] = D0(p)
    BY <1>f, InWords DEF Shape, Repaired
  <2>. QED
    BY <1>1, <1>f, <2>1, WholeFacts DEF Addresses
<1>3. /\ OwnWords(p, l) /\ mem'[n] = D0(p) /\ mem'[n + LN_PRED] = l
      /\ \A w : w # n /\ w # n + LN_PRED => mem'[w] = mem[w]
  BY <1>1, <1>2, <1>g, OwnStore2
<1>4. Local(p, l)
  <2>1. OwnNodes(p, l)
    BY <1>1, <1>2, OwnSame
  <2>. QED
    BY <1>2, <1>3, <2>1 DEF Local, OwnRegisters, Shape
<1>5. Shape'
  BY <1>4, LocalShape
<1>6. /\ pc'[p] = "AddHead4" /\ A0(p)' = D0(p) /\ A1(p)' = n /\ D0(p)' = D0(p)
      /\ arg'[p] = arg[p] /\ where' = where /\ Members(l)' = M
  BY <1>1, <1>2 DEF Shape, A0, A1, D0, Members
<1>h. mem'[l] = n
  BY <1>1, <1>3, NodeApartFromList DEF LH_TAILPRED, LN_PRED
<1>7. NodeOf(p)' /\ RegistersOf(p)'
  BY <1>1, <1>3, <1>6, <1>h DEF NodeOf, RegistersOf, Adding, Removing, Removed
<1>8. Keeps(p, l)
  <2>1. Owed(p)' = Owed(p)
    BY <1>1, <1>f, <1>6 DEF Owed
  <2>2. \A w \in Words : w # n /\ w # n + LN_PRED => Repaired(p)'[w] = R[w]
    BY <2>1, <1>3, <1>5 DEF Shape, Repaired
  <2>3. SameLinks(l, M, R, Repaired(p)')
    <3>1. ASSUME NEW x \in M \cup {l} PROVE x \in Words /\ x # n /\ x # n + LN_PRED
      BY <1>1, CellsApart, NodesApart, NodeApartFromList DEF LN_PRED
    <3>2. ASSUME NEW x \in M \cup {l + LH_TAIL}
          PROVE  x + LN_PRED \in Words /\ x + LN_PRED # n /\ x + LN_PRED # n + LN_PRED
      BY <1>1, CellsApart, NodesApart, NodeApartFromList DEF LN_PRED, LH_TAIL
    <3>3. l + LH_TAIL \in Words /\ l + LH_TAIL # n /\ l + LH_TAIL # n + LN_PRED
      BY <1>1, InWords, NodeApartFromList DEF LN_PRED, LH_TAIL
    <3>. QED
      BY <2>2, <3>1, <3>2, <3>3 DEF SameLinks, SameBut
  <2>. QED
    BY <2>3, <1>6 DEF Keeps
<1>. QED
  BY <1>4, <1>7, <1>8, KeepsWhole DEF Result

\* The new node's own links are no words of the chain.
LEMMA AddTail3Links ==
  ASSUME Shape, NEW p \in Actors, NEW l \in Lists, l = arg[p].list, AddTail3(p), Result(p, l)
  PROVE  Local(p, l) /\ Result(p, l)' /\ Keeps(p, l)
<1> DEFINE n == arg[p].node
           M == Members(l)
           R == Repaired(p)
<1>1. /\ pc[p] = "AddTail3" /\ M \subseteq Nodes /\ l \in Addresses /\ l + LH_TAIL \in Addresses
      /\ n \in Nodes /\ where[n] = p /\ Mine(p, l, n) /\ n \notin M /\ n \in Addresses
      /\ D0(p) = l + LH_TAIL /\ A1(p) = n /\ mem[l + LH_TAILPRED] = n
  BY AddressAssumption DEF Result, NodeOf, RegistersOf, Adding, Removing, Removed, AddTail3, AddTailLinks, Step, Finish, At,
                           Mine, Members, Addresses
<1>2. /\ pc' = [pc EXCEPT ![p] = "AddTail4"] /\ arg' = arg /\ ready' = ready
      /\ reg' = [reg EXCEPT ![p] = [a0 |-> A0(p), a1 |-> n, d0 |-> l + LH_TAIL]]
      /\ Store2(n, l + LH_TAIL, n + LN_PRED, A0(p)) /\ where' = where
  BY <1>1 DEF AddTail3, AddTailLinks, Step, Finish, Goto
<1>f. /\ Owed(p) = [at |-> l + LH_TAILPRED, val |-> A0(p)] /\ Whole(l, R, M)
      /\ l + LH_TAIL + LN_PRED = l + LH_TAILPRED
  BY <1>1, AddressAssumption DEF Owed, Result, LH_TAIL, LN_PRED, LH_TAILPRED
<1>g. A0(p) \in Addresses
  <2>1. R[l + LH_TAILPRED] = A0(p)
    BY <1>f, InWords DEF Shape, Repaired
  <2>. QED
    BY <1>1, <1>f, <2>1, WholeFacts DEF Addresses
<1>3. /\ OwnWords(p, l) /\ mem'[n] = l + LH_TAIL /\ mem'[n + LN_PRED] = A0(p)
      /\ \A w : w # n /\ w # n + LN_PRED => mem'[w] = mem[w]
  BY <1>1, <1>2, <1>g, OwnStore2
<1>4. Local(p, l)
  <2>1. OwnNodes(p, l)
    BY <1>1, <1>2, OwnSame
  <2>. QED
    BY <1>2, <1>3, <2>1 DEF Local, OwnRegisters, Shape
<1>5. Shape'
  BY <1>4, LocalShape
<1>6. /\ pc'[p] = "AddTail4" /\ A0(p)' = A0(p) /\ A1(p)' = n /\ D0(p)' = l + LH_TAIL
      /\ arg'[p] = arg[p] /\ where' = where /\ Members(l)' = M
  BY <1>1, <1>2 DEF Shape, A0, A1, D0, Members
<1>h. mem'[l + LH_TAILPRED] = n
  BY <1>1, <1>3, NodeApartFromList DEF LH_TAILPRED, LN_PRED
<1>7. NodeOf(p)' /\ RegistersOf(p)'
  BY <1>1, <1>3, <1>6, <1>h DEF NodeOf, RegistersOf, Adding, Removing, Removed
<1>8. Keeps(p, l)
  <2>1. Owed(p)' = Owed(p)
    BY <1>1, <1>f, <1>6 DEF Owed
  <2>2. \A w \in Words : w # n /\ w # n + LN_PRED => Repaired(p)'[w] = R[w]
    BY <2>1, <1>3, <1>5 DEF Shape, Repaired
  <2>3. SameLinks(l, M, R, Repaired(p)')
    <3>1. ASSUME NEW x \in M \cup {l} PROVE x \in Words /\ x # n /\ x # n + LN_PRED
      BY <1>1, CellsApart, NodesApart, NodeApartFromList DEF LN_PRED
    <3>2. ASSUME NEW x \in M \cup {l + LH_TAIL}
          PROVE  x + LN_PRED \in Words /\ x + LN_PRED # n /\ x + LN_PRED # n + LN_PRED
      BY <1>1, CellsApart, NodesApart, NodeApartFromList DEF LN_PRED, LH_TAIL
    <3>3. l + LH_TAIL \in Words /\ l + LH_TAIL # n /\ l + LH_TAIL # n + LN_PRED
      BY <1>1, InWords, NodeApartFromList DEF LN_PRED, LH_TAIL
    <3>. QED
      BY <2>2, <3>1, <3>2, <3>3 DEF SameLinks, SameBut
  <2>. QED
    BY <2>3, <1>6 DEF Keeps
<1>. QED
  BY <1>4, <1>7, <1>8, KeepsWhole DEF Result

\* The last store puts the node in the chain.
LEMMA AddHead4Links ==
  ASSUME Shape, NEW p \in Actors, NEW l \in Lists, l = arg[p].list, AddHead4(p), Result(p, l)
  PROVE  Local(p, l) /\ Result(p, l)' /\ LinksIn(p, l, l, arg[p].node)
<1> DEFINE n == arg[p].node
           M == Members(l)
           R == Repaired(p)
<1>1. /\ pc[p] = "AddHead4" /\ M \subseteq Nodes /\ l \in Addresses /\ l + LH_TAIL \in Addresses
      /\ n \in Nodes /\ where[n] = p /\ Mine(p, l, n) /\ n \notin M /\ n \in Addresses
      /\ A0(p) = D0(p) /\ A1(p) = n /\ mem[l] = n /\ mem[n] = D0(p) /\ mem[n + LN_PRED] = l
  BY AddressAssumption DEF Result, NodeOf, RegistersOf, Adding, Removing, Removed, AddHead4, AddHeadEnds, Put, Step, Finish, At,
                           Mine, Members, Addresses
<1>2. /\ pc' = [pc EXCEPT ![p] = "idle"] /\ arg' = [arg EXCEPT ![p] = NoArg] /\ ready' = ready
      /\ reg' = [reg EXCEPT ![p] = Scratch]
      /\ Store(D0(p) + LN_PRED, n) /\ where' = [where EXCEPT ![n] = l]
  BY <1>1 DEF AddHead4, AddHeadEnds, Put, Step, Finish, Goto
<1>f. /\ Owed(p) = [at |-> l, val |-> D0(p)] /\ Whole(l, R, M)
      /\ l + LH_TAIL + LN_PRED = l + LH_TAILPRED
  BY <1>1, AddressAssumption DEF Owed, Result, LH_TAIL, LN_PRED, LH_TAILPRED
<1>g. R[l] = D0(p) /\ \A w \in Words : w # l => R[w] = mem[w]
  BY <1>f, InWords DEF Shape, Repaired
<1>h. l \in M \cup {l} /\ D0(p) = R[l] /\ D0(p) \in M \cup {l + LH_TAIL}
  BY <1>f, <1>g, WholeFacts
<1>3. OwnWords(p, l) /\ mem'[D0(p) + LN_PRED] = n /\ \A w : w # D0(p) + LN_PRED => mem'[w] = mem[w]
  <2>1. OwnWord(p, l, D0(p) + LN_PRED)
    BY <1>1, <1>f, <1>h DEF OwnWord, Mine, Members
  <2>. QED
    BY <1>1, <1>2, <2>1, OwnStore
<1>4. Local(p, l)
  <2>1. OwnNodes(p, l)
    BY <1>1, <1>2, OwnSame
  <2>. QED
    BY <1>2, <1>3, <2>1 DEF Local, OwnRegisters, Shape
<1>5. Shape'
  BY <1>4, LocalShape
<1>6. pc'[p] = "idle" /\ Members(l)' = M \cup {n}
  BY <1>1, <1>2 DEF Shape, Members
<1>r. Repaired(p)' = mem'
  BY <1>5, <1>6, EndsWhole
<1>7. LinksIn(p, l, l, n)
  <2>1. SameBut(l, M, R, mem', l, D0(p))
    <3>1. ASSUME NEW x \in M \cup {l}, x # l PROVE mem'[x] = R[x]
      BY <1>1, <1>3, <1>f, <1>g, <1>h, <3>1, CellsApart
    <3>2. ASSUME NEW x \in M \cup {l + LH_TAIL}, x # D0(p) PROVE mem'[x + LN_PRED] = R[x + LN_PRED]
      <4>1. x \in Nat /\ D0(p) \in Nat /\ (x + LN_PRED # D0(p) + LN_PRED)
        BY <1>1, <1>h, <3>2, CellsApart DEF LN_PRED
      <4>. QED
        BY <1>1, <1>3, <1>f, <1>g, <1>h, <4>1, CellsApart
    <3>3. mem'[l + LH_TAIL] = R[l + LH_TAIL]
      BY <1>1, <1>3, <1>f, <1>g, <1>h, CellsApart
    <3>. QED
      BY <3>1, <3>2, <3>3 DEF SameBut
  <2>2. mem'[l] = n /\ mem'[D0(p) + LN_PRED] = n
    BY <1>1, <1>3, <1>f, <1>h, CellsApart
  <2>3. mem'[n] = D0(p) /\ mem'[n + LN_PRED] = l
    BY <1>1, <1>3, <1>f, <1>h, CellsApart, NodesApart, NodeApartFromList DEF LN_PRED, LH_TAIL
  <2>. QED
    BY <1>1, <1>2, <1>h, <1>r, <2>1, <2>2, <2>3 DEF LinksIn
<1>. QED
  BY <1>4, <1>5, <1>6, <1>7, <1>f, <1>h, <1>r, EndsWhole, LinksInWhole

\* The last store puts the node in the chain.
LEMMA AddTail4Links ==
  ASSUME Shape, NEW p \in Actors, NEW l \in Lists, l = arg[p].list, AddTail4(p), Result(p, l)
  PROVE  Local(p, l) /\ Result(p, l)'
         /\ LinksIn(p, l, A0(p), arg[p].node) /\ Repaired(p)[A0(p)] = l + LH_TAIL
<1> DEFINE n == arg[p].node
           M == Members(l)
           R == Repaired(p)
<1>1. /\ pc[p] = "AddTail4" /\ M \subseteq Nodes /\ l \in Addresses /\ l + LH_TAIL \in Addresses
      /\ n \in Nodes /\ where[n] = p /\ Mine(p, l, n) /\ n \notin M /\ n \in Addresses
      /\ A1(p) = n /\ mem[l + LH_TAILPRED] = n /\ mem[n] = l + LH_TAIL /\ mem[n + LN_PRED] = A0(p)
  BY AddressAssumption DEF Result, NodeOf, RegistersOf, Adding, Removing, Removed, AddTail4, Put, Step, Finish, At,
                           Mine, Members, Addresses
<1>2. /\ pc' = [pc EXCEPT ![p] = "idle"] /\ arg' = [arg EXCEPT ![p] = NoArg] /\ ready' = ready
      /\ reg' = [reg EXCEPT ![p] = Scratch]
      /\ Store(A0(p), n) /\ where' = [where EXCEPT ![n] = l]
  BY <1>1 DEF AddTail4, Put, Step, Finish, Goto
<1>f. /\ Owed(p) = [at |-> l + LH_TAILPRED, val |-> A0(p)] /\ Whole(l, R, M)
      /\ l + LH_TAIL + LN_PRED = l + LH_TAILPRED
  BY <1>1, AddressAssumption DEF Owed, Result, LH_TAIL, LN_PRED, LH_TAILPRED
<1>g. R[l + LH_TAILPRED] = A0(p) /\ \A w \in Words : w # l + LH_TAILPRED => R[w] = mem[w]
  BY <1>f, InWords DEF Shape, Repaired
<1>h. A0(p) \in M \cup {l} /\ l + LH_TAIL = R[A0(p)] /\ l + LH_TAIL \in M \cup {l + LH_TAIL}
  BY <1>f, <1>g, WholeFacts
<1>3. OwnWords(p, l) /\ mem'[A0(p)] = n /\ \A w : w # A0(p) => mem'[w] = mem[w]
  <2>1. OwnWord(p, l, A0(p))
    BY <1>1, <1>f, <1>h DEF OwnWord, Mine, Members
  <2>. QED
    BY <1>1, <1>2, <2>1, OwnStore
<1>4. Local(p, l)
  <2>1. OwnNodes(p, l)
    BY <1>1, <1>2, OwnSame
  <2>. QED
    BY <1>2, <1>3, <2>1 DEF Local, OwnRegisters, Shape
<1>5. Shape'
  BY <1>4, LocalShape
<1>6. pc'[p] = "idle" /\ Members(l)' = M \cup {n}
  BY <1>1, <1>2 DEF Shape, Members
<1>r. Repaired(p)' = mem'
  BY <1>5, <1>6, EndsWhole
<1>7. LinksIn(p, l, A0(p), n)
  <2>1. SameBut(l, M, R, mem', A0(p), l + LH_TAIL)
    <3>1. ASSUME NEW x \in M \cup {l}, x # A0(p) PROVE mem'[x] = R[x]
      BY <1>1, <1>3, <1>f, <1>g, <1>h, <3>1, CellsApart
    <3>2. ASSUME NEW x \in M \cup {l + LH_TAIL}, x # l + LH_TAIL PROVE mem'[x + LN_PRED] = R[x + LN_PRED]
      <4>1. x \in Nat /\ l + LH_TAIL \in Nat /\ (x + LN_PRED # l + LH_TAIL + LN_PRED)
        BY <1>1, <1>h, <3>2, CellsApart DEF LN_PRED
      <4>. QED
        BY <1>1, <1>3, <1>f, <1>g, <1>h, <4>1, CellsApart
    <3>3. mem'[l + LH_TAIL] = R[l + LH_TAIL]
      BY <1>1, <1>3, <1>f, <1>g, <1>h, CellsApart
    <3>. QED
      BY <3>1, <3>2, <3>3 DEF SameBut
  <2>2. mem'[A0(p)] = n /\ mem'[l + LH_TAIL + LN_PRED] = n
    BY <1>1, <1>3, <1>f, <1>h, CellsApart
  <2>3. mem'[n] = l + LH_TAIL /\ mem'[n + LN_PRED] = A0(p)
    BY <1>1, <1>3, <1>f, <1>h, CellsApart, NodesApart, NodeApartFromList DEF LN_PRED, LH_TAIL
  <2>. QED
    BY <1>1, <1>2, <1>h, <1>r, <2>1, <2>2, <2>3 DEF LinksIn
<1>. QED
  BY <1>4, <1>5, <1>6, <1>7, <1>f, <1>h, <1>r, EndsWhole, LinksInWhole

(***************************************************************************)
(* REMOVE, REMHEAD, REMHEADQ and REMTAIL: up to the first store            *)
(*                                                                         *)
(* The node leaves the list with the first store; the second is then owed. *)
(***************************************************************************)

\* A step that only reads.
LEMMA Remove2Links ==
  ASSUME Shape, NEW p \in Actors, NEW l \in Lists, l = arg[p].list, Remove2(p), Result(p, l)
  PROVE  Local(p, l) /\ Result(p, l)' /\ Keeps(p, l)
<1> DEFINE n == arg[p].node
           M == Members(l)
           R == Repaired(p)
<1>1. /\ pc[p] = "Remove2" /\ M \subseteq Nodes /\ l \in Addresses /\ l + LH_TAIL \in Addresses
      /\ n \in M /\ n \in Nodes /\ where[n] = l /\ l # p /\ Mine(p, l, n)
      /\ A0(p) = mem[n] /\ A1(p) = n + LN_PRED
  BY AddressAssumption DEF Result, NodeOf, RegistersOf, Adding, Removing, Removed, Remove2, Step, Finish, At,
                           Mine, Members, Addresses
<1>2. /\ pc' = [pc EXCEPT ![p] = "Remove3"] /\ arg' = arg /\ ready' = ready
      /\ reg' = [reg EXCEPT ![p] = [a0 |-> mem[n], a1 |-> mem[n + LN_PRED], d0 |-> D0(p)]]
      /\ mem' = mem /\ where' = where
  BY <1>1 DEF Remove2, Step, Finish, Goto
<1>3. OwnWords(p, l)
  BY <1>2, OwnSame
<1>4. Local(p, l)
  <2>1. OwnNodes(p, l)
    BY <1>1, <1>2, OwnSame
  <2>. QED
    BY <1>2, <1>3, <2>1 DEF Local, OwnRegisters, Shape
<1>5. Shape'
  BY <1>4, LocalShape
<1>6. /\ pc'[p] = "Remove3" /\ A0(p)' = mem[n] /\ A1(p)' = mem[n + LN_PRED] /\ D0(p)' = D0(p)
      /\ arg'[p] = arg[p] /\ where' = where /\ Members(l)' = M
  BY <1>1, <1>2 DEF Shape, A0, A1, D0, Members
<1>7. NodeOf(p)' /\ RegistersOf(p)'
  BY <1>1, <1>2, <1>6 DEF NodeOf, RegistersOf, Adding, Removing, Removed
<1>8. Keeps(p, l)
  <2>1. Owed(p) = None /\ Owed(p)' = None
    BY <1>1, <1>6 DEF Owed
  <2>2. Repaired(p)' = R
    BY <2>1, <1>2 DEF Repaired
  <2>. QED
    BY <2>2, <1>6 DEF Keeps, SameLinks, SameBut
<1>. QED
  BY <1>4, <1>7, <1>8, KeepsWhole DEF Result

\* A step that only reads.
LEMMA RemHeadQ2Links ==
  ASSUME Shape, NEW p \in Actors, NEW l \in Lists, l = arg[p].list, RemHeadQ2(p), Result(p, l)
  PROVE  Local(p, l) /\ Result(p, l)' /\ Keeps(p, l)
<1> DEFINE n == arg[p].node
           M == Members(l)
           R == Repaired(p)
<1>1. /\ pc[p] = "RemHeadQ2" /\ M \subseteq Nodes /\ l \in Addresses /\ l + LH_TAIL \in Addresses
      /\ n \in M /\ n \in Nodes /\ where[n] = l /\ l # p /\ Mine(p, l, n)
      /\ A0(p) = l /\ D0(p) = n /\ n = mem[l]
  BY AddressAssumption DEF Result, NodeOf, RegistersOf, Adding, Removing, Removed, RemHeadQ2, Step, Finish, At,
                           Mine, Members, Addresses
<1>2. /\ pc' = [pc EXCEPT ![p] = "RemHeadQ3"] /\ arg' = arg /\ ready' = ready
      /\ reg' = [reg EXCEPT ![p] = [a0 |-> l, a1 |-> mem[n], d0 |-> n]]
      /\ mem' = mem /\ where' = where
  BY <1>1 DEF RemHeadQ2, Step, Finish, Goto
<1>3. OwnWords(p, l)
  BY <1>2, OwnSame
<1>4. Local(p, l)
  <2>1. OwnNodes(p, l)
    BY <1>1, <1>2, OwnSame
  <2>. QED
    BY <1>2, <1>3, <2>1 DEF Local, OwnRegisters, Shape
<1>5. Shape'
  BY <1>4, LocalShape
<1>6. /\ pc'[p] = "RemHeadQ3" /\ A0(p)' = l /\ A1(p)' = mem[n] /\ D0(p)' = n
      /\ arg'[p] = arg[p] /\ where' = where /\ Members(l)' = M
  BY <1>1, <1>2 DEF Shape, A0, A1, D0, Members
<1>7. NodeOf(p)' /\ RegistersOf(p)'
  BY <1>1, <1>2, <1>6 DEF NodeOf, RegistersOf, Adding, Removing, Removed
<1>8. Keeps(p, l)
  <2>1. Owed(p) = None /\ Owed(p)' = None
    BY <1>1, <1>6 DEF Owed
  <2>2. Repaired(p)' = R
    BY <2>1, <1>2 DEF Repaired
  <2>. QED
    BY <2>2, <1>6 DEF Keeps, SameLinks, SameBut
<1>. QED
  BY <1>4, <1>7, <1>8, KeepsWhole DEF Result

\* The store that takes the node out leaves the list whole but for the other one.
LEMMA Remove3Links ==
  ASSUME Shape, NEW p \in Actors, NEW l \in Lists, l = arg[p].list, Remove3(p), Result(p, l)
  PROVE  Local(p, l) /\ Result(p, l)' /\ TakesOut(p, l, arg[p].node)
<1> DEFINE n == arg[p].node
           M == Members(l)
           R == Repaired(p)
<1>1. /\ pc[p] = "Remove3" /\ M \subseteq Nodes /\ l \in Addresses /\ l + LH_TAIL \in Addresses
      /\ n \in M /\ n \in Nodes /\ where[n] = l /\ l # p /\ Mine(p, l, n)
      /\ A0(p) = mem[n] /\ A1(p) = mem[n + LN_PRED]
  BY AddressAssumption DEF Result, NodeOf, RegistersOf, Adding, Removing, Removed, Remove3, Take, Step, Finish, At,
                           Mine, Members, Addresses
<1>2. /\ pc' = [pc EXCEPT ![p] = "Remove4"] /\ arg' = arg /\ ready' = ready
      /\ reg' = [reg EXCEPT ![p] = [a0 |-> A0(p), a1 |-> A1(p), d0 |-> D0(p)]]
      /\ Store(A1(p), A0(p)) /\ where' = [where EXCEPT ![n] = p]
  BY <1>1 DEF Remove3, Take, Step, Finish, Goto
<1>f. Owed(p) = None /\ R = mem /\ Whole(l, mem, M)
  BY <1>1, NothingOwed DEF Owed, Result
<1>g. /\ A1(p) \in (M \ {n}) \cup {l} /\ A0(p) \in (M \ {n}) \cup {l + LH_TAIL}
      /\ mem[n + LN_PRED] = A1(p) /\ mem[n] = A0(p) /\ mem[A1(p)] = n /\ mem[A0(p) + LN_PRED] = n
      /\ A0(p) \in Addresses /\ A1(p) \in Addresses
  <2>1. /\ mem[n + LN_PRED] \in M \cup {l} /\ mem[n] \in M \cup {l + LH_TAIL}
        /\ mem[mem[n + LN_PRED]] = n /\ mem[mem[n] + LN_PRED] = n
        /\ mem[n] # n /\ mem[n + LN_PRED] # n
    BY <1>1, <1>f, WholeFacts
  <2>. QED
    BY <1>1, <2>1 DEF Addresses
<1>3. OwnWords(p, l) /\ mem'[A1(p)] = A0(p) /\ \A w : w # A1(p) => mem'[w] = mem[w]
  <2>1. OwnWord(p, l, A1(p))
    BY <1>1, <1>g, AddressAssumption DEF OwnWord, Mine, Members, LH_TAIL, LN_PRED, LH_TAILPRED
  <2>. QED
    BY <1>2, <1>g, <1>1, <2>1, OwnStore
<1>4. Local(p, l)
  <2>1. OwnNodes(p, l)
    BY <1>1, <1>2, OwnSame
  <2>. QED
    BY <1>2, <1>3, <2>1 DEF Local, OwnRegisters, Shape
<1>5. Shape'
  BY <1>4, LocalShape
<1>6. /\ pc'[p] = "Remove4" /\ A0(p)' = A0(p) /\ A1(p)' = A1(p) /\ D0(p)' = D0(p)
      /\ arg'[p] = arg[p] /\ where'[n] = p /\ Members(l)' = M \ {n}
  BY <1>1, <1>2 DEF Shape, A0, A1, D0, Members
<1>h. /\ mem'[A1(p)] = A0(p) /\ mem'[A0(p) + LN_PRED] = n
      /\ l + LH_TAIL + LN_PRED = l + LH_TAILPRED
  BY <1>1, <1>3, <1>g, CellsApart, AddressAssumption DEF LH_TAIL, LN_PRED, LH_TAILPRED
<1>7. NodeOf(p)' /\ RegistersOf(p)'
  BY <1>1, <1>3, <1>6, <1>g, <1>h DEF NodeOf, RegistersOf, Adding, Removing, Removed, Firsts, Lasts
<1>a1. Owed(p)' = [at |-> A0(p) + LN_PRED, val |-> A1(p)]
  BY <1>1, <1>6 DEF Owed
<1>a2. A0(p) + LN_PRED \in Words
  BY <1>1, <1>g, CellsApart
<1>a3. Repaired(p)'[A0(p) + LN_PRED] = A1(p) /\ \A w \in Words : w # A0(p) + LN_PRED => Repaired(p)'[w] = mem'[w]
  BY <1>a1, <1>a2, <1>5 DEF Shape, Repaired
<1>a4. /\ Repaired(p)'[A1(p)] = A0(p) /\ Repaired(p)'[A0(p) + LN_PRED] = A1(p)
      /\ \A w \in Words : w # A1(p) /\ w # A0(p) + LN_PRED => Repaired(p)'[w] = mem[w]
  BY <1>1, <1>3, <1>g, <1>h, <1>a3, CellsApart
<1>a5. SameBut(l, M \ {n}, mem, Repaired(p)', A1(p), A0(p))
  <2>1. ASSUME NEW x \in (M \ {n}) \cup {l}, x # A1(p) PROVE Repaired(p)'[x] = mem[x]
    BY <1>1, <1>g, <1>a4, <2>1, CellsApart
  <2>2. ASSUME NEW x \in (M \ {n}) \cup {l + LH_TAIL}, x # A0(p)
        PROVE  Repaired(p)'[x + LN_PRED] = mem[x + LN_PRED]
    <3>1. x + LN_PRED # A0(p) + LN_PRED
      BY <1>1, <1>g, <2>2, CellsApart DEF LN_PRED
    <3>. QED
      BY <1>1, <1>g, <1>a4, <3>1, CellsApart
  <2>3. Repaired(p)'[l + LH_TAIL] = mem[l + LH_TAIL]
    BY <1>1, <1>g, <1>a4, CellsApart
  <2>. QED
    BY <2>1, <2>2, <2>3 DEF SameBut
<1>8. TakesOut(p, l, n)
  BY <1>1, <1>2, <1>f, <1>g, <1>a4, <1>a5 DEF TakesOut
<1>. QED
  BY <1>4, <1>7, <1>8, <1>f, TakesOutWhole DEF Result

\* The store that takes the node out leaves the list whole but for the other one.
LEMMA RemHead3Links ==
  ASSUME Shape, NEW p \in Actors, NEW l \in Lists, l = arg[p].list, RemHead3(p), Result(p, l)
  PROVE  Local(p, l) /\ Result(p, l)' /\ TakesOut(p, l, arg[p].node)
         /\ Repaired(p)[l] = arg[p].node
<1> DEFINE n == arg[p].node
           M == Members(l)
           R == Repaired(p)
<1>1. /\ pc[p] = "RemHead3" /\ M \subseteq Nodes /\ l \in Addresses /\ l + LH_TAIL \in Addresses
      /\ n \in M /\ n \in Nodes /\ where[n] = l /\ l # p /\ Mine(p, l, n)
      /\ A0(p) = l /\ A1(p) = n /\ n = mem[l] /\ D0(p) = mem[n]
  BY AddressAssumption DEF Result, NodeOf, RegistersOf, Adding, Removing, Removed, RemHead3, RemHeadTakes, Take, Step, Finish, At,
                           Mine, Members, Addresses
<1>2. /\ pc' = [pc EXCEPT ![p] = "RemHead4"] /\ arg' = arg /\ ready' = ready
      /\ reg' = [reg EXCEPT ![p] = [a0 |-> l, a1 |-> D0(p), d0 |-> n]]
      /\ Store(l, D0(p)) /\ where' = [where EXCEPT ![n] = p]
  BY <1>1 DEF RemHead3, RemHeadTakes, Take, Step, Finish, Goto
<1>f. Owed(p) = None /\ R = mem /\ Whole(l, mem, M)
  BY <1>1, NothingOwed DEF Owed, Result
<1>g. /\ l \in (M \ {n}) \cup {l} /\ D0(p) \in (M \ {n}) \cup {l + LH_TAIL}
      /\ mem[n + LN_PRED] = l /\ mem[n] = D0(p) /\ mem[l] = n /\ mem[D0(p) + LN_PRED] = n
      /\ D0(p) \in Addresses /\ l \in Addresses
  <2>1. /\ mem[n + LN_PRED] = l /\ mem[n] \in M \cup {l + LH_TAIL} /\ mem[mem[n] + LN_PRED] = n /\ mem[n] # n
    BY <1>1, <1>f, WholeFacts
  <2>2. n # l
    BY <1>1, NodeApartFromList
  <2>. QED
    BY <1>1, <2>1, <2>2 DEF Addresses
<1>3. OwnWords(p, l) /\ mem'[l] = D0(p) /\ \A w : w # l => mem'[w] = mem[w]
  <2>1. OwnWord(p, l, l)
    BY <1>1, <1>g, AddressAssumption DEF OwnWord, Mine, Members, LH_TAIL, LN_PRED, LH_TAILPRED
  <2>. QED
    BY <1>2, <1>g, <1>1, <2>1, OwnStore
<1>4. Local(p, l)
  <2>1. OwnNodes(p, l)
    BY <1>1, <1>2, OwnSame
  <2>. QED
    BY <1>2, <1>3, <2>1 DEF Local, OwnRegisters, Shape
<1>5. Shape'
  BY <1>4, LocalShape
<1>6. /\ pc'[p] = "RemHead4" /\ A0(p)' = l /\ A1(p)' = D0(p) /\ D0(p)' = n
      /\ arg'[p] = arg[p] /\ where'[n] = p /\ Members(l)' = M \ {n}
  BY <1>1, <1>2 DEF Shape, A0, A1, D0, Members
<1>h. /\ mem'[l] = D0(p) /\ mem'[D0(p) + LN_PRED] = n
      /\ l + LH_TAIL + LN_PRED = l + LH_TAILPRED
  BY <1>1, <1>3, <1>g, CellsApart, AddressAssumption DEF LH_TAIL, LN_PRED, LH_TAILPRED
<1>7. NodeOf(p)' /\ RegistersOf(p)'
  BY <1>1, <1>3, <1>6, <1>g, <1>h DEF NodeOf, RegistersOf, Adding, Removing, Removed, Firsts, Lasts
<1>8. TakesOut(p, l, n)
  <2>1. Owed(p)' = [at |-> D0(p) + LN_PRED, val |-> l]
    BY <1>1, <1>6 DEF Owed
  <2>2. D0(p) + LN_PRED \in Words
    BY <1>1, <1>g, CellsApart
  <2>3. Repaired(p)'[D0(p) + LN_PRED] = l /\ \A w \in Words : w # D0(p) + LN_PRED => Repaired(p)'[w] = mem'[w]
    BY <2>1, <2>2, <1>5 DEF Shape, Repaired
  <2>4. /\ Repaired(p)'[l] = D0(p) /\ Repaired(p)'[D0(p) + LN_PRED] = l
        /\ \A w \in Words : w # l /\ w # D0(p) + LN_PRED => Repaired(p)'[w] = mem[w]
    BY <1>1, <1>3, <1>g, <1>h, <2>3, CellsApart
  <2>5. SameBut(l, M \ {n}, mem, Repaired(p)', l, D0(p))
    <3>1. ASSUME NEW x \in (M \ {n}) \cup {l}, x # l PROVE Repaired(p)'[x] = mem[x]
      BY <1>1, <1>g, <2>4, <3>1, CellsApart
    <3>2. ASSUME NEW x \in (M \ {n}) \cup {l + LH_TAIL}, x # D0(p)
          PROVE  Repaired(p)'[x + LN_PRED] = mem[x + LN_PRED]
      <4>1. x + LN_PRED # D0(p) + LN_PRED
        BY <1>1, <1>g, <3>2, CellsApart DEF LN_PRED
      <4>. QED
        BY <1>1, <1>g, <2>4, <4>1, CellsApart
    <3>3. Repaired(p)'[l + LH_TAIL] = mem[l + LH_TAIL]
      BY <1>1, <1>g, <2>4, CellsApart
    <3>. QED
      BY <3>1, <3>2, <3>3 DEF SameBut
  <2>. QED
    BY <1>1, <1>2, <1>f, <1>g, <2>4, <2>5 DEF TakesOut
<1>. QED
  BY <1>1, <1>4, <1>7, <1>8, <1>f, TakesOutWhole DEF Result

\* The store that takes the node out leaves the list whole but for the other one.
LEMMA RemHeadQ3Links ==
  ASSUME Shape, NEW p \in Actors, NEW l \in Lists, l = arg[p].list, RemHeadQ3(p), Result(p, l)
  PROVE  Local(p, l) /\ Result(p, l)' /\ TakesOut(p, l, arg[p].node)
         /\ Repaired(p)[l] = arg[p].node
<1> DEFINE n == arg[p].node
           M == Members(l)
           R == Repaired(p)
<1>1. /\ pc[p] = "RemHeadQ3" /\ M \subseteq Nodes /\ l \in Addresses /\ l + LH_TAIL \in Addresses
      /\ n \in M /\ n \in Nodes /\ where[n] = l /\ l # p /\ Mine(p, l, n)
      /\ A0(p) = l /\ D0(p) = n /\ n = mem[l] /\ A1(p) = mem[n]
  BY AddressAssumption DEF Result, NodeOf, RegistersOf, Adding, Removing, Removed, RemHeadQ3, Take, Step, Finish, At,
                           Mine, Members, Addresses
<1>2. /\ pc' = [pc EXCEPT ![p] = "RemHeadQ4"] /\ arg' = arg /\ ready' = ready
      /\ reg' = [reg EXCEPT ![p] = [a0 |-> l, a1 |-> A1(p), d0 |-> n]]
      /\ Store(l, A1(p)) /\ where' = [where EXCEPT ![n] = p]
  BY <1>1 DEF RemHeadQ3, Take, Step, Finish, Goto
<1>f. Owed(p) = None /\ R = mem /\ Whole(l, mem, M)
  BY <1>1, NothingOwed DEF Owed, Result
<1>g. /\ l \in (M \ {n}) \cup {l} /\ A1(p) \in (M \ {n}) \cup {l + LH_TAIL}
      /\ mem[n + LN_PRED] = l /\ mem[n] = A1(p) /\ mem[l] = n /\ mem[A1(p) + LN_PRED] = n
      /\ A1(p) \in Addresses /\ l \in Addresses
  <2>1. /\ mem[n + LN_PRED] = l /\ mem[n] \in M \cup {l + LH_TAIL} /\ mem[mem[n] + LN_PRED] = n /\ mem[n] # n
    BY <1>1, <1>f, WholeFacts
  <2>2. n # l
    BY <1>1, NodeApartFromList
  <2>. QED
    BY <1>1, <2>1, <2>2 DEF Addresses
<1>3. OwnWords(p, l) /\ mem'[l] = A1(p) /\ \A w : w # l => mem'[w] = mem[w]
  <2>1. OwnWord(p, l, l)
    BY <1>1, <1>g, AddressAssumption DEF OwnWord, Mine, Members, LH_TAIL, LN_PRED, LH_TAILPRED
  <2>. QED
    BY <1>2, <1>g, <1>1, <2>1, OwnStore
<1>4. Local(p, l)
  <2>1. OwnNodes(p, l)
    BY <1>1, <1>2, OwnSame
  <2>. QED
    BY <1>2, <1>3, <2>1 DEF Local, OwnRegisters, Shape
<1>5. Shape'
  BY <1>4, LocalShape
<1>6. /\ pc'[p] = "RemHeadQ4" /\ A0(p)' = l /\ A1(p)' = A1(p) /\ D0(p)' = n
      /\ arg'[p] = arg[p] /\ where'[n] = p /\ Members(l)' = M \ {n}
  BY <1>1, <1>2 DEF Shape, A0, A1, D0, Members
<1>h. /\ mem'[l] = A1(p) /\ mem'[A1(p) + LN_PRED] = n
      /\ l + LH_TAIL + LN_PRED = l + LH_TAILPRED
  BY <1>1, <1>3, <1>g, CellsApart, AddressAssumption DEF LH_TAIL, LN_PRED, LH_TAILPRED
<1>7. NodeOf(p)' /\ RegistersOf(p)'
  BY <1>1, <1>3, <1>6, <1>g, <1>h DEF NodeOf, RegistersOf, Adding, Removing, Removed, Firsts, Lasts
<1>8. TakesOut(p, l, n)
  <2>1. Owed(p)' = [at |-> A1(p) + LN_PRED, val |-> l]
    BY <1>1, <1>6 DEF Owed
  <2>2. A1(p) + LN_PRED \in Words
    BY <1>1, <1>g, CellsApart
  <2>3. Repaired(p)'[A1(p) + LN_PRED] = l /\ \A w \in Words : w # A1(p) + LN_PRED => Repaired(p)'[w] = mem'[w]
    BY <2>1, <2>2, <1>5 DEF Shape, Repaired
  <2>4. /\ Repaired(p)'[l] = A1(p) /\ Repaired(p)'[A1(p) + LN_PRED] = l
        /\ \A w \in Words : w # l /\ w # A1(p) + LN_PRED => Repaired(p)'[w] = mem[w]
    BY <1>1, <1>3, <1>g, <1>h, <2>3, CellsApart
  <2>5. SameBut(l, M \ {n}, mem, Repaired(p)', l, A1(p))
    <3>1. ASSUME NEW x \in (M \ {n}) \cup {l}, x # l PROVE Repaired(p)'[x] = mem[x]
      BY <1>1, <1>g, <2>4, <3>1, CellsApart
    <3>2. ASSUME NEW x \in (M \ {n}) \cup {l + LH_TAIL}, x # A1(p)
          PROVE  Repaired(p)'[x + LN_PRED] = mem[x + LN_PRED]
      <4>1. x + LN_PRED # A1(p) + LN_PRED
        BY <1>1, <1>g, <3>2, CellsApart DEF LN_PRED
      <4>. QED
        BY <1>1, <1>g, <2>4, <4>1, CellsApart
    <3>3. Repaired(p)'[l + LH_TAIL] = mem[l + LH_TAIL]
      BY <1>1, <1>g, <2>4, CellsApart
    <3>. QED
      BY <3>1, <3>2, <3>3 DEF SameBut
  <2>. QED
    BY <1>1, <1>2, <1>f, <1>g, <2>4, <2>5 DEF TakesOut
<1>. QED
  BY <1>1, <1>4, <1>7, <1>8, <1>f, TakesOutWhole DEF Result

\* The store that takes the node out leaves the list whole but for the other one.
LEMMA RemTail3Links ==
  ASSUME Shape, NEW p \in Actors, NEW l \in Lists, l = arg[p].list, RemTail3(p), Result(p, l)
  PROVE  Local(p, l) /\ Result(p, l)' /\ TakesOut(p, l, arg[p].node)
         /\ Repaired(p)[l + LH_TAILPRED] = arg[p].node
<1> DEFINE n == arg[p].node
           M == Members(l)
           R == Repaired(p)
<1>1. /\ pc[p] = "RemTail3" /\ M \subseteq Nodes /\ l \in Addresses /\ l + LH_TAIL \in Addresses
      /\ n \in M /\ n \in Nodes /\ where[n] = l /\ l # p /\ Mine(p, l, n)
      /\ A0(p) = l /\ A1(p) = n /\ n = mem[l + LH_TAILPRED] /\ D0(p) = mem[n + LN_PRED]
  BY AddressAssumption DEF Result, NodeOf, RegistersOf, Adding, Removing, Removed, RemTail3, Take, Step, Finish, At,
                           Mine, Members, Addresses
<1>2. /\ pc' = [pc EXCEPT ![p] = "RemTail4"] /\ arg' = arg /\ ready' = ready
      /\ reg' = [reg EXCEPT ![p] = [a0 |-> l, a1 |-> D0(p), d0 |-> n]]
      /\ Store(l + LH_TAILPRED, D0(p)) /\ where' = [where EXCEPT ![n] = p]
  BY <1>1 DEF RemTail3, Take, Step, Finish, Goto
<1>f. Owed(p) = None /\ R = mem /\ Whole(l, mem, M)
  BY <1>1, NothingOwed DEF Owed, Result
<1>g. /\ D0(p) \in (M \ {n}) \cup {l} /\ l + LH_TAIL \in (M \ {n}) \cup {l + LH_TAIL}
      /\ mem[n + LN_PRED] = D0(p) /\ mem[n] = l + LH_TAIL /\ mem[D0(p)] = n /\ mem[l + LH_TAIL + LN_PRED] = n
      /\ l + LH_TAIL \in Addresses /\ D0(p) \in Addresses
  <2>1. l + LH_TAIL + LN_PRED = l + LH_TAILPRED
    BY AddressAssumption DEF LH_TAIL, LN_PRED, LH_TAILPRED
  <2>2. mem[n] = l + LH_TAIL
    BY <1>1, <1>f, <2>1, WholeFacts
  <2>3. /\ mem[n + LN_PRED] \in M \cup {l} /\ mem[mem[n + LN_PRED]] = n /\ mem[n + LN_PRED] # n
    BY <1>1, <1>f, WholeFacts
  <2>4. n # l + LH_TAIL
    BY <1>1, NodeApartFromList DEF LH_TAIL
  <2>. QED
    BY <1>1, <2>1, <2>2, <2>3, <2>4 DEF Addresses
<1>3. OwnWords(p, l) /\ mem'[l + LH_TAILPRED] = D0(p) /\ \A w : w # l + LH_TAILPRED => mem'[w] = mem[w]
  <2>1. OwnWord(p, l, l + LH_TAILPRED)
    BY <1>1, <1>g, AddressAssumption DEF OwnWord, Mine, Members, LH_TAIL, LN_PRED, LH_TAILPRED
  <2>. QED
    BY <1>2, <1>g, <1>1, <2>1, OwnStore
<1>4. Local(p, l)
  <2>1. OwnNodes(p, l)
    BY <1>1, <1>2, OwnSame
  <2>. QED
    BY <1>2, <1>3, <2>1 DEF Local, OwnRegisters, Shape
<1>5. Shape'
  BY <1>4, LocalShape
<1>6. /\ pc'[p] = "RemTail4" /\ A0(p)' = l /\ A1(p)' = D0(p) /\ D0(p)' = n
      /\ arg'[p] = arg[p] /\ where'[n] = p /\ Members(l)' = M \ {n}
  BY <1>1, <1>2 DEF Shape, A0, A1, D0, Members
<1>h. /\ mem'[D0(p)] = n /\ mem'[l + LH_TAIL + LN_PRED] = D0(p)
      /\ l + LH_TAIL + LN_PRED = l + LH_TAILPRED
  BY <1>1, <1>3, <1>g, CellsApart, AddressAssumption DEF LH_TAIL, LN_PRED, LH_TAILPRED
<1>7. NodeOf(p)' /\ RegistersOf(p)'
  BY <1>1, <1>3, <1>6, <1>g, <1>h DEF NodeOf, RegistersOf, Adding, Removing, Removed, Firsts, Lasts
<1>8. TakesOut(p, l, n)
  <2>1. Owed(p)' = [at |-> D0(p), val |-> l + LH_TAIL]
    BY <1>1, <1>6 DEF Owed
  <2>2. D0(p) \in Words
    BY <1>1, <1>g, CellsApart
  <2>3. Repaired(p)'[D0(p)] = l + LH_TAIL /\ \A w \in Words : w # D0(p) => Repaired(p)'[w] = mem'[w]
    BY <2>1, <2>2, <1>5 DEF Shape, Repaired
  <2>4. /\ Repaired(p)'[D0(p)] = l + LH_TAIL /\ Repaired(p)'[l + LH_TAIL + LN_PRED] = D0(p)
        /\ \A w \in Words : w # D0(p) /\ w # l + LH_TAIL + LN_PRED => Repaired(p)'[w] = mem[w]
    BY <1>1, <1>3, <1>g, <1>h, <2>3, CellsApart
  <2>5. SameBut(l, M \ {n}, mem, Repaired(p)', D0(p), l + LH_TAIL)
    <3>1. ASSUME NEW x \in (M \ {n}) \cup {l}, x # D0(p) PROVE Repaired(p)'[x] = mem[x]
      BY <1>1, <1>g, <2>4, <3>1, CellsApart
    <3>2. ASSUME NEW x \in (M \ {n}) \cup {l + LH_TAIL}, x # l + LH_TAIL
          PROVE  Repaired(p)'[x + LN_PRED] = mem[x + LN_PRED]
      <4>1. x + LN_PRED # l + LH_TAIL + LN_PRED
        BY <1>1, <1>g, <3>2, CellsApart DEF LN_PRED
      <4>. QED
        BY <1>1, <1>g, <2>4, <4>1, CellsApart
    <3>3. Repaired(p)'[l + LH_TAIL] = mem[l + LH_TAIL]
      BY <1>1, <1>g, <2>4, CellsApart
    <3>. QED
      BY <3>1, <3>2, <3>3 DEF SameBut
  <2>. QED
    BY <1>1, <1>2, <1>f, <1>g, <2>4, <2>5 DEF TakesOut
<1>. QED
  BY <1>1, <1>4, <1>7, <1>8, <1>f, TakesOutWhole DEF Result

(***************************************************************************)
(* REMOVE, REMHEAD, REMHEADQ and REMTAIL: to the end; the tests            *)
(***************************************************************************)

\* The last store is the one owed.
LEMMA Remove4Links ==
  ASSUME Shape, NEW p \in Actors, NEW l \in Lists, l = arg[p].list, Remove4(p), Result(p, l)
  PROVE  Local(p, l) /\ Result(p, l)' /\ Keeps(p, l)
<1> DEFINE n == arg[p].node
           M == Members(l)
           R == Repaired(p)
<1>1. /\ pc[p] = "Remove4" /\ M \subseteq Nodes /\ l \in Addresses /\ l + LH_TAIL \in Addresses
      /\ n \in Nodes /\ where[n] = p /\ Mine(p, l, n)
      /\ A0(p) \in Firsts(l) /\ A1(p) \in Lasts(l)
  BY AddressAssumption DEF Result, NodeOf, RegistersOf, Adding, Removing, Removed, Remove4, Step, Finish, At,
                           Mine, Members, Addresses
<1>2. /\ pc' = [pc EXCEPT ![p] = "idle"] /\ arg' = [arg EXCEPT ![p] = NoArg] /\ ready' = ready
      /\ reg' = [reg EXCEPT ![p] = Scratch]
      /\ Store(A0(p) + LN_PRED, A1(p)) /\ where' = where
  BY <1>1 DEF Remove4, Step, Finish, Goto
<1>f. Owed(p) = [at |-> A0(p) + LN_PRED, val |-> A1(p)] /\ Whole(l, R, M)
  BY <1>1 DEF Owed, Result
<1>g. OwnWord(p, l, A0(p) + LN_PRED)
  BY <1>1, AddressAssumption DEF OwnWord, Mine, Members, Firsts, Lasts, LH_TAIL, LN_PRED, LH_TAILPRED
<1>h. A1(p) \in Addresses
  BY <1>1 DEF Addresses, Firsts, Lasts, Members
<1>3. OwnWords(p, l) /\ mem' = R
  <2>1. OwnWords(p, l)
    BY <1>2, <1>g, <1>h, OwnStore
  <2>2. mem' = R
    BY <1>2, <1>f DEF Repaired, Store
  <2>. QED
    BY <2>1, <2>2
<1>4. Local(p, l)
  <2>1. OwnNodes(p, l)
    BY <1>1, <1>2, OwnSame
  <2>. QED
    BY <1>2, <1>3, <2>1 DEF Local, OwnRegisters, Shape
<1>5. Shape'
  BY <1>4, LocalShape
<1>6. pc'[p] = "idle" /\ Members(l)' = M
  BY <1>1, <1>2 DEF Shape, Members
<1>. QED
  BY <1>2, <1>3, <1>4, <1>5, <1>6, <1>f, EndsKeeping

\* The last store is the one owed.
LEMMA RemHead4Links ==
  ASSUME Shape, NEW p \in Actors, NEW l \in Lists, l = arg[p].list, RemHead4(p), Result(p, l)
  PROVE  Local(p, l) /\ Result(p, l)' /\ Keeps(p, l)
<1> DEFINE n == arg[p].node
           M == Members(l)
           R == Repaired(p)
<1>1. /\ pc[p] = "RemHead4" /\ M \subseteq Nodes /\ l \in Addresses /\ l + LH_TAIL \in Addresses
      /\ n \in Nodes /\ where[n] = p /\ Mine(p, l, n)
      /\ A0(p) = l /\ A1(p) \in Firsts(l)
  BY AddressAssumption DEF Result, NodeOf, RegistersOf, Adding, Removing, Removed, RemHead4, Step, Finish, At,
                           Mine, Members, Addresses
<1>2. /\ pc' = [pc EXCEPT ![p] = "idle"] /\ arg' = [arg EXCEPT ![p] = NoArg] /\ ready' = ready
      /\ reg' = [reg EXCEPT ![p] = Scratch]
      /\ Store(A1(p) + LN_PRED, l) /\ where' = where
  BY <1>1 DEF RemHead4, Step, Finish, Goto
<1>f. Owed(p) = [at |-> A1(p) + LN_PRED, val |-> l] /\ Whole(l, R, M)
  BY <1>1 DEF Owed, Result
<1>g. OwnWord(p, l, A1(p) + LN_PRED)
  BY <1>1, AddressAssumption DEF OwnWord, Mine, Members, Firsts, Lasts, LH_TAIL, LN_PRED, LH_TAILPRED
<1>h. l \in Addresses
  BY <1>1 DEF Addresses, Firsts, Lasts, Members
<1>3. OwnWords(p, l) /\ mem' = R
  <2>1. OwnWords(p, l)
    BY <1>2, <1>g, <1>h, OwnStore
  <2>2. mem' = R
    BY <1>2, <1>f DEF Repaired, Store
  <2>. QED
    BY <2>1, <2>2
<1>4. Local(p, l)
  <2>1. OwnNodes(p, l)
    BY <1>1, <1>2, OwnSame
  <2>. QED
    BY <1>2, <1>3, <2>1 DEF Local, OwnRegisters, Shape
<1>5. Shape'
  BY <1>4, LocalShape
<1>6. pc'[p] = "idle" /\ Members(l)' = M
  BY <1>1, <1>2 DEF Shape, Members
<1>. QED
  BY <1>2, <1>3, <1>4, <1>5, <1>6, <1>f, EndsKeeping

\* The last store is the one owed.
LEMMA RemHeadQ4Links ==
  ASSUME Shape, NEW p \in Actors, NEW l \in Lists, l = arg[p].list, RemHeadQ4(p), Result(p, l)
  PROVE  Local(p, l) /\ Result(p, l)' /\ Keeps(p, l)
<1> DEFINE n == arg[p].node
           M == Members(l)
           R == Repaired(p)
<1>1. /\ pc[p] = "RemHeadQ4" /\ M \subseteq Nodes /\ l \in Addresses /\ l + LH_TAIL \in Addresses
      /\ n \in Nodes /\ where[n] = p /\ Mine(p, l, n)
      /\ A0(p) = l /\ A1(p) \in Firsts(l)
  BY AddressAssumption DEF Result, NodeOf, RegistersOf, Adding, Removing, Removed, RemHeadQ4, Step, Finish, At,
                           Mine, Members, Addresses
<1>2. /\ pc' = [pc EXCEPT ![p] = "idle"] /\ arg' = [arg EXCEPT ![p] = NoArg] /\ ready' = ready
      /\ reg' = [reg EXCEPT ![p] = Scratch]
      /\ Store(A1(p) + LN_PRED, l) /\ where' = where
  BY <1>1 DEF RemHeadQ4, Step, Finish, Goto
<1>f. Owed(p) = [at |-> A1(p) + LN_PRED, val |-> l] /\ Whole(l, R, M)
  BY <1>1 DEF Owed, Result
<1>g. OwnWord(p, l, A1(p) + LN_PRED)
  BY <1>1, AddressAssumption DEF OwnWord, Mine, Members, Firsts, Lasts, LH_TAIL, LN_PRED, LH_TAILPRED
<1>h. l \in Addresses
  BY <1>1 DEF Addresses, Firsts, Lasts, Members
<1>3. OwnWords(p, l) /\ mem' = R
  <2>1. OwnWords(p, l)
    BY <1>2, <1>g, <1>h, OwnStore
  <2>2. mem' = R
    BY <1>2, <1>f DEF Repaired, Store
  <2>. QED
    BY <2>1, <2>2
<1>4. Local(p, l)
  <2>1. OwnNodes(p, l)
    BY <1>1, <1>2, OwnSame
  <2>. QED
    BY <1>2, <1>3, <2>1 DEF Local, OwnRegisters, Shape
<1>5. Shape'
  BY <1>4, LocalShape
<1>6. pc'[p] = "idle" /\ Members(l)' = M
  BY <1>1, <1>2 DEF Shape, Members
<1>. QED
  BY <1>2, <1>3, <1>4, <1>5, <1>6, <1>f, EndsKeeping

\* The last store is the one owed.
LEMMA RemTail5Links ==
  ASSUME Shape, NEW p \in Actors, NEW l \in Lists, l = arg[p].list, RemTail5(p), Result(p, l)
  PROVE  Local(p, l) /\ Result(p, l)' /\ Keeps(p, l)
<1> DEFINE n == arg[p].node
           M == Members(l)
           R == Repaired(p)
<1>1. /\ pc[p] = "RemTail5" /\ M \subseteq Nodes /\ l \in Addresses /\ l + LH_TAIL \in Addresses
      /\ n \in Nodes /\ where[n] = p /\ Mine(p, l, n)
      /\ A1(p) \in Lasts(l) /\ mem[A1(p)] = l
  BY AddressAssumption DEF Result, NodeOf, RegistersOf, Adding, Removing, Removed, RemTail5, RemTailEnds, LH_TAIL, Step, Finish, At,
                           Mine, Members, Addresses
<1>2. /\ pc' = [pc EXCEPT ![p] = "idle"] /\ arg' = [arg EXCEPT ![p] = NoArg] /\ ready' = ready
      /\ reg' = [reg EXCEPT ![p] = Scratch]
      /\ Store(A1(p), l + LH_TAIL) /\ where' = where
  BY <1>1 DEF RemTail5, RemTailEnds, LH_TAIL, Step, Finish, Goto
<1>f. Owed(p) = [at |-> A1(p), val |-> l + LH_TAIL] /\ Whole(l, R, M)
  BY <1>1 DEF Owed, Result
<1>g. OwnWord(p, l, A1(p))
  BY <1>1, AddressAssumption DEF OwnWord, Mine, Members, Firsts, Lasts, LH_TAIL, LN_PRED, LH_TAILPRED
<1>h. l + LH_TAIL \in Addresses
  BY <1>1 DEF Addresses, Firsts, Lasts, Members
<1>3. OwnWords(p, l) /\ mem' = R
  <2>1. OwnWords(p, l)
    BY <1>2, <1>g, <1>h, OwnStore
  <2>2. mem' = R
    BY <1>2, <1>f DEF Repaired, Store
  <2>. QED
    BY <2>1, <2>2
<1>4. Local(p, l)
  <2>1. OwnNodes(p, l)
    BY <1>1, <1>2, OwnSame
  <2>. QED
    BY <1>2, <1>3, <2>1 DEF Local, OwnRegisters, Shape
<1>5. Shape'
  BY <1>4, LocalShape
<1>6. pc'[p] = "idle" /\ Members(l)' = M
  BY <1>1, <1>2 DEF Shape, Members
<1>. QED
  BY <1>2, <1>3, <1>4, <1>5, <1>6, <1>f, EndsKeeping

\* REMTAIL stores the address of the list first, which is four short.
LEMMA RemTail4Links ==
  ASSUME Shape, NEW p \in Actors, NEW l \in Lists, l = arg[p].list, RemTail4(p), Result(p, l)
  PROVE  Local(p, l) /\ Result(p, l)' /\ Keeps(p, l)
<1> DEFINE n == arg[p].node
           M == Members(l)
           R == Repaired(p)
<1>1. /\ pc[p] = "RemTail4" /\ M \subseteq Nodes /\ l \in Addresses /\ l + LH_TAIL \in Addresses
      /\ n \in Nodes /\ where[n] = p /\ Mine(p, l, n) /\ A0(p) = l /\ A1(p) \in Lasts(l)
  BY AddressAssumption DEF Result, NodeOf, RegistersOf, Adding, Removing, Removed, RemTail4, Step, Finish, At,
                           Mine, Members, Addresses
<1>2. /\ pc' = [pc EXCEPT ![p] = "RemTail5"] /\ arg' = arg /\ ready' = ready
      /\ reg' = [reg EXCEPT ![p] = [a0 |-> l, a1 |-> A1(p), d0 |-> D0(p)]]
      /\ Store(A1(p), l) /\ where' = where
  BY <1>1 DEF RemTail4, Step, Finish, Goto
<1>f. /\ Owed(p) = [at |-> A1(p), val |-> l + LH_TAIL] /\ Whole(l, R, M) /\ OwnWord(p, l, A1(p))
  BY <1>1 DEF Owed, Result, OwnWord, Mine, Members, Lasts
<1>3. OwnWords(p, l) /\ mem'[A1(p)] = l /\ \A w : w # A1(p) => mem'[w] = mem[w]
  BY <1>1, <1>2, <1>f, OwnStore
<1>4. Local(p, l)
  <2>1. OwnNodes(p, l)
    BY <1>1, <1>2, OwnSame
  <2>. QED
    BY <1>2, <1>3, <2>1 DEF Local, OwnRegisters, Shape
<1>5. Shape'
  BY <1>4, LocalShape
<1>6. /\ pc'[p] = "RemTail5" /\ A0(p)' = l /\ A1(p)' = A1(p) /\ D0(p)' = D0(p)
      /\ arg'[p] = arg[p] /\ where' = where /\ Members(l)' = M
  BY <1>1, <1>2 DEF Shape, A0, A1, D0, Members
<1>7. NodeOf(p)' /\ RegistersOf(p)'
  BY <1>1, <1>3, <1>6 DEF NodeOf, RegistersOf, Adding, Removing, Removed, Lasts
<1>8. Keeps(p, l)
  <2>1. Owed(p)' = Owed(p)
    BY <1>1, <1>f, <1>6 DEF Owed
  <2>2. \A w \in Words : Repaired(p)'[w] = R[w]
    BY <2>1, <1>3, <1>5, <1>f DEF Shape, Repaired
  <2>3. SameLinks(l, M, R, Repaired(p)')
    BY <1>1, <2>2, CellsApart DEF SameLinks, SameBut
  <2>. QED
    BY <2>3, <1>6 DEF Keeps
<1>. QED
  BY <1>4, <1>7, <1>8, <1>f, KeepsWhole DEF Result

\* The macro ends on an empty list, and goes on with a node of any other.
LEMMA RemHead2Links ==
  ASSUME Shape, NEW p \in Actors, NEW l \in Lists, l = arg[p].list, RemHead2(p), Result(p, l)
  PROVE  Local(p, l) /\ Result(p, l)' /\ Keeps(p, l)
<1> DEFINE n == arg[p].node
           M == Members(l)
<1>1. pc[p] = "RemHead2" /\ A0(p) = l /\ A1(p) = mem[l] /\ n = NodeOr0(mem[l])
  BY DEF Result, NodeOf, RegistersOf, Adding, Removing, Removed, RemHead2, At, Step, Finish
<1>2. mem' = mem /\ where' = where /\ ready' = ready
  BY DEF RemHead2
<1>3. OwnWords(p, l) /\ OwnNodes(p, l) /\ Members(l)' = M
  BY <1>2, OwnSame DEF Members
<1>f. Repaired(p) = mem /\ Whole(l, mem, M) /\ M \subseteq Nodes
  BY <1>1, NothingOwed DEF Owed, Result, Members
<1>4. CASE mem[mem[l]] = 0
  <2>1. /\ pc' = [pc EXCEPT ![p] = "idle"] /\ arg' = [arg EXCEPT ![p] = NoArg]
        /\ reg' = [reg EXCEPT ![p] = Scratch]
    BY <1>1, <1>4 DEF RemHead2, Finish, Goto
  <2>2. Local(p, l)
    BY <1>2, <1>3, <2>1 DEF Local, OwnRegisters, Shape
  <2>3. Shape'
    BY <2>2, LocalShape
  <2>4. pc'[p] = "idle"
    BY <2>1 DEF Shape
  <2>. QED
    BY <1>2, <1>f, <2>2, <2>3, <2>4, EndsKeeping
<1>5. CASE mem[mem[l]] # 0
  <2>1. /\ pc' = [pc EXCEPT ![p] = "RemHead3"] /\ arg' = arg
        /\ reg' = [reg EXCEPT ![p] = [a0 |-> l, a1 |-> mem[l], d0 |-> mem[mem[l]]]]
    BY <1>1, <1>5 DEF RemHead2, Step, Goto
  <2>2. Local(p, l)
    BY <1>2, <1>3, <2>1 DEF Local, OwnRegisters, Shape
  <2>3. Shape'
    BY <2>2, LocalShape
  <2>4. mem[l] \in M /\ n = mem[l] /\ where[n] = l
    <3>1. M # {}
      BY <1>5, <1>f, WholeFacts
    <3>2. mem[l] \in M
      BY <3>1, <1>f, WholeFacts
    <3>. QED
      BY <3>2, <1>1, <1>f DEF NodeOr0, Members
  <2>5. /\ pc'[p] = "RemHead3" /\ A0(p)' = l /\ A1(p)' = n /\ D0(p)' = mem[n] /\ arg'[p] = arg[p]
    BY <2>1, <2>4 DEF Shape, A0, A1, D0
  <2>6. NodeOf(p)' /\ RegistersOf(p)'
    BY <1>2, <1>f, <2>4, <2>5 DEF NodeOf, RegistersOf, Adding, Removing, Removed
  <2>7. Repaired(p)' = mem'
    BY <2>3, <2>5, InWords DEF Owed, Repaired, Shape, None
  <2>. QED
    BY <1>2, <1>3, <1>f, <2>2, <2>6, <2>7 DEF Result, Keeps, SameLinks, SameBut
<1>. QED
  BY <1>4, <1>5

\* The macro ends on an empty list, and goes on with a node of any other.
LEMMA RemTail2Links ==
  ASSUME Shape, NEW p \in Actors, NEW l \in Lists, l = arg[p].list, RemTail2(p), Result(p, l)
  PROVE  Local(p, l) /\ Result(p, l)' /\ Keeps(p, l)
<1> DEFINE n == arg[p].node
           M == Members(l)
<1>1. pc[p] = "RemTail2" /\ A0(p) = l /\ A1(p) = mem[l + LH_TAILPRED] /\ n = NodeOr0(mem[l + LH_TAILPRED])
  BY DEF Result, NodeOf, RegistersOf, Adding, Removing, Removed, RemTail2, At, Step, Finish
<1>2. mem' = mem /\ where' = where /\ ready' = ready
  BY DEF RemTail2
<1>3. OwnWords(p, l) /\ OwnNodes(p, l) /\ Members(l)' = M
  BY <1>2, OwnSame DEF Members
<1>f. Repaired(p) = mem /\ Whole(l, mem, M) /\ M \subseteq Nodes
  BY <1>1, NothingOwed DEF Owed, Result, Members
<1>4. CASE mem[mem[l + LH_TAILPRED] + LN_PRED] = 0
  <2>1. /\ pc' = [pc EXCEPT ![p] = "idle"] /\ arg' = [arg EXCEPT ![p] = NoArg]
        /\ reg' = [reg EXCEPT ![p] = Scratch]
    BY <1>1, <1>4 DEF RemTail2, Finish, Goto
  <2>2. Local(p, l)
    BY <1>2, <1>3, <2>1 DEF Local, OwnRegisters, Shape
  <2>3. Shape'
    BY <2>2, LocalShape
  <2>4. pc'[p] = "idle"
    BY <2>1 DEF Shape
  <2>. QED
    BY <1>2, <1>f, <2>2, <2>3, <2>4, EndsKeeping
<1>5. CASE mem[mem[l + LH_TAILPRED] + LN_PRED] # 0
  <2>1. /\ pc' = [pc EXCEPT ![p] = "RemTail3"] /\ arg' = arg
        /\ reg' = [reg EXCEPT ![p] = [a0 |-> l, a1 |-> mem[l + LH_TAILPRED], d0 |-> mem[mem[l + LH_TAILPRED] + LN_PRED]]]
    BY <1>1, <1>5 DEF RemTail2, Step, Goto
  <2>2. Local(p, l)
    BY <1>2, <1>3, <2>1 DEF Local, OwnRegisters, Shape
  <2>3. Shape'
    BY <2>2, LocalShape
  <2>4. mem[l + LH_TAILPRED] \in M /\ n = mem[l + LH_TAILPRED] /\ where[n] = l
    <3>1. M # {}
      BY <1>5, <1>f, WholeFacts
    <3>2. l + LH_TAIL + LN_PRED = l + LH_TAILPRED
      BY AddressAssumption DEF LH_TAIL, LN_PRED, LH_TAILPRED
    <3>3. mem[l + LH_TAILPRED] \in M
      BY <3>1, <3>2, <1>f, WholeFacts
    <3>. QED
      BY <3>3, <1>1, <1>f DEF NodeOr0, Members
  <2>5. /\ pc'[p] = "RemTail3" /\ A0(p)' = l /\ A1(p)' = n /\ D0(p)' = mem[n + LN_PRED] /\ arg'[p] = arg[p]
    BY <2>1, <2>4 DEF Shape, A0, A1, D0
  <2>6. NodeOf(p)' /\ RegistersOf(p)'
    BY <1>2, <1>f, <2>4, <2>5 DEF NodeOf, RegistersOf, Adding, Removing, Removed
  <2>7. Repaired(p)' = mem'
    BY <2>3, <2>5, InWords DEF Owed, Repaired, Shape, None
  <2>. QED
    BY <1>2, <1>3, <1>f, <2>2, <2>6, <2>7 DEF Result, Keeps, SameLinks, SameBut
<1>. QED
  BY <1>4, <1>5

\* TSTLST2 only reads.
LEMMA TstLst2_2Links ==
  ASSUME Shape, NEW p \in Actors, NEW l \in Lists, l = arg[p].list, TstLst2_2(p), Result(p, l)
  PROVE  Local(p, l) /\ Result(p, l)' /\ Keeps(p, l)
<1>1. /\ pc[p] = "TstLst2_2" /\ mem' = mem /\ where' = where /\ ready' = ready
      /\ pc' = [pc EXCEPT ![p] = "idle"] /\ arg' = [arg EXCEPT ![p] = NoArg]
      /\ reg' = [reg EXCEPT ![p] = Scratch]
  BY DEF TstLst2_2, Finish, At, Goto
<1>2. Repaired(p) = mem /\ Whole(l, mem, Members(l))
  BY <1>1, NothingOwed DEF Owed, Result
<1>3. Local(p, l)
  BY <1>1, OwnSame DEF Local, OwnRegisters, Shape
<1>4. Shape' /\ pc'[p] = "idle" /\ Members(l)' = Members(l)
  BY <1>1, <1>3, LocalShape DEF Shape, Members
<1>. QED
  BY <1>1, <1>2, <1>3, <1>4, EndsKeeping

(***************************************************************************)
(* Where macros begin, and NEWLIST                                         *)
(***************************************************************************)

\* The second label of each macro: where its first instruction leads.
Starts == {"AddHead2", "AddTail2", "Remove2", "RemHead2", "RemHeadQ2", "RemTail2", "TstLst2_2"}

\* p goes from idle to a label, with registers r and arguments g.
Called(p, label, r, g) ==
  /\ mem' = mem /\ where' = where /\ ready' = ready /\ pc[p] = "idle"
  /\ pc' = [pc EXCEPT ![p] = label]
  /\ reg' = [reg EXCEPT ![p] = r] /\ arg' = [arg EXCEPT ![p] = g]

\* A first instruction leaves a whole list whole.
LEMMA CallResult ==
  ASSUME Shape, NEW p \in Actors, NEW l \in Lists, Whole(l, mem, Members(l)),
         NEW label \in Starts, NEW r, NEW g, Called(p, label, r, g)
  PROVE  /\ Local(p, l) /\ Whole(l, Repaired(p)', Members(l)') /\ Keeps(p, l)
         /\ pc'[p] = label /\ reg'[p] = r /\ arg'[p] = g
<1> USE DEF Called
<1>1. Local(p, l)
  BY OwnSame DEF Local, OwnRegisters, Shape
<1>2. Shape'
  BY <1>1, LocalShape
<1>3. pc'[p] = label /\ reg'[p] = r /\ arg'[p] = g
  BY DEF Shape
<1>4. Owed(p)' = None
  BY <1>3 DEF Owed, Starts
<1>5. Repaired(p)' = mem /\ Repaired(p) = mem /\ Members(l)' = Members(l)
  <2>1. Owed(p) = None
    BY DEF Owed
  <2>. QED
    BY <1>2, <1>4, <2>1, InWords DEF Shape, Repaired, None, Members
<1>6. Keeps(p, l)
  BY <1>5 DEF Keeps, SameLinks, SameBut
<1>. QED
  BY <1>1, <1>3, <1>5, <1>6

\* Each first instruction loads the registers its macro needs.
LEMMA CallLinks ==
  ASSUME Shape, NEW p \in Actors, NEW l \in Lists, Whole(l, mem, Members(l)),
         \/ \E n \in Nodes : AddHead1(p, l, n) \/ AddTail1(p, l, n) \/ (where[n] = l /\ Remove1(p, n))
         \/ RemHead1(p, l) \/ (RemHeadQ1(p, l) /\ Members(l) # {}) \/ RemTail1(p, l) \/ TstLst2_1(p, l)
  PROVE  /\ Local(p, l) /\ Result(p, l)' /\ ready' = ready /\ Keeps(p, l)
         /\ pc[p] = "idle" /\ pc'[p] \in MacroLabels /\ arg'[p].list = l
<1> USE DEF Starts
<1> DEFINE Done == /\ Local(p, l) /\ Result(p, l)' /\ ready' = ready /\ Keeps(p, l)
                   /\ pc[p] = "idle" /\ pc'[p] \in MacroLabels /\ arg'[p].list = l
<1>1. ASSUME NEW n \in Nodes, AddHead1(p, l, n) PROVE Done
  <2>1. Called(p, "AddHead2",
               [a0 |-> l, a1 |-> n, d0 |-> mem[l]],
               [list |-> l, node |-> n])
    BY <1>1 DEF AddHead1, Called, Call, Step, At, Goto
  <2>0. where[n] = p
    BY <1>1 DEF AddHead1
  <2>2. /\ Local(p, l) /\ Whole(l, Repaired(p)', Members(l)') /\ Keeps(p, l)
        /\ pc'[p] = "AddHead2" /\ reg'[p] = [a0 |-> l, a1 |-> n, d0 |-> mem[l]]
        /\ arg'[p] = [list |-> l, node |-> n]
    BY <2>1, CallResult
  <2>. QED
    BY <2>0, <2>1, <2>2 DEF Called, Result, NodeOf, RegistersOf, Adding, Removing, Removed, A0, A1, D0, MacroLabels
<1>2. ASSUME NEW n \in Nodes, AddTail1(p, l, n) PROVE Done
  <2>1. Called(p, "AddTail2",
               [a0 |-> l + LH_TAIL, a1 |-> n, d0 |-> mem[l + LH_TAIL + LN_PRED]],
               [list |-> l, node |-> n])
    BY <1>2 DEF AddTail1, Called, Call, Step, At, Goto
  <2>0. where[n] = p
    BY <1>2 DEF AddTail1
  <2>2. /\ Local(p, l) /\ Whole(l, Repaired(p)', Members(l)') /\ Keeps(p, l) /\ pc'[p] = "AddTail2"
        /\ reg'[p] = [a0 |-> l + LH_TAIL, a1 |-> n, d0 |-> mem[l + LH_TAIL + LN_PRED]]
        /\ arg'[p] = [list |-> l, node |-> n]
    BY <2>1, CallResult
  <2>3. l + LH_TAIL + LN_PRED = l + LH_TAILPRED
    BY AddressAssumption DEF LH_TAIL, LN_PRED, LH_TAILPRED
  <2>. QED
    BY <2>0, <2>1, <2>2, <2>3 DEF Called, Result, NodeOf, RegistersOf, Adding, Removing, Removed, A0, A1, D0, MacroLabels
<1>3. ASSUME NEW n \in Nodes, where[n] = l, Remove1(p, n) PROVE Done
  <2>1. Called(p, "Remove2",
               [a0 |-> mem[n], a1 |-> n + LN_PRED, d0 |-> D0(p)],
               [list |-> l, node |-> n])
    BY <1>3 DEF Remove1, RemoveCall, Called, Call, Step, At, Goto
  <2>2. /\ Local(p, l) /\ Whole(l, Repaired(p)', Members(l)') /\ Keeps(p, l) /\ pc'[p] = "Remove2"
        /\ reg'[p] = [a0 |-> mem[n], a1 |-> n + LN_PRED, d0 |-> D0(p)]
        /\ arg'[p] = [list |-> l, node |-> n]
    BY <2>1, CallResult
  <2>. QED
    BY <1>3, <2>1, <2>2 DEF Called, Result, NodeOf, RegistersOf, Adding, Removing, Removed, A0, A1, MacroLabels
<1>4. ASSUME RemHead1(p, l) PROVE Done
  <2>1. Called(p, "RemHead2",
               [a0 |-> l, a1 |-> mem[l], d0 |-> D0(p)],
               [list |-> l, node |-> NodeOr0(mem[l])])
    BY <1>4 DEF RemHead1, Called, Call, Step, At, Goto
  <2>2. /\ Local(p, l) /\ Whole(l, Repaired(p)', Members(l)') /\ Keeps(p, l) /\ pc'[p] = "RemHead2"
        /\ reg'[p] = [a0 |-> l, a1 |-> mem[l], d0 |-> D0(p)]
        /\ arg'[p] = [list |-> l, node |-> NodeOr0(mem[l])]
    BY <2>1, CallResult
  <2>. QED
    BY <2>1, <2>2 DEF Called, Result, NodeOf, RegistersOf, Adding, Removing, Removed, A0, A1, MacroLabels
<1>5. ASSUME RemHeadQ1(p, l), Members(l) # {} PROVE Done
  <2>1. Called(p, "RemHeadQ2",
               [a0 |-> l, a1 |-> A1(p), d0 |-> mem[l]],
               [list |-> l, node |-> NodeOr0(mem[l])])
    BY <1>5 DEF RemHeadQ1, Called, Call, Step, At, Goto
  <2>2. /\ Local(p, l) /\ Whole(l, Repaired(p)', Members(l)') /\ Keeps(p, l) /\ pc'[p] = "RemHeadQ2"
        /\ reg'[p] = [a0 |-> l, a1 |-> A1(p), d0 |-> mem[l]]
        /\ arg'[p] = [list |-> l, node |-> NodeOr0(mem[l])]
    BY <2>1, CallResult
  <2>3. mem[l] \in Members(l)
    BY <1>5, WholeFacts
  <2>4. mem[l] \in Nodes /\ where[mem[l]] = l /\ NodeOr0(mem[l]) = mem[l]
    BY <2>3 DEF Members, NodeOr0
  <2>. QED
    BY <2>1, <2>2, <2>4 DEF Called, Result, NodeOf, RegistersOf, Adding, Removing, Removed, A0, D0, MacroLabels
<1>6. ASSUME RemTail1(p, l) PROVE Done
  <2>1. Called(p, "RemTail2",
               [a0 |-> l, a1 |-> mem[l + LH_TAILPRED], d0 |-> D0(p)],
               [list |-> l, node |-> NodeOr0(mem[l + LH_TAILPRED])])
    BY <1>6 DEF RemTail1, Called, Call, Step, At, Goto
  <2>2. /\ Local(p, l) /\ Whole(l, Repaired(p)', Members(l)') /\ Keeps(p, l) /\ pc'[p] = "RemTail2"
        /\ reg'[p] = [a0 |-> l, a1 |-> mem[l + LH_TAILPRED], d0 |-> D0(p)]
        /\ arg'[p] = [list |-> l, node |-> NodeOr0(mem[l + LH_TAILPRED])]
    BY <2>1, CallResult
  <2>. QED
    BY <2>1, <2>2 DEF Called, Result, NodeOf, RegistersOf, Adding, Removing, Removed, A0, A1, MacroLabels
<1>7. ASSUME TstLst2_1(p, l) PROVE Done
  <2>1. Called(p, "TstLst2_2",
               [a0 |-> A0(p), a1 |-> mem[l], d0 |-> D0(p)],
               [list |-> l, node |-> 0])
    BY <1>7 DEF TstLst2_1, Called, Call, Step, At, Goto
  <2>2. /\ Local(p, l) /\ Whole(l, Repaired(p)', Members(l)') /\ Keeps(p, l) /\ pc'[p] = "TstLst2_2"
        /\ reg'[p] = [a0 |-> A0(p), a1 |-> mem[l], d0 |-> D0(p)]
        /\ arg'[p] = [list |-> l, node |-> 0]
    BY <2>1, CallResult
  <2>. QED
    BY <2>1, <2>2 DEF Called, Result, NodeOf, RegistersOf, Adding, Removing, Removed, A1, MacroLabels
<1>. QED
  BY <1>1, <1>2, <1>3, <1>4, <1>5, <1>6, <1>7

\* NEWLIST, on a header that nobody uses yet.
Emerging(p, l) == NodeOf(p) /\ RegistersOf(p) /\ Members(l) = {}

\* NEWLIST points the header's tail predecessor at the header.
LEMMA NewList1Links ==
  ASSUME Shape, NEW p \in Actors, NEW l \in Lists, NewList1(p, l), Members(l) = {}
  PROVE  /\ Local(p, l) /\ Emerging(p, l)' /\ ready'[l] = "initialising"
         /\ pc[p] = "idle" /\ pc'[p] \in NewListLabels /\ arg'[p].list = l
<1>1. /\ pc' = [pc EXCEPT ![p] = "NewList2"] /\ arg' = [arg EXCEPT ![p] = [list |-> l, node |-> 0]]
      /\ reg' = [reg EXCEPT ![p] = [a0 |-> l, a1 |-> A1(p), d0 |-> D0(p)]] /\ pc[p] = "idle"
      /\ Store(l + LH_TAILPRED, l) /\ where' = where /\ ready' = [ready EXCEPT ![l] = "initialising"]
  BY DEF NewList1, Call, Step, At, Goto
<1>2. OwnWords(p, l) /\ mem'[l + LH_TAILPRED] = l
  <2>1. OwnWord(p, l, l + LH_TAILPRED) /\ l \in Addresses
    BY DEF OwnWord, Addresses
  <2>. QED
    BY <1>1, <2>1, OwnStore
<1>3. Local(p, l)
  BY <1>1, <1>2, OwnSame DEF Local, OwnRegisters, Shape
<1>4. /\ pc'[p] = "NewList2" /\ arg'[p] = [list |-> l, node |-> 0] /\ ready'[l] = "initialising"
      /\ A0(p)' = l /\ Members(l)' = {}
  BY <1>1 DEF Shape, A0, Members
<1>5. NodeOf(p)' /\ RegistersOf(p)'
  BY <1>2, <1>4 DEF NodeOf, RegistersOf, Adding, Removing, Removed
<1>. QED
  BY <1>1, <1>3, <1>4, <1>5 DEF Emerging, NewListLabels

\* It clears the tail.
LEMMA NewList2Links ==
  ASSUME Shape, NEW p \in Actors, NEW l \in Lists, l = arg[p].list, NewList2(p), Emerging(p, l),
         ready[l] = "initialising"
  PROVE  /\ Local(p, l) /\ Emerging(p, l)' /\ ready'[l] = "initialising"
         /\ pc'[p] \in NewListLabels /\ arg'[p].list = l
<1>1. pc[p] = "NewList2" /\ A0(p) = l /\ mem[l + LH_TAILPRED] = l
  BY DEF NewList2, Step, At, Emerging, RegistersOf
<1>2. /\ pc' = [pc EXCEPT ![p] = "NewList3"] /\ arg' = arg
      /\ reg' = [reg EXCEPT ![p] = [a0 |-> l + LH_TAIL, a1 |-> A1(p), d0 |-> D0(p)]]
      /\ Store(l + LH_TAIL, 0) /\ where' = where /\ ready' = ready
  BY <1>1 DEF NewList2, Step, Goto, LH_TAIL
<1>3. /\ OwnWords(p, l) /\ mem'[l + LH_TAIL] = 0
      /\ \A w : w # l + LH_TAIL => mem'[w] = mem[w]
  <2>1. OwnWord(p, l, l + LH_TAIL) /\ 0 \in Addresses
    BY DEF OwnWord, Addresses
  <2>. QED
    BY <1>2, <2>1, OwnStore
<1>4. Local(p, l)
  BY <1>2, <1>3, OwnSame DEF Local, OwnRegisters, Shape
<1>5. /\ pc'[p] = "NewList3" /\ arg'[p] = arg[p] /\ ready'[l] = "initialising"
      /\ A0(p)' = l + LH_TAIL /\ Members(l)' = {}
  BY <1>2 DEF Shape, A0, Members, Emerging
<1>6. l + LH_TAILPRED # l + LH_TAIL
  BY AddressAssumption DEF LH_TAIL, LH_TAILPRED
<1>7. NodeOf(p)' /\ RegistersOf(p)'
  BY <1>1, <1>3, <1>5, <1>6 DEF NodeOf, RegistersOf, Adding, Removing, Removed
<1>. QED
  BY <1>4, <1>5, <1>7 DEF Emerging, NewListLabels

\* It points the head at the tail: the list is whole and empty.
LEMMA NewList3Links ==
  ASSUME Shape, NEW p \in Actors, NEW l \in Lists, l = arg[p].list, NewList3(p), Emerging(p, l)
  PROVE  Local(p, l) /\ Result(p, l)' /\ ready'[l] = "usable"
<1>1. pc[p] = "NewList3" /\ A0(p) = l + LH_TAIL /\ mem[l + LH_TAILPRED] = l /\ mem[l + LH_TAIL] = 0
  BY DEF NewList3, NewListEnds, Finish, At, Emerging, RegistersOf
<1>2. /\ pc' = [pc EXCEPT ![p] = "idle"] /\ arg' = [arg EXCEPT ![p] = NoArg]
      /\ reg' = [reg EXCEPT ![p] = Scratch]
      /\ Store(l, l + LH_TAIL) /\ where' = where /\ ready' = [ready EXCEPT ![l] = "usable"]
  BY <1>1, AddressAssumption DEF NewList3, NewListEnds, Finish, Goto, LH_TAIL
<1>3. /\ OwnWords(p, l) /\ mem'[l] = l + LH_TAIL /\ \A w : w # l => mem'[w] = mem[w]
  <2>1. OwnWord(p, l, l) /\ l + LH_TAIL \in Addresses
    BY DEF OwnWord, Addresses
  <2>. QED
    BY <1>2, <2>1, OwnStore
<1>4. Local(p, l)
  BY <1>2, <1>3, OwnSame DEF Local, OwnRegisters, Shape
<1>5. Shape' /\ pc'[p] = "idle" /\ ready'[l] = "usable" /\ Members(l)' = {}
  BY <1>2, <1>4, LocalShape DEF Shape, Members, Emerging
<1>6. l + LH_TAIL # l /\ l + LH_TAILPRED # l
  BY AddressAssumption DEF LH_TAIL, LH_TAILPRED
<1>7. Whole(l, mem', {})
  BY <1>1, <1>3, <1>6, WholeNew
<1>. QED
  BY <1>4, <1>5, <1>7, EndsWhole

(***************************************************************************)
(* What a step on one list leaves of another                               *)
(***************************************************************************)

\* A step of p on list l leaves list k alone: its nodes stay, with their links.
LEMMA OthersKeepWords ==
  ASSUME Shape, NEW p \in Actors, NEW l \in Lists, Local(p, l), NEW k \in Lists, k # l
  PROVE  /\ Members(k)' = Members(k)
         /\ \A n \in Members(k) : mem'[n] = mem[n] /\ mem'[n + LN_PRED] = mem[n + LN_PRED]
         /\ mem'[k] = mem[k] /\ mem'[k + LH_TAIL] = mem[k + LH_TAIL]
         /\ mem'[k + LH_TAILPRED] = mem[k + LH_TAILPRED]
         /\ mem'[k + LH_TAIL + LN_PRED] = mem[k + LH_TAIL + LN_PRED]
<1>0. k # p /\ k + LH_TAIL + LN_PRED = k + LH_TAILPRED
  BY AddressAssumption DEF LH_TAIL, LN_PRED, LH_TAILPRED
<1>1. ASSUME NEW n \in Nodes
      PROVE  /\ where[n] = k => ~Mine(p, l, n)
             /\ where'[n] = k <=> where[n] = k
  BY <1>0 DEF Local, OwnNodes, Mine
<1>2. Members(k)' = Members(k)
  BY <1>1 DEF Members
<1>. QED
  BY <1>0, <1>1, <1>2 DEF Local, OwnWords, Members

\* So its links stay.
LEMMA OthersKeepLinks ==
  ASSUME Shape, NEW p \in Actors, NEW l \in Lists, Local(p, l), NEW k \in Lists, k # l,
         NEW m, NEW m2, \A w \in Words : mem'[w] = mem[w] => m2[w] = m[w]
  PROVE  SameLinks(k, Members(k), m, m2)
<1>1. Members(k) \subseteq Nodes
  BY DEF Members
<1>2. m2[k + LH_TAIL] = m[k + LH_TAIL]
  BY OthersKeepWords, CellsApart
<1>3. ASSUME NEW x \in Members(k) \cup {k} PROVE m2[x] = m[x]
  BY <1>1, OthersKeepWords, CellsApart
<1>4. ASSUME NEW x \in Members(k) \cup {k + LH_TAIL} PROVE m2[x + LN_PRED] = m[x + LN_PRED]
  BY <1>1, OthersKeepWords, CellsApart
<1>. QED
  BY <1>2, <1>3, <1>4 DEF SameLinks, SameBut

\* So it stays whole.
LEMMA OthersKeepWhole ==
  ASSUME Shape, NEW p \in Actors, NEW l \in Lists, Local(p, l), NEW k \in Lists, k # l,
         NEW m, NEW m2, Whole(k, m, Members(k)),
         \A w \in Words : mem'[w] = mem[w] => m2[w] = m[w]
  PROVE  Whole(k, m2, Members(k)')
BY OthersKeepLinks, OthersKeepWords, WholeFrame

\* Another actor, inside a macro on another list, still knows what it knew.
LEMMA OthersKeepRegisters ==
  ASSUME Shape, NEW p \in Actors, NEW l \in Lists, Local(p, l), NEW q \in Actors, q # p,
         NEW k \in Lists, k # l, k = arg[q].list, NodeOf(q), RegistersOf(q)
  PROVE  /\ pc'[q] = pc[q] /\ arg'[q] = arg[q] /\ reg'[q] = reg[q]
         /\ NodeOf(q)' /\ RegistersOf(q)'
<1> DEFINE n == arg[q].node
<1>1. pc'[q] = pc[q] /\ arg'[q] = arg[q] /\ reg'[q] = reg[q]
  BY DEF Local, OwnRegisters, Shape
<1>2. A0(q)' = A0(q) /\ A1(q)' = A1(q) /\ D0(q)' = D0(q)
  BY <1>1 DEF A0, A1, D0
<1>3. /\ Members(k)' = Members(k)
      /\ \A x \in Members(k) : mem'[x] = mem[x] /\ mem'[x + LN_PRED] = mem[x + LN_PRED]
      /\ mem'[k] = mem[k] /\ mem'[k + LH_TAIL] = mem[k + LH_TAIL]
      /\ mem'[k + LH_TAILPRED] = mem[k + LH_TAILPRED]
      /\ mem'[k + LH_TAIL + LN_PRED] = mem[k + LH_TAIL + LN_PRED]
  BY OthersKeepWords
<1>4. ASSUME n \in Nodes, where[n] \in {q, k}
      PROVE  where'[n] = where[n] /\ mem'[n] = mem[n] /\ mem'[n + LN_PRED] = mem[n + LN_PRED]
  <2>1. ~Mine(p, l, n)
    BY <1>4, AddressAssumption DEF Mine
  <2>. QED
    BY <1>4, <2>1 DEF Local, OwnNodes, OwnWords
<1>5. NodeOf(q)'
  BY <1>1, <1>3, <1>4 DEF NodeOf, Adding, Removing, Removed
<1>6. /\ Firsts(k)' = Firsts(k) /\ Lasts(k)' = Lasts(k)
      /\ \A x \in Firsts(k) : mem'[x + LN_PRED] = mem[x + LN_PRED]
      /\ \A x \in Lasts(k) : mem'[x] = mem[x]
  BY <1>3 DEF Firsts, Lasts
<1>7. RegistersOf(q)'
  <2> HIDE DEF n
  <2>1. Adding(q) \/ Removed(q) \/ Removing(q) => n \in Nodes /\ where[n] \in {q, k}
    BY DEF NodeOf, n
  <2>2. Adding(q) \/ Removed(q) \/ Removing(q) => mem'[n] = mem[n] /\ mem'[n + LN_PRED] = mem[n + LN_PRED]
    BY <2>1, <1>4
  <2>. QED
    BY <1>1, <1>2, <1>3, <2>2, <1>6 DEF RegistersOf, Adding, Removing, Removed, n
<1>. QED
  BY <1>1, <1>5, <1>7

\* What another actor owes, it still owes.
LEMMA OthersKeepOwed ==
  ASSUME Shape, NEW p \in Actors, NEW l \in Lists, Local(p, l), NEW q \in Actors, q # p
  PROVE  \A w \in Words : mem'[w] = mem[w] => Repaired(q)'[w] = Repaired(q)[w]
<1>1. pc'[q] = pc[q] /\ arg'[q] = arg[q] /\ reg'[q] = reg[q]
  BY DEF Local, OwnRegisters, Shape
<1>2. Owed(q)' = Owed(q)
  BY <1>1 DEF Owed, A0, A1, D0
<1>3. mem \in [Words -> Addresses] /\ mem' \in [Words -> Addresses]
  BY DEF Shape, Local, OwnWords
<1>. QED
  BY <1>2, <1>3 DEF Repaired

\* Another actor's list will still be whole.
LEMMA OthersKeepResult ==
  ASSUME Shape, NEW p \in Actors, NEW l \in Lists, Local(p, l), NEW q \in Actors, q # p,
         NEW k \in Lists, k # l, k = arg[q].list, Result(q, k)
  PROVE  Result(q, k)'
<1>1. NodeOf(q)' /\ RegistersOf(q)'
  BY OthersKeepRegisters DEF Result
<1>2. Whole(k, Repaired(q)', Members(k)')
  BY OthersKeepOwed, OthersKeepWhole DEF Result
<1>. QED
  BY <1>1, <1>2 DEF Result

(***************************************************************************)
(* The pointers' invariant, and the two kinds of steps                     *)
(***************************************************************************)

\* A list nobody is inside a macro on is whole; a header not made yet has no nodes.
FreeWhole ==
  \A l \in Lists :
    IF ready[l] = "usable"
    THEN (\A p \in Actors : ~Busy(p, l)) => Whole(l, mem, Members(l))
    ELSE Members(l) = {}

\* A list somebody is inside a macro on will be whole.
BusySound ==
  \A p \in Actors : pc[p] \in MacroLabels => Result(p, arg[p].list)

\* So will a header NEWLIST is making.
NewSound ==
  \A p \in Actors : pc[p] \in NewListLabels => NodeOf(p) /\ RegistersOf(p)

\* The pointers' part of the inductive invariant.
LinksInv == Shape /\ FreeWhole /\ BusySound /\ NewSound

\* The steps that are not about the pointers, and those p takes on list l.
Outside ==
  /\ UNCHANGED <<mem, reg, arg, where, ready>> /\ pc' = [q \in Actors |-> pc'[q]]
  /\ \A q \in Actors : \/ pc'[q] = pc[q]
                       \/ pc[q] \notin MacroLabels \cup NewListLabels
                          /\ pc'[q] \in {"idle", "Disable2", "Enable2"}

\* What p's step on list l leaves behind.
After(p, l) ==
  IF pc'[p] \in NewListLabels
  THEN arg'[p].list = l /\ Emerging(p, l)' /\ ready'[l] = "initialising"
  ELSE Result(p, l)' /\ ready'[l] = "usable" /\ (pc'[p] = "idle" \/ (pc'[p] \in MacroLabels /\ arg'[p].list = l))

\* A step of p, and of nobody else, on list l.
Moves(p, l) ==
  /\ Local(p, l) /\ After(p, l)
  /\ pc[p] = "idle" \/ (pc[p] \in MacroLabels \cup NewListLabels /\ arg[p].list = l)
  /\ \A q \in Actors : Busy(q, l) => q = p

\* Steps outside macros keep the pointers right.
LEMMA OutsideLinks ==
  ASSUME LinksInv, HoldInv, Outside
  PROVE  LinksInv'
<1>1. Shape'
  BY DEF LinksInv, Shape, Outside
<1>2. \A l \in Lists : Members(l)' = Members(l)
  BY DEF Outside, Members
<1>3. \A q \in Actors : pc'[q] \in MacroLabels \cup NewListLabels => pc'[q] = pc[q]
  BY DEF Outside, MacroLabels, NewListLabels
<1>4. \A q \in Actors, l \in Lists : Busy(q, l) => Busy(q, l)'
  BY DEF Outside, Busy, HoldInv, Domains
<1>5. FreeWhole'
  BY <1>2, <1>4 DEF FreeWhole, LinksInv, Outside
<1>6. ASSUME NEW q \in Actors, pc'[q] \in MacroLabels \cup NewListLabels
      PROVE  /\ NodeOf(q) => NodeOf(q)'
             /\ RegistersOf(q) => RegistersOf(q)'
             /\ Repaired(q)' = Repaired(q)
  <2>1. pc'[q] = pc[q] /\ arg' = arg /\ A0(q)' = A0(q) /\ A1(q)' = A1(q) /\ D0(q)' = D0(q) /\ mem' = mem /\ where' = where
    BY <1>3, <1>6 DEF Outside, A0, A1, D0
  <2>2. \A l \in Lists : Firsts(l)' = Firsts(l) /\ Lasts(l)' = Lasts(l)
    BY <1>2 DEF Firsts, Lasts
  <2>3. arg[q].list \in Lists
    BY <1>3, <1>6 DEF HoldInv, BusyOwns, BusyInitialises
  <2>. QED
    BY <2>1, <2>2, <2>3 DEF NodeOf, RegistersOf, Adding, Removing, Removed, Repaired, Owed
<1>7. BusySound'
  <2> SUFFICES ASSUME NEW q \in Actors, pc'[q] \in MacroLabels PROVE Result(q, arg[q].list)'
    BY DEF BusySound
  <2>1. pc[q] \in MacroLabels /\ arg' = arg
    BY <1>3 DEF Outside
  <2>2. Result(q, arg[q].list) /\ arg[q].list \in Lists
    BY <2>1 DEF LinksInv, BusySound, HoldInv, BusyOwns
  <2>. QED
    BY <2>1, <2>2, <1>2, <1>6 DEF Result
<1>8. NewSound'
  BY <1>3, <1>6 DEF LinksInv, NewSound
<1>. QED
  BY <1>1, <1>5, <1>7, <1>8 DEF LinksInv

\* A step on one list keeps all of them right.
LEMMA MovesLinks ==
  ASSUME LinksInv, HoldInv, NEW p \in Actors, NEW l \in Lists, Moves(p, l)
  PROVE  LinksInv'
<1>0. Shape /\ Local(p, l)
  BY DEF LinksInv, Moves
<1>1. Shape'
  BY <1>0, LocalShape
<1>2. ASSUME NEW q \in Actors, q # p
      PROVE  pc'[q] = pc[q] /\ arg'[q] = arg[q]
  BY <1>0, <1>2 DEF Local, OwnRegisters, Shape
<1>3. ASSUME NEW q \in Actors, q # p, pc[q] \in MacroLabels \cup NewListLabels
      PROVE  arg[q].list \in Lists /\ arg[q].list # l
  BY <1>3 DEF HoldInv, BusyOwns, BusyInitialises, Moves, Busy, MacroLabels, NewListLabels
<1>4. ASSUME NEW k \in Lists, k # l, NEW q \in Actors
      PROVE  Busy(q, k)' <=> Busy(q, k)
  BY <1>2, <1>4 DEF Busy, Moves, After, MacroLabels, NewListLabels
<1>5. FreeWhole'
  <2>1. ASSUME NEW k \in Lists, k # l
        PROVE  IF ready'[k] = "usable"
               THEN (\A q \in Actors : ~Busy(q, k)') => Whole(k, mem', Members(k)')
               ELSE Members(k)' = {}
    <3>1. ready'[k] = ready[k]
      BY <2>1, <1>0 DEF Local, OwnRegisters
    <3>2. Members(k)' = Members(k)
      BY <2>1, <1>0, OthersKeepWords
    <3>3. CASE ready[k] = "usable"
      <4> SUFFICES ASSUME \A q \in Actors : ~Busy(q, k)' PROVE Whole(k, mem', Members(k)')
        BY <3>1, <3>3
      <4>1. Whole(k, mem, Members(k))
        BY <2>1, <3>3, <1>4 DEF LinksInv, FreeWhole
      <4>. QED
        BY <2>1, <4>1, <1>0, OthersKeepWhole
    <3>4. CASE ready[k] # "usable"
      BY <3>1, <3>2, <3>4 DEF LinksInv, FreeWhole
    <3>. QED
      BY <3>3, <3>4
  <2>2. IF ready'[l] = "usable"
        THEN (\A q \in Actors : ~Busy(q, l)') => Whole(l, mem', Members(l)')
        ELSE Members(l)' = {}
    <3>1. CASE pc'[p] \in NewListLabels
      BY <3>1 DEF Moves, After, Emerging
    <3>2. CASE pc'[p] \in MacroLabels
      BY <3>2 DEF Moves, After, MacroLabels, NewListLabels, Busy
    <3>3. CASE pc'[p] = "idle"
      <4>1. Whole(l, Repaired(p)', Members(l)') /\ ready'[l] = "usable"
        BY <3>3 DEF Moves, After, NewListLabels, Result
      <4>2. Owed(p)' = None
        BY <3>3 DEF Owed
      <4>3. Repaired(p)' = mem'
        BY <1>1, <4>2, InWords DEF Shape, Repaired, None
      <4>. QED
        BY <4>1, <4>3
    <3>. QED
      BY <3>1, <3>2, <3>3 DEF Moves, After
  <2>. QED
    BY <2>1, <2>2 DEF FreeWhole
<1>6. BusySound'
  <2> SUFFICES ASSUME NEW q \in Actors, pc'[q] \in MacroLabels PROVE Result(q, arg[q].list)'
    BY DEF BusySound
  <2>1. CASE q = p
    BY <2>1 DEF Moves, After, MacroLabels, NewListLabels
  <2>2. CASE q # p
    <3> DEFINE k == arg[q].list
    <3>1. k \in Lists /\ k # l /\ Result(q, k) /\ k' = k
      BY <2>2, <1>2, <1>3 DEF LinksInv, BusySound
    <3>2. Result(q, k)'
      BY <2>2, <3>1, <1>0, OthersKeepResult
    <3>. QED
      BY <3>2
  <2>. QED
    BY <2>1, <2>2
<1>7. NewSound'
  <2> SUFFICES ASSUME NEW q \in Actors, pc'[q] \in NewListLabels PROVE NodeOf(q)' /\ RegistersOf(q)'
    BY DEF NewSound
  <2>1. CASE q = p
    BY <2>1 DEF Moves, After, Emerging
  <2>2. CASE q # p
    <3>1. arg[q].list \in Lists /\ arg[q].list # l /\ NodeOf(q) /\ RegistersOf(q)
      BY <2>2, <1>2, <1>3 DEF LinksInv, NewSound
    <3>. QED
      BY <2>2, <3>1, <1>0, OthersKeepRegisters
  <2>. QED
    BY <2>1, <2>2
<1>. QED
  BY <1>1, <1>5, <1>6, <1>7 DEF LinksInv

(***************************************************************************)
(* Every step is of one of these kinds                                     *)
(***************************************************************************)

\* A list that p found not empty, and still owns, is not empty.
KnownInv ==
  /\ known = [p \in Actors |-> known[p]]
  /\ \A p \in Actors : known[p] # NoList =>
       /\ known[p] \in Lists /\ Usable(p, known[p]) /\ Active(p)
       /\ Members(known[p]) # {}

\* Nobody else is inside a macro on a list its owner can use.
LEMMA OwnerAlone ==
  ASSUME ListsInv, NEW p \in Actors, NEW l \in Lists, Usable(p, l), Active(p),
         NEW q \in Actors, Busy(q, l)
  PROVE  q = p /\ pc[q] \in MacroLabels
<1>1. pc[q] \in MacroLabels
  BY DEF ListsInv, HoldInv, Domains, BusyInitialises, Busy, Usable, NewListLabels, MacroLabels
<1>2. Owns(q, l)
  BY <1>1 DEF ListsInv, HoldInv, BusyOwns, Busy
<1>3. Active(q)
  BY BusyActive DEF Busy, ListsInv
<1>. QED
  BY <1>1, <1>2, <1>3, SoleOwner DEF Usable, ListsInv

\* A list that nobody is inside a macro on is whole.
LEMMA FreeListWhole ==
  ASSUME ListsInv, LinksInv, NEW p \in Actors, NEW l \in Lists, Usable(p, l), Active(p), ~Busy(p, l)
  PROVE  Whole(l, mem, Members(l))
BY OwnerAlone DEF LinksInv, FreeWhole, Usable

\* The list of a step inside a macro.
LEMMA MacroStepList ==
  ASSUME ListsInv, NEW p \in Actors, MacroStep(p)
  PROVE  \E l \in Lists : l = arg[p].list
<1>1. pc[p] \in MacroLabels \cup NewListLabels
  BY MacroStepKinds DEF Continues, Ends
<1>. QED
  BY <1>1 DEF ListsInv, HoldInv, BusyOwns, BusyInitialises

\* A step inside a macro is local.
LEMMA MacroStepLocal ==
  ASSUME LinksInv, ListsInv, NEW p \in Actors, NEW l \in Lists, l = arg[p].list,
         MacroStep(p), pc[p] \in MacroLabels
  PROVE  Local(p, l) /\ Result(p, l)'
<1>1. Result(p, l) /\ Shape
  BY DEF LinksInv, BusySound
<1>2. ~NewList2(p) /\ ~NewList3(p)
  BY DEF NewList2, NewList3, NewListEnds, Step, Finish, At, MacroLabels
<1>. QED
  <2>1. CASE AddHead2(p) \/ AddHead3(p) \/ AddHead4(p) \/ AddTail2(p) \/ AddTail3(p) \/ AddTail4(p)
    BY <1>1, <2>1, AddHead2Links, AddHead3Links, AddHead4Links, AddTail2Links, AddTail3Links, AddTail4Links
  <2>2. CASE Remove2(p) \/ Remove3(p) \/ Remove4(p) \/ TstLst2_2(p)
    BY <1>1, <2>2, Remove2Links, Remove3Links, Remove4Links, TstLst2_2Links
  <2>3. CASE RemHead2(p) \/ RemHead3(p) \/ RemHead4(p) \/ RemHeadQ2(p) \/ RemHeadQ3(p) \/ RemHeadQ4(p)
    BY <1>1, <2>3, RemHead2Links, RemHead3Links, RemHead4Links, RemHeadQ2Links, RemHeadQ3Links, RemHeadQ4Links
  <2>4. CASE RemTail2(p) \/ RemTail3(p) \/ RemTail4(p) \/ RemTail5(p)
    BY <1>1, <2>4, RemTail2Links, RemTail3Links, RemTail4Links, RemTail5Links
  <2>. QED
    BY <1>2, <2>1, <2>2, <2>3, <2>4 DEF MacroStep

\* Every step inside a macro is a step of p on its list.
LEMMA MacroStepMoves ==
  ASSUME LinksInv, ListsInv, NEW p \in Actors, NEW l \in Lists, l = arg[p].list, MacroStep(p)
  PROVE  Moves(p, l)
<1>1. pc[p] \in MacroLabels \cup NewListLabels
  BY MacroStepKinds DEF Continues, Ends
<1>2. \A q \in Actors : Busy(q, l) => q = p
  BY <1>1, ListsOneAtATime DEF OneAtATime, Busy, MacroLabels, NewListLabels
<1>3. CASE pc[p] \in MacroLabels
  <2>1. ready[l] = "usable" /\ pc[p] \notin NewListLabels
    BY <1>3 DEF ListsInv, HoldInv, BusyOwns, MacroLabels, NewListLabels
  <2>2. /\ ready' = ready
        /\ pc'[p] = "idle" \/ (pc'[p] \in MacroLabels /\ arg' = arg)
    BY <2>1, MacroStepKinds DEF Continues, Ends, Goto, LinksInv, Shape
  <2>3. pc'[p] \notin NewListLabels
    BY <2>2 DEF MacroLabels, NewListLabels
  <2>. QED
    BY <1>1, <1>2, <1>3, <2>1, <2>2, <2>3, MacroStepLocal DEF Moves, After
<1>4. CASE pc[p] \in NewListLabels
  <2>1. ready[l] = "initialising" /\ pc[p] \notin MacroLabels
    BY <1>4 DEF ListsInv, HoldInv, BusyInitialises, MacroLabels, NewListLabels
  <2>2. Shape /\ Emerging(p, l)
    BY <1>1, <1>4, <2>1 DEF LinksInv, FreeWhole, NewSound, Emerging
  <2>3. NewList2(p) \/ NewList3(p)
    BY <1>4 DEF MacroStep, NewListLabels, AddHead2, AddHead3, AddHead4, AddHeadEnds, AddTail2, AddTail3,
       AddTailLinks, AddTail4, Remove2, Remove3, Remove4, RemHead2, RemHead3, RemHeadTakes, RemHead4,
       RemHeadQ2, RemHeadQ3, RemHeadQ4, RemTail2, RemTail3, RemTail4, RemTail5, RemTailEnds, TstLst2_2,
       Step, Finish, At
  <2>4. CASE NewList2(p)
    <3>1. /\ Local(p, l) /\ Emerging(p, l)' /\ ready'[l] = "initialising"
          /\ pc'[p] \in NewListLabels /\ arg'[p].list = l
      BY <1>1, <2>1, <2>2, <2>4, NewList2Links
    <3>. QED
      BY <1>1, <1>2, <3>1 DEF Moves, After
  <2>5. CASE NewList3(p)
    <3>1. Local(p, l) /\ Result(p, l)' /\ ready'[l] = "usable"
      BY <1>1, <2>2, <2>5, NewList3Links
    <3>2. pc'[p] = "idle" /\ pc'[p] \notin NewListLabels
      BY <2>2, <2>5 DEF NewList3, NewListEnds, Finish, Goto, Shape, NewListLabels
    <3>. QED
      BY <1>1, <1>2, <3>1, <3>2 DEF Moves, After
  <2>. QED
    BY <2>3, <2>4, <2>5
<1>. QED
  BY <1>1, <1>3, <1>4

\* A macro is begun on list l.
Calls(p, l) ==
  \/ NewList1(p, l)
  \/ \E n \in Nodes : AddHead1(p, l, n) \/ AddTail1(p, l, n) \/ (where[n] = l /\ Remove1(p, n))
  \/ RemHead1(p, l) \/ RemHeadQ1(p, l) \/ RemTail1(p, l) \/ TstLst2_1(p, l)

\* A macro begins on a list its caller can use.
LEMMA CallsBegin ==
  ASSUME NEW p \in Actors, NEW l \in Lists, Calls(p, l)
  PROVE  Running(p) /\ pc[p] = "idle" /\ (NewList1(p, l) \/ Usable(p, l))
  BY DEF Calls, NewList1, AddHead1, AddTail1, Remove1, RemoveCall, RemHead1, RemHeadQ1, RemTail1, TstLst2_1,
         Call, Step, At

\* So is its first step.
LEMMA CallMoves ==
  ASSUME LinksInv, ListsInv, KnownInv, NEW p \in Actors, NEW l \in Lists, Calls(p, l)
  PROVE  Moves(p, l)
<1>1. Running(p) /\ pc[p] = "idle" /\ Active(p) /\ Shape
  BY CallsBegin, BusyActive DEF ListsInv, LinksInv
<1>2. ~Busy(p, l)
  BY <1>1 DEF Busy
<1>3. CASE NewList1(p, l)
  <2>1. ready[l] = "raw"
    BY <1>3 DEF NewList1
  <2>2. Members(l) = {}
    BY <2>1 DEF LinksInv, FreeWhole
  <2>3. /\ Local(p, l) /\ Emerging(p, l)' /\ ready'[l] = "initialising"
        /\ pc'[p] \in NewListLabels /\ arg'[p].list = l
    BY <1>1, <1>3, <2>2, NewList1Links
  <2>4. \A q \in Actors : ~Busy(q, l)
    BY <2>1 DEF Busy, ListsInv, HoldInv, Domains, BusyOwns, BusyInitialises
  <2>. QED
    BY <1>1, <2>3, <2>4 DEF Moves, After
<1>4. CASE ~NewList1(p, l)
  <2>1. Usable(p, l)
    BY <1>4, CallsBegin
  <2>2. Whole(l, mem, Members(l))
    BY <1>1, <1>2, <2>1, FreeListWhole
  <2>3. \/ \E n \in Nodes : AddHead1(p, l, n) \/ AddTail1(p, l, n) \/ (where[n] = l /\ Remove1(p, n))
        \/ RemHead1(p, l) \/ (RemHeadQ1(p, l) /\ Members(l) # {}) \/ RemTail1(p, l) \/ TstLst2_1(p, l)
    <3>1. RemHeadQ1(p, l) => Members(l) # {}
      BY AddressAssumption DEF RemHeadQ1, KnownInv, NoList
    <3>. QED
      BY <1>4, <3>1 DEF Calls
  <2>4. /\ Local(p, l) /\ Result(p, l)' /\ ready' = ready
        /\ pc'[p] \in MacroLabels /\ arg'[p].list = l
    BY <1>1, <2>2, <2>3, CallLinks
  <2>5. pc'[p] \notin NewListLabels
    BY <2>4 DEF MacroLabels, NewListLabels
  <2>6. \A q \in Actors : Busy(q, l) => q = p
    BY <1>1, <2>1, OwnerAlone
  <2>. QED
    BY <1>1, <2>1, <2>4, <2>5, <2>6 DEF Moves, After, Usable
<1>. QED
  BY <1>3, <1>4

\* Every step is one of these: a step inside a macro, its first, a test, a step of
\* a walk, or arbitration.
LEMMA StepParts ==
  ASSUME Next
  PROVE  \/ \E p \in Actors : MacroStep(p) \/ NextNode(p) \/ Acquire(p) \/ Release(p) \/ EnableEnds(p)
         \/ \E p \in Actors : \E l \in Lists : Calls(p, l) \/ TstList(p, l) \/ WalkFrom(p, l)
         \/ ServerEnters \/ ServerReturns
<1>1. ASSUME NEW p \in Actors, MacroCall(p)
      PROVE  \E l \in Lists : Calls(p, l) \/ TstList(p, l) \/ WalkFrom(p, l)
  <2>1. ASSUME NEW n \in Nodes, Remove1(p, n) PROVE \E l \in Lists : Calls(p, l)
    <3>1. where[n] \in Lists
      BY <2>1 DEF Remove1
    <3>. QED
      BY <2>1, <3>1 DEF Calls
  <2>. QED
    BY <1>1, <2>1 DEF MacroCall, Calls
<1>. QED
  BY <1>1 DEF Next

\* The other steps touch no pointer.
LEMMA OutsideSteps ==
  ASSUME LinksInv, ListsInv,
         \/ \E p \in Actors : NextNode(p) \/ Acquire(p) \/ Release(p) \/ EnableEnds(p)
         \/ \E p \in Actors : \E l \in Lists : TstList(p, l) \/ WalkFrom(p, l)
         \/ ServerEnters \/ ServerReturns \/ UNCHANGED vars
  PROVE  Outside
<1> USE DEF Outside, LinksInv, Shape, listVars
<1>1. ASSUME NEW p \in Actors, Acquire(p) \/ Release(p) \/ EnableEnds(p) PROVE Outside
  BY <1>1 DEF Acquire, Release, EnableEnds, Disable1, DisableFrom, Disable2, Enable1, CountDown, Enable2,
          Forbid, ForbidTo, Permit, At, Goto, MacroLabels, NewListLabels
<1>2. ASSUME NEW p \in Actors, NextNode(p) PROVE Outside
  BY <1>2 DEF NextNode, WalkOn, ablesVars
<1>3. ASSUME NEW p \in Actors, NEW l \in Lists, TstList(p, l) \/ WalkFrom(p, l) PROVE Outside
  BY <1>3 DEF TstList, WalkFrom, ablesVars
<1>4. CASE ServerEnters \/ ServerReturns
  BY <1>4 DEF ServerEnters, ServerReturns, Interrupt, ReturnFromInterrupt
<1>5. CASE UNCHANGED vars
  BY <1>5 DEF vars, ablesVars
<1>. QED
  BY <1>1, <1>2, <1>3, <1>4, <1>5

\* Every step keeps the pointers right.
LEMMA LinksStep == LinksInv /\ ListsInv /\ KnownInv /\ [Next]_vars => LinksInv'
<1> SUFFICES ASSUME LinksInv, ListsInv, KnownInv, [Next]_vars PROVE LinksInv'
  OBVIOUS
<1>0. HoldInv
  BY DEF ListsInv
<1>1. ASSUME NEW p \in Actors, MacroStep(p) PROVE LinksInv'
  <2> PICK l \in Lists : l = arg[p].list
    BY <1>1, MacroStepList
  <2>. QED
    BY <1>0, <1>1, MacroStepMoves, MovesLinks
<1>2. ASSUME NEW p \in Actors, NEW l \in Lists, Calls(p, l) PROVE LinksInv'
  BY <1>0, <1>2, CallMoves, MovesLinks
<1>3. ASSUME \/ \E p \in Actors : NextNode(p) \/ Acquire(p) \/ Release(p) \/ EnableEnds(p)
             \/ \E p \in Actors : \E l \in Lists : TstList(p, l) \/ WalkFrom(p, l)
             \/ ServerEnters \/ ServerReturns \/ UNCHANGED vars
      PROVE  LinksInv'
  BY <1>0, <1>3, OutsideSteps, OutsideLinks
<1>. QED
  BY <1>1, <1>2, <1>3, StepParts

(***************************************************************************)
(* What the tests say, and what owners know                                *)
(***************************************************************************)

\* The tests answer right while the list is owned.
LEMMA TstListRight ==
  ASSUME LinksInv, ListsInv, NEW p \in Actors, NEW l \in Lists, TstList(p, l)
  PROVE  IsListEmpty(l) <=> Members(l) = {}
<1>1. Usable(p, l) /\ Active(p) /\ ~Busy(p, l)
  BY BusyActive DEF TstList, At, Busy, ListsInv
<1>2. Whole(l, mem, Members(l))
  BY <1>1, FreeListWhole
<1>. QED
  BY <1>2, WholeFacts DEF IsListEmpty

\* TSTLST2 reads through the head, so it may be interrupted in between.
LEMMA TstLst2Right ==
  ASSUME LinksInv, NEW p \in Actors, NEW l \in Lists, l = arg[p].list, pc[p] = "TstLst2_2"
  PROVE  mem[A1(p)] = 0 <=> Members(l) = {}
<1>1. Result(p, l) /\ Shape
  BY DEF LinksInv, BusySound, MacroLabels
<1>2. Owed(p) = None
  BY DEF Owed
<1>3. Whole(l, mem, Members(l)) /\ A1(p) = mem[l]
  BY <1>1, <1>2, NothingOwed DEF Result, RegistersOf
<1>. QED
  BY <1>3, WholeFacts

\* A step inside a macro takes a node off a list only as its actor forgets what
\* it knew; a test teaches the truth.
LEMMA MacroStepKnown ==
  ASSUME LinksInv, ListsInv, KnownInv, NEW p \in Actors, NEW l \in Lists, l = arg[p].list, MacroStep(p)
  PROVE  /\ known' = [known EXCEPT ![p] = known'[p]]
         /\ \/ known'[p] = NoList
            \/ known'[p] = known[p] /\ \A k \in Lists : Members(k) \subseteq Members(k)'
            \/ known'[p] = l /\ Members(l)' # {} /\ pc[p] = "TstLst2_2"
<1> USE DEF KnownInv
<1>1. CASE Remove3(p) \/ RemHead3(p) \/ RemHeadQ3(p) \/ RemTail3(p)
  BY <1>1 DEF Remove3, RemHead3, RemHeadTakes, RemHeadQ3, RemTail3, Take
<1>2. CASE AddHead4(p) \/ AddTail4(p)
  <2>1. Result(p, l) /\ Shape /\ Adding(p)
    BY <1>2 DEF LinksInv, BusySound, AddHead4, AddHeadEnds, AddTail4, Finish, At, MacroLabels, Adding
  <2>2. arg[p].node \in Nodes /\ where[arg[p].node] = p /\ p \notin Lists
    BY <2>1, AddressAssumption DEF Result, NodeOf
  <2>3. where' = [where EXCEPT ![arg[p].node] = l] /\ known' = known
    BY <1>2 DEF AddHead4, AddHeadEnds, AddTail4, Put
  <2>4. \A k \in Lists : Members(k) \subseteq Members(k)'
    BY <2>1, <2>2, <2>3 DEF Members, Shape
  <2>. QED
    BY <2>3, <2>4
<1>3. CASE TstLst2_2(p)
  <2>1. /\ pc[p] = "TstLst2_2" /\ Members(l)' = Members(l)
        /\ known' = [known EXCEPT ![p] = IF mem[A1(p)] = 0 THEN NoList ELSE l]
    BY <1>3 DEF TstLst2_2, Finish, At, Learn, Members
  <2>. QED
    BY <2>1, TstLst2Right
<1>4. CASE where' = where /\ known' = known
  BY <1>4 DEF Members
<1>. QED
  BY <1>1, <1>2, <1>3, <1>4 DEF MacroStep, NewList2, NewList3, NewListEnds, AddHead2, AddHead3, AddTail2, AddTail3,
     AddTailLinks, Remove2, Remove4, RemHead2, RemHead4, RemHeadQ2, RemHeadQ4, RemTail2, RemTail4, RemTail5, RemTailEnds

\* A header, once usable, stays so.
LEMMA UsableStays ==
  ASSUME ListsInv, [Next]_vars, NEW l \in Lists, ready[l] = "usable"
  PROVE  ready'[l] = "usable"
<1>1. HoldInv
  BY DEF ListsInv
<1>2. ASSUME NEW p \in Actors, Begins(p) \/ BeginsNew(p) \/ Continues(p) \/ Ends(p)
      PROVE  ready'[l] = "usable"
  BY <1>1, <1>2 DEF HoldInv, Domains, Begins, BeginsNew, Continues, Ends
<1>3. CASE Arbitrates \/ StaysOut \/ UNCHANGED vars
  BY <1>3 DEF Arbitrates, StaysOut, vars, listVars
<1>. QED
  BY <1>2, <1>3, StepKinds

\* A macro does not arbitrate.
LEMMA MacrosSameExec ==
  ASSUME NEW p \in Actors, MacroStep(p) \/ \E l \in Lists : Calls(p, l)
  PROVE  SameExec
<1>1. ASSUME MacroStep(p) PROVE SameExec
  BY <1>1, MacroStepKinds DEF Continues, Ends
<1>2. ASSUME NEW l \in Lists, Calls(p, l) PROVE SameExec
  BY <1>2 DEF Calls, NewList1, AddHead1, AddTail1, Remove1, RemoveCall, RemHead1, RemHeadQ1, RemTail1, TstLst2_1,
     Call, Step, SameExec
<1>. QED
  BY <1>1, <1>2

\* Nor does a walk.
LEMMA WalksSameExec ==
  ASSUME NEW p \in Actors, NextNode(p) \/ \E l \in Lists : TstList(p, l) \/ WalkFrom(p, l)
  PROVE  SameExec
  BY DEF NextNode, WalkOn, TstList, WalkFrom, ablesVars, SameExec

\* Ownership, and the server's interrupt, last until the actor itself lets go.
KeepsHold(p) ==
  \/ SameExec
  \/ \E q \in Actors : Acquire(q) \/ EnableEnds(q) \/ (Release(q) /\ q # p)
  \/ ServerEnters \/ (ServerReturns /\ p # Server)

\* So what an actor can use it still can, but for its own release.
LEMMA HoldLasts ==
  ASSUME ListsInv, NEW p \in Actors, KeepsHold(p), Active(p), NEW l \in Lists, Owns(p, l)
  PROVE  Active(p)' /\ Owns(p, l)'
<1> USE DEF ListsInv, AblesInv, AblesState, AblesTypeOK, Actors
<1>1. CASE SameExec
  BY <1>1 DEF SameExec, Owns, Active, exec
<1>2. ASSUME NEW q \in Actors, Acquire(q) \/ EnableEnds(q) PROVE Active(p)' /\ Owns(p, l)'
  BY <1>2 DEF Owns, Active, Acquire, Disable1, DisableFrom, Disable2, Forbid, ForbidTo, EnableEnds, Enable2
<1>3. ASSUME NEW q \in Actors, Release(q), q # p PROVE Active(p)' /\ Owns(p, l)'
  BY <1>3, ActorsAssumption DEF Owns, Active, Release, Enable1, CountDown, Permit
<1>4. CASE ServerEnters
  BY <1>4 DEF Owns, Active, ServerEnters, Interrupt
<1>5. CASE ServerReturns /\ p # Server
  BY <1>5 DEF Owns, Active, ServerReturns, ReturnFromInterrupt
<1>. QED
  BY <1>1, <1>2, <1>3, <1>4, <1>5 DEF KeepsHold

\* KnownInv for one actor.
KnownOf(p) ==
  known[p] # NoList =>
    known[p] \in Lists /\ Usable(p, known[p]) /\ Active(p) /\ Members(known[p]) # {}

\* Nodes an owner leaves on its list are still there.
LEMMA KnownKeeps ==
  ASSUME ListsInv, KnownInv, [Next]_vars, NEW p \in Actors, known'[p] = known[p],
         KeepsHold(p),
         \A l \in Lists : l = known[p] /\ Members(l) # {} => Members(l)' # {}
  PROVE  KnownOf(p)'
<1>1. CASE known[p] = NoList
  BY <1>1 DEF KnownOf
<1>2. CASE known[p] # NoList
  <2>1. PICK l \in Lists : l = known[p]
    BY <1>2 DEF KnownInv
  <2>2. Members(l) # {}
    BY <1>2, <2>1 DEF KnownInv
  <2>3. Usable(p, l) /\ Active(p)
    BY <1>2, <2>1 DEF KnownInv
  <2>4. Usable(p, l)' /\ Active(p)' /\ Members(l)' # {}
    BY <2>1, <2>2, <2>3, UsableStays, HoldLasts DEF Usable
  <2>. QED
    BY <2>1, <2>4 DEF KnownOf, Usable, Owns, Members
<1>. QED
  BY <1>1, <1>2

\* Every step keeps what owners know true.
LEMMA KnownStep == LinksInv /\ ListsInv /\ KnownInv /\ [Next]_vars => KnownInv'
<1> SUFFICES ASSUME LinksInv, ListsInv, KnownInv, [Next]_vars
             PROVE  known' = [p \in Actors |-> known'[p]] /\ \A p \in Actors : KnownOf(p)'
  BY DEF KnownInv, KnownOf
<1>s. SameExec => \A p \in Actors : KeepsHold(p)
  BY DEF KeepsHold
<1> DEFINE Known2 == known' = [p \in Actors |-> known'[p]] /\ \A p \in Actors : KnownOf(p)'
<1>0. known = [p \in Actors |-> known[p]]
  BY DEF KnownInv
<1>k. ASSUME NEW q \in Actors, known'[q] = NoList PROVE KnownOf(q)'
  BY <1>k DEF KnownOf
<1>1. ASSUME NEW p \in Actors, MacroStep(p) PROVE Known2
  <2>1. PICK l \in Lists : l = arg[p].list
    BY <1>1, MacroStepList
  <2>2. /\ known' = [known EXCEPT ![p] = known'[p]]
        /\ \/ known'[p] = NoList
           \/ known'[p] = known[p] /\ \A k \in Lists : Members(k) \subseteq Members(k)'
           \/ known'[p] = l /\ Members(l)' # {} /\ pc[p] = "TstLst2_2"
    BY <1>1, <2>1, MacroStepKnown
  <2>r. SameExec /\ pc[p] \in MacroLabels \cup NewListLabels
    BY <1>1, MacroStepKinds DEF Continues, Ends
  <2>3. ASSUME NEW q \in Actors, q # p PROVE KnownOf(q)'
    <3>1. known'[q] = known[q]
      BY <2>2, <2>3, <1>0
    <3>2. ASSUME NEW k \in Lists, k = known[q] PROVE Members(k)' = Members(k)
      <4>1. Usable(q, k) /\ Active(q)
        BY <3>2, AddressAssumption DEF KnownInv, NoList
      <4>2. k # l
        BY <4>1, <2>3, <2>1, <2>r, OwnerAlone DEF Busy, MacroLabels, NewListLabels
      <4>. QED
        BY <4>2, <1>1, <2>1, MacroStepMoves, OthersKeepWords DEF Moves, LinksInv
    <3>. QED
      BY <3>1, <3>2, <2>r, <1>s, KnownKeeps
  <2>4. KnownOf(p)'
    <3>1. CASE known'[p] = NoList
      BY <3>1, <1>k
    <3>2. CASE known'[p] = known[p] /\ \A k \in Lists : Members(k) \subseteq Members(k)'
      BY <3>2, <2>r, <1>s, KnownKeeps
    <3>3. CASE known'[p] = l /\ Members(l)' # {} /\ pc[p] = "TstLst2_2"
      <4>1. Owns(p, l) /\ ready[l] = "usable"
        BY <2>1, <3>3 DEF ListsInv, HoldInv, BusyOwns, MacroLabels
      <4>2. Active(p)
        BY <3>3, BusyActive DEF ListsInv
      <4>3. Usable(p, l)' /\ Active(p)'
        BY <4>1, <4>2, <2>r, <1>s, HoldLasts, UsableStays DEF Usable
      <4>. QED
        BY <3>3, <4>3 DEF KnownOf, Usable, Owns, Members
    <3>. QED
      BY <2>2, <3>1, <3>2, <3>3
  <2>. QED
    BY <1>0, <2>2, <2>3, <2>4
<1>2. ASSUME NEW p \in Actors, NEW l \in Lists, Calls(p, l) PROVE Known2
  <2>1. known' = known /\ where' = where
    BY <1>2 DEF Calls, NewList1, AddHead1, AddTail1, Remove1, RemoveCall, RemHead1, RemHeadQ1, RemTail1, TstLst2_1
  <2>2. SameExec
    BY <1>2, MacrosSameExec
  <2>. QED
    BY <1>0, <2>1, <2>2, <1>s, KnownKeeps DEF Members
<1>3. ASSUME NEW p \in Actors, NEW l \in Lists, TstList(p, l) PROVE Known2
  <2>1. /\ known' = [known EXCEPT ![p] = IF IsListEmpty(l) THEN NoList ELSE l] /\ where' = where /\ ready' = ready
        /\ Usable(p, l) /\ Running(p)
    BY <1>3 DEF TstList, Learn, At
  <2>2. SameExec
    BY <1>3, WalksSameExec
  <2>3. ASSUME NEW q \in Actors, q # p PROVE KnownOf(q)'
    <3>1. known'[q] = known[q]
      BY <2>1, <2>3, <1>0
    <3>. QED
      BY <2>1, <2>2, <3>1, <1>s, KnownKeeps DEF Members
  <2>4. ASSUME Members(l) # {} PROVE KnownOf(p)'
    <3>1. known'[p] = l /\ Members(l)' # {}
      BY <2>1, <2>4, <1>0, <1>3, TstListRight DEF Members
    <3>2. Usable(p, l)' /\ Active(p)'
      BY <2>1, <2>2, BusyActive, <1>s, HoldLasts, UsableStays DEF Usable, ListsInv
    <3>. QED
      BY <3>1, <3>2 DEF KnownOf, Usable, Owns, Members
  <2>5. ASSUME Members(l) = {} PROVE KnownOf(p)'
    BY <2>1, <2>5, <1>0, <1>3, <1>k, TstListRight
  <2>. QED
    BY <1>0, <2>1, <2>3, <2>4, <2>5
<1>4. ASSUME NEW p \in Actors, NextNode(p) \/ \E l \in Lists : WalkFrom(p, l) PROVE Known2
  <2>1. known' = known /\ where' = where
    BY <1>4 DEF WalkFrom, NextNode, WalkOn
  <2>2. SameExec
    BY <1>4, WalksSameExec
  <2>. QED
    BY <1>0, <2>1, <2>2, <1>s, KnownKeeps DEF Members
<1>5. ASSUME \/ \E p \in Actors : Acquire(p) \/ EnableEnds(p)
             \/ ServerEnters \/ UNCHANGED vars
      PROVE  Known2
  <2>1. known' = known /\ where' = where
    BY <1>5 DEF Acquire, EnableEnds, ServerEnters, vars, listVars
  <2>2. \A q \in Actors : KeepsHold(q)
    BY <1>5 DEF KeepsHold, vars, ablesVars, SameExec
  <2>. QED
    BY <1>0, <2>1, <2>2, KnownKeeps DEF Members
<1>6. ASSUME NEW p \in Actors, Release(p) \/ (p = Server /\ ServerReturns) PROVE Known2
  <2>1. known' = [known EXCEPT ![p] = NoList] /\ where' = where
    BY <1>6 DEF Release, ServerReturns
  <2>2. ASSUME NEW q \in Actors, q # p PROVE KnownOf(q)'
    <3>1. KeepsHold(q) /\ known'[q] = known[q]
      BY <1>0, <1>6, <2>1, <2>2 DEF KeepsHold
    <3>. QED
      BY <2>1, <3>1, KnownKeeps DEF Members
  <2>. QED
    BY <1>0, <2>1, <2>2, <1>k
<1>7. CASE ServerReturns
  <2>1. Server \in Actors
    BY DEF Actors
  <2>. QED
    BY <1>6, <1>7, <2>1
<1>8. CASE \E p \in Actors : \E l \in Lists : Calls(p, l) \/ TstList(p, l) \/ WalkFrom(p, l)
  BY <1>2, <1>3, <1>4, <1>8
<1>9. CASE \E p \in Actors : MacroStep(p) \/ NextNode(p) \/ Acquire(p) \/ Release(p) \/ EnableEnds(p)
  BY <1>1, <1>4, <1>5, <1>6, <1>9
<1>. QED
  BY <1>5, <1>7, <1>8, <1>9, StepParts

(***************************************************************************)
(* Walks                                                                   *)
(***************************************************************************)

\* Memory as p, in a walk along its list, has left it or soon will.
WalkMem(p) == IF Busy(p, walk[p].list) THEN Repaired(p) ELSE mem

\* A walker owns the list it walks, the nodes due are those ahead, and the only
\* macro it is in on that list is a REMOVE of the node it stands on.
WalkOf(p) ==
  LET w == walk[p]
      l == walk[p].list
  IN
  /\ w = [list |-> w.list, next |-> w.next, cur |-> w.cur, due |-> w.due]
  /\ InWalk(p) =>
       /\ p \in Tasks /\ l \in Lists /\ Usable(p, l)
       /\ Ahead(l, WalkMem(p), Members(l), w.next, w.cur, w.due)
       /\ Busy(p, l) => pc[p] \in {"Remove2", "Remove3", "Remove4"} /\ arg[p].node = w.cur

\* Every walk is such a walk.
WalkInv == walk = [p \in Actors |-> walk[p]] /\ \A p \in Actors : WalkOf(p)

\* A walk goes on, if the owner keeps the list and its links.
LEMMA WalkLasts ==
  ASSUME ListsInv, [Next]_vars, NEW p \in Actors, WalkOf(p), InWalk(p), walk'[p] = walk[p], KeepsHold(p),
         NEW l \in Lists, l = walk[p].list, NEW M, M = Members(l)',
         Ahead(l, WalkMem(p)', M, walk[p].next, walk[p].cur, walk[p].due),
         Busy(p, l)' => pc'[p] \in {"Remove2", "Remove3", "Remove4"} /\ arg'[p].node = walk[p].cur
  PROVE  WalkOf(p)'
<1>1. p \in Tasks /\ Usable(p, l) /\ Active(p)
  BY ActorsAssumption DEF WalkOf, Active
<1>2. Usable(p, l)'
  BY <1>1, HoldLasts, UsableStays DEF Usable
<1>. QED
  BY <1>1, <1>2 DEF WalkOf, InWalk, Usable, Owns, Members, Busy

\* A step on other lists does not disturb a walk.
LEMMA WalkUndisturbed ==
  ASSUME ListsInv, [Next]_vars, NEW p \in Actors, WalkOf(p), InWalk(p), walk'[p] = walk[p], KeepsHold(p),
         NEW l \in Lists, l = walk[p].list, Members(l)' = Members(l),
         SameLinks(l, Members(l), WalkMem(p), WalkMem(p)'),
         Busy(p, l)' => Busy(p, l) /\ pc'[p] = pc[p] /\ arg'[p] = arg[p]
  PROVE  WalkOf(p)'
<1>1. Ahead(l, WalkMem(p), Members(l), walk[p].next, walk[p].cur, walk[p].due)
  BY DEF WalkOf
<1>2. Ahead(l, WalkMem(p)', Members(l)', walk[p].next, walk[p].cur, walk[p].due)
  BY <1>1, AheadFrame
<1>. QED
  BY <1>2, WalkLasts DEF WalkOf

\* An actor not in a walk owes nothing to WalkInv.
LEMMA NotWalking ==
  ASSUME NEW p \in Actors, WalkOf(p), ~InWalk(p), walk'[p] = walk[p]
  PROVE  WalkOf(p)'
BY DEF WalkOf, InWalk

\* A step of p on its own list leaves the walks along others alone.
LEMMA WalkApart ==
  ASSUME LinksInv, ListsInv, [Next]_vars, SameExec, NEW q \in Actors, NEW k \in Lists, Moves(q, k),
         NEW p \in Actors, WalkOf(p), InWalk(p), walk'[p] = walk[p], NEW l \in Lists, l = walk[p].list, k # l
  PROVE  WalkOf(p)'
<1>1. Shape /\ Local(q, k) /\ KeepsHold(p)
  BY DEF LinksInv, Moves, KeepsHold
<1>2. Members(l)' = Members(l)
  BY <1>1, OthersKeepWords
<1>3. CASE q = p
  <2>1. ~Busy(p, l) /\ ~Busy(p, l)'
    BY <1>3 DEF Moves, After, Busy
  <2>2. WalkMem(p) = mem /\ WalkMem(p)' = mem'
    BY <2>1 DEF WalkMem, Busy
  <2>3. SameLinks(l, Members(l), mem, mem')
    BY <1>1, OthersKeepLinks
  <2>. QED
    BY <1>1, <1>2, <2>1, <2>2, <2>3, WalkUndisturbed
<1>4. CASE q # p
  <2>1. pc'[p] = pc[p] /\ arg'[p] = arg[p]
    BY <1>1, <1>4 DEF Local, OwnRegisters, Shape
  <2>2. Busy(p, l)' <=> Busy(p, l)
    BY <2>1 DEF Busy
  <2>3. \A w \in Words : mem'[w] = mem[w] => WalkMem(p)'[w] = WalkMem(p)[w]
    <3>1. CASE Busy(p, l)
      <4>1. WalkMem(p) = Repaired(p) /\ WalkMem(p)' = Repaired(p)'
        BY <3>1, <2>2 DEF WalkMem, Busy
      <4>. QED
        BY <4>1, <1>1, <1>4, OthersKeepOwed
    <3>2. CASE ~Busy(p, l)
      <4>1. WalkMem(p) = mem /\ WalkMem(p)' = mem'
        BY <3>2, <2>2 DEF WalkMem, Busy
      <4>. QED
        BY <4>1
    <3>. QED
      BY <3>1, <3>2
  <2>4. SameLinks(l, Members(l), WalkMem(p), WalkMem(p)')
    BY <2>3, <1>1, OthersKeepLinks
  <2>. QED
    BY <1>1, <1>2, <2>1, <2>2, <2>4, WalkUndisturbed
<1>. QED
  BY <1>3, <1>4

\* The walk's list is the walker's: nobody else is, or gets, inside a macro on it.
LEMMA WalkersOwn ==
  ASSUME ListsInv, NEW q \in Actors, NEW k \in Lists, (MacroStep(q) /\ k = arg[q].list) \/ Calls(q, k),
         NEW p \in Actors, WalkOf(p), InWalk(p), k = walk[p].list
  PROVE  q = p
<1>1. p \in Tasks /\ Usable(p, k) /\ Active(p)
  BY ActorsAssumption DEF WalkOf, Active
<1>2. CASE MacroStep(q) /\ k = arg[q].list
  <2>1. Busy(q, k)
    BY <1>2, MacroStepKinds DEF Continues, Ends, Busy, MacroLabels, NewListLabels
  <2>. QED
    BY <1>1, <2>1, OwnerAlone
<1>3. CASE Calls(q, k)
  <2>1. ~NewList1(q, k)
    BY <1>1 DEF NewList1, Usable
  <2>2. Usable(q, k) /\ Active(q)
    BY <1>3, <2>1, CallsBegin, BusyActive DEF ListsInv
  <2>. QED
    BY <1>1, <2>2, SoleOwner DEF Usable, ListsInv
<1>. QED
  BY <1>2, <1>3

\* On the list it walks, the walker calls only REMOVE, for the node it stands on.
LEMMA WalkerCalls ==
  ASSUME NEW p \in Actors, InWalk(p), NEW l \in Lists, l = walk[p].list, Calls(p, l), WalkOf(p)
  PROVE  \E n \in Nodes : n = walk[p].cur /\ where[n] = l /\ Remove1(p, n)
<1>1. ready[l] = "usable"
  BY DEF WalkOf, Usable
<1>. QED
  BY <1>1 DEF Calls, NewList1, AddHead1, AddTail1, Remove1, RemHead1, RemHeadQ1, RemTail1, TstLst2_1, Call, MayHandle

\* Where REMOVE begins, the walk is as it was.
LEMMA WalkerBegins ==
  ASSUME LinksInv, ListsInv, [Next]_vars, NEW p \in Actors, WalkOf(p), InWalk(p),
         NEW l \in Lists, l = walk[p].list, Calls(p, l), walk'[p] = walk[p], SameExec
  PROVE  WalkOf(p)'
<1>1. PICK n \in Nodes : n = walk[p].cur /\ where[n] = l /\ Remove1(p, n)
  BY WalkerCalls
<1>2. /\ pc[p] = "idle" /\ pc' = [pc EXCEPT ![p] = "Remove2"] /\ mem' = mem /\ where' = where
      /\ arg' = [arg EXCEPT ![p] = [list |-> l, node |-> n]] /\ reg' = [reg EXCEPT ![p] = reg'[p]]
  BY <1>1 DEF Remove1, RemoveCall, Step, At, Goto, LinksInv, Shape
<1>3. pc'[p] = "Remove2" /\ arg'[p] = [list |-> l, node |-> n] /\ Members(l)' = Members(l)
  BY <1>2 DEF LinksInv, Shape, Members
<1>4. WalkMem(p) = mem
  BY <1>2 DEF WalkMem, Busy
<1>5. WalkMem(p)' = mem
  <2>1. Owed(p)' = None
    BY <1>3 DEF Owed
  <2>2. Repaired(p)' = mem
    BY <1>2, <2>1, InWords DEF LinksInv, Shape, Repaired, None
  <2>. QED
    BY <1>2, <2>2 DEF WalkMem
<1>6. Ahead(l, WalkMem(p)', Members(l)', walk[p].next, walk[p].cur, walk[p].due)
  BY <1>3, <1>4, <1>5 DEF WalkOf
<1>7. KeepsHold(p)
  BY DEF KeepsHold
<1>. QED
  BY <1>1, <1>3, <1>6, <1>7, WalkLasts

\* The three steps of REMOVE on the node a walker stands on, which is behind
\* the walk: the nodes due stay ahead.
LEMMA WalkerRemoves ==
  ASSUME LinksInv, ListsInv, [Next]_vars, SameExec, NEW p \in Actors, WalkOf(p), InWalk(p), walk'[p] = walk[p],
         NEW l \in Lists, l = walk[p].list, l = arg[p].list, MacroStep(p)
  PROVE  WalkOf(p)'
<1> DEFINE n == arg[p].node
           w == walk[p]
<1>0. KeepsHold(p) /\ Shape /\ pc[p] \in MacroLabels \cup NewListLabels
  BY MacroStepKinds DEF KeepsHold, LinksInv, Continues, Ends
<1>1. Busy(p, l) /\ Repaired(p) = WalkMem(p)
  BY <1>0 DEF Busy, WalkMem, MacroLabels, NewListLabels
<1>2. /\ pc[p] \in {"Remove2", "Remove3", "Remove4"} /\ n = w.cur
      /\ Ahead(l, Repaired(p), Members(l), w.next, w.cur, w.due)
  BY <1>1 DEF WalkOf
<1>3. Result(p, l) /\ (Remove2(p) \/ Remove3(p) \/ Remove4(p))
  <2>1. pc[p] \in MacroLabels
    BY <1>2 DEF MacroLabels
  <2>2. Result(p, l)
    BY <2>1 DEF LinksInv, BusySound
  <2>3. Remove2(p) \/ Remove3(p) \/ Remove4(p)
    BY <1>2 DEF MacroStep, NewList2, NewList3, NewListEnds, AddHead2, AddHead3, AddHead4, AddHeadEnds, AddTail2, AddTail3,
       AddTailLinks, AddTail4, RemHead2, RemHead3, RemHeadTakes, RemHead4,
       RemHeadQ2, RemHeadQ3, RemHeadQ4, RemTail2, RemTail3, RemTail4, RemTail5, RemTailEnds, TstLst2_2,
       Step, Finish, At
  <2>. QED
    BY <2>2, <2>3
<1> HIDE DEF n, w
<1>4. CASE Remove2(p)
  <2>1. /\ pc[p] = "Remove2" /\ pc'[p] = "Remove3" /\ arg'[p] = arg[p] /\ mem' = mem /\ Members(l)' = Members(l)
    BY <1>0, <1>4 DEF Remove2, Step, At, Goto, Shape, Members
  <2>2. Owed(p) = None /\ Owed(p)' = None
    BY <2>1 DEF Owed
  <2>3. Repaired(p) = mem /\ Repaired(p)' = mem
    BY <1>0, <2>1, <2>2, InWords DEF Repaired, None, Shape
  <2>4. WalkMem(p)' = Repaired(p)
    BY <2>1, <2>3 DEF WalkMem
  <2>5. Ahead(l, WalkMem(p)', Members(l)', w.next, w.cur, w.due)
    BY <1>2, <2>1, <2>4
  <2>. QED
    BY <1>0, <1>2, <2>1, <2>5, WalkLasts DEF n, w
<1>5. CASE Remove3(p)
  <2>1. pc[p] = "Remove3" /\ pc'[p] = "Remove4" /\ arg'[p] = arg[p]
    BY <1>0, <1>5 DEF Remove3, Step, At, Goto, Shape
  <2>2. Repaired(p) = mem
    <3>1. Owed(p) = None
      BY <2>1 DEF Owed
    <3>. QED
      BY <1>0, <3>1, NothingOwed
  <2>3. /\ n \in Members(l) /\ Members(l)' = Members(l) \ {n}
        /\ SameBut(l, Members(l) \ {n}, mem, Repaired(p)', mem[n + LN_PRED], mem[n])
        /\ Repaired(p)'[mem[n + LN_PRED]] = mem[n] /\ Repaired(p)'[mem[n] + LN_PRED] = mem[n + LN_PRED]
    BY <1>0, <1>1, <1>3, <1>5, <2>2, Remove3Links, MembersAfter DEF n, TakesOut, Members
  <2>4. Ahead(l, mem, Members(l), w.next, n, w.due)
    BY <1>2, <2>2
  <2>5. Ahead(l, Repaired(p)', Members(l) \ {n}, w.next, n, w.due)
    <3> DEFINE R == Repaired(p)'
               a == mem[n + LN_PRED]
               b == mem[n]
    <3>1. SameBut(l, Members(l) \ {n}, mem, R, a, b) /\ R[a] = b /\ R[b + LN_PRED] = a
      BY <2>3
    <3>2. a = mem[n + LN_PRED] /\ b = mem[n]
      OBVIOUS
    <3> HIDE DEF R, a, b
    <3>3. Ahead(l, R, Members(l) \ {n}, w.next, n, w.due)
      BY <2>3, <2>4, <3>1, <3>2, AheadRemove
    <3>. QED
      BY <3>3 DEF R
  <2>6. WalkMem(p)' = Repaired(p)'
    BY <1>1, <2>1 DEF WalkMem, Busy
  <2>7. Ahead(l, WalkMem(p)', Members(l)', w.next, w.cur, w.due)
    BY <1>2, <2>3, <2>5, <2>6
  <2>. QED
    BY <1>0, <1>2, <2>1, <2>7, WalkLasts DEF n, w
<1>6. CASE Remove4(p)
  <2>1. pc[p] = "Remove4" /\ pc'[p] = "idle" /\ Members(l)' = Members(l)
    BY <1>0, <1>6 DEF Remove4, Finish, At, Goto, Shape, Members
  <2>2. Owed(p) = [at |-> A0(p) + LN_PRED, val |-> A1(p)]
    BY <2>1 DEF Owed
  <2>3. mem' = Repaired(p)
    BY <1>6, <2>2 DEF Remove4, Store, Repaired
  <2>4. ~Busy(p, l)'
    BY <2>1 DEF Busy
  <2>5. WalkMem(p)' = Repaired(p)
    BY <2>1, <2>3 DEF WalkMem, Busy
  <2>6. Ahead(l, WalkMem(p)', Members(l)', w.next, w.cur, w.due)
    BY <1>2, <2>1, <2>5
  <2>. QED
    BY <1>0, <2>4, <2>6, WalkLasts DEF w
<1>. QED
  BY <1>3, <1>4, <1>5, <1>6

\* A step of the walk itself.
LEMMA WalkGoesOn ==
  ASSUME LinksInv, ListsInv, NEW p \in Actors, WalkOf(p), NextNode(p), walk = [q \in Actors |-> walk[q]]
  PROVE  /\ WalkOf(p)'
         /\ IF walk'[p] = NoWalk THEN walk[p].due = {} ELSE walk'[p].cur \in walk[p].due
<1> PICK l \in Lists : l = walk[p].list
  BY DEF NextNode, WalkOn, WalkOf
<1> DEFINE next == walk[p].next
           cur == walk[p].cur
           due == walk[p].due
           M == Members(l)
<1>1. /\ InWalk(p) /\ pc[p] = "idle" /\ pc' = pc /\ mem' = mem /\ where' = where /\ ready' = ready /\ SameExec
      /\ walk' = [walk EXCEPT ![p] = IF mem[next] = 0 THEN NoWalk
           ELSE [list |-> walk[p].list, next |-> mem[next], cur |-> next, due |-> due \ {next}]]
  BY DEF NextNode, WalkOn, At, ablesVars, SameExec
<1>2. p \in Tasks /\ Usable(p, l) /\ Ahead(l, mem, M, next, cur, due)
  BY <1>1 DEF WalkOf, WalkMem, Busy
<1>w. walk[p] = [list |-> l, next |-> next, cur |-> cur, due |-> due]
  BY DEF WalkOf
<1>a. /\ mem[next] = 0 => due = {}
      /\ mem[next] # 0 => next \in due /\ Ahead(l, mem, M, mem[next], next, due \ {next})
  <2> HIDE DEF next, cur, due, M
  <2>. QED
    BY <1>2, AheadOn
<1>3. CASE mem[next] = 0
  <2>1. walk'[p] = NoWalk /\ walk[p].due = {}
    BY <1>1, <1>a, <1>3
  <2>. QED
    BY <2>1 DEF NoWalk, WalkOf, InWalk, NoList
<1>4. CASE mem[next] # 0
  <2>1. next \in due /\ Ahead(l, mem, M, mem[next], next, due \ {next})
    BY <1>a, <1>4
  <2>2. walk'[p] = [list |-> l, next |-> mem[next], cur |-> next, due |-> due \ {next}]
    BY <1>1, <1>4
  <2>3. Usable(p, l)' /\ Members(l)' = M /\ ~Busy(p, l)'
    BY <1>1, <1>2 DEF Usable, Owns, SameExec, Members, Busy
  <2>4. /\ walk'[p].list = l /\ walk'[p].next = mem[next] /\ walk'[p].cur = next /\ walk'[p].due = due \ {next}
        /\ walk'[p] # NoWalk
    BY <2>2, AddressAssumption DEF NoWalk, NoList
  <2>5. WalkMem(p)' = mem
    BY <1>1, <2>3, <2>4 DEF WalkMem, Busy
  <2>6. Ahead(l, WalkMem(p)', Members(l)', mem[next], next, due \ {next})
    BY <2>1, <2>3, <2>5
  <2>7. WalkOf(p)'
    <3> HIDE DEF next, cur, due
    <3>. QED
      BY <1>2, <2>2, <2>3, <2>4, <2>6 DEF WalkOf, Usable, Owns, Busy
  <2>. QED
    BY <2>1, <2>4, <2>7
<1>. QED
  BY <1>3, <1>4

\* Steps that leave pointers and macros as they are leave walks as they are.
LEMMA WalkOutside ==
  ASSUME ListsInv, [Next]_vars, Outside, NEW p \in Actors, WalkOf(p), walk'[p] = walk[p],
         KeepsHold(p) \/ ~InWalk(p)
  PROVE  WalkOf(p)'
<1>1. CASE ~InWalk(p)
  BY <1>1, NotWalking
<1>2. CASE InWalk(p)
  <2>1. PICK l \in Lists : l = walk[p].list
    BY <1>2 DEF WalkOf
  <2>2. Busy(p, l)' <=> Busy(p, l)
    BY DEF Outside, Busy, ListsInv, HoldInv, Domains, MacroLabels, NewListLabels
  <2>3. Busy(p, l) => pc'[p] = pc[p] /\ arg'[p] = arg[p] /\ Repaired(p)' = Repaired(p)
    <3> SUFFICES ASSUME Busy(p, l) PROVE pc'[p] = pc[p] /\ arg'[p] = arg[p] /\ Repaired(p)' = Repaired(p)
      OBVIOUS
    <3>1. pc'[p] = pc[p] /\ arg' = arg /\ reg' = reg /\ mem' = mem
      BY DEF Outside, Busy, ListsInv, HoldInv, Domains
    <3>. QED
      BY <3>1 DEF Repaired, Owed, A0, A1, D0
  <2>4. WalkMem(p)' = WalkMem(p) /\ Members(l)' = Members(l)
    BY <2>1, <2>2, <2>3 DEF WalkMem, Busy, Outside, Members
  <2>5. SameLinks(l, Members(l), WalkMem(p), WalkMem(p)')
    BY <2>4 DEF SameLinks, SameBut
  <2>. QED
    BY <1>2, <2>1, <2>2, <2>3, <2>4, <2>5, WalkUndisturbed
<1>. QED
  BY <1>1, <1>2

\* A walk starts at the head of a list its owner holds.
LEMMA WalkStarts ==
  ASSUME LinksInv, ListsInv, NEW p \in Actors, NEW l \in Lists, WalkFrom(p, l), walk = [q \in Actors |-> walk[q]]
  PROVE  WalkOf(p)'
<1>1. /\ p \in Tasks /\ Usable(p, l) /\ pc[p] = "idle" /\ pc' = pc /\ mem' = mem /\ where' = where
      /\ ready' = ready /\ SameExec
      /\ walk'[p] = [list |-> l, next |-> mem[l], cur |-> 0, due |-> Members(l)]
  BY DEF WalkFrom, At, ablesVars, SameExec
<1>2. ~Busy(p, l) /\ Active(p)
  BY <1>1, ActorsAssumption DEF Busy, Active
<1>3. Ahead(l, mem, Members(l), mem[l], 0, Members(l))
  BY <1>1, <1>2, FreeListWhole, AheadStart
<1>4. Usable(p, l)' /\ Members(l)' = Members(l) /\ ~Busy(p, l)'
  BY <1>1 DEF Usable, Owns, SameExec, Members, Busy
<1>5. WalkMem(p)' = mem
  BY <1>1, <1>4 DEF WalkMem, Busy
<1>6. Ahead(l, WalkMem(p)', Members(l)', mem[l], 0, Members(l))
  BY <1>3, <1>4, <1>5
<1>. QED
  BY <1>1, <1>4, <1>6 DEF WalkOf, Usable, Owns, Busy, Members

\* A step on a list keeps every walk.
LEMMA WalkMoves ==
  ASSUME LinksInv, ListsInv, KnownInv, WalkInv, [Next]_vars, NEW q \in Actors, NEW k \in Lists,
         (MacroStep(q) /\ k = arg[q].list) \/ Calls(q, k), walk' = walk
  PROVE  WalkInv'
<1>1. Moves(q, k) /\ SameExec
  BY MacroStepMoves, CallMoves, MacrosSameExec
<1>2. ASSUME NEW p \in Actors, InWalk(p)
      PROVE  WalkOf(p)'
  <2>0. WalkOf(p) /\ walk'[p] = walk[p]
    BY DEF WalkInv
  <2>1. PICK l \in Lists : l = walk[p].list
    BY <1>2, <2>0 DEF WalkOf
  <2>2. CASE k # l
    BY <1>1, <1>2, <2>0, <2>1, <2>2, WalkApart
  <2>3. CASE k = l
    <3>1. q = p
      BY <1>2, <2>0, <2>1, <2>3, WalkersOwn
    <3>. QED
      BY <1>1, <1>2, <2>0, <2>1, <2>3, <3>1, WalkerBegins, WalkerRemoves
  <2>. QED
    BY <2>2, <2>3
<1>3. ASSUME NEW p \in Actors, ~InWalk(p)
      PROVE  WalkOf(p)'
  BY <1>3, NotWalking DEF WalkInv
<1>4. walk' = [p \in Actors |-> walk'[p]]
  BY DEF WalkInv
<1>. QED
  BY <1>2, <1>3, <1>4 DEF WalkInv

\* Only NEXTNODE and its start touch walks.
LEMMA MacrosKeepWalks ==
  ASSUME NEW q \in Actors, MacroStep(q) \/ \E k \in Lists : Calls(q, k)
  PROVE  walk' = walk
BY DEF MacroStep, NewList1, NewList2, NewList3, NewListEnds, AddHead1, AddHead2, AddHead3, AddHead4, AddHeadEnds,
   AddTail1, AddTail2, AddTail3, AddTailLinks, AddTail4, Remove1, RemoveCall, Remove2, Remove3, Remove4,
   RemHead1, RemHead2, RemHead3, RemHeadTakes, RemHead4, RemHeadQ1, RemHeadQ2, RemHeadQ3, RemHeadQ4,
   RemTail1, RemTail2, RemTail3, RemTail4, RemTail5, RemTailEnds, TstLst2_1, TstLst2_2, Calls

\* Every step keeps every walk.
LEMMA WalkStep == LinksInv /\ ListsInv /\ KnownInv /\ WalkInv /\ [Next]_vars => WalkInv'
<1> SUFFICES ASSUME LinksInv, ListsInv, KnownInv, WalkInv, [Next]_vars PROVE WalkInv'
  OBVIOUS
<1>0. walk = [p \in Actors |-> walk[p]] /\ \A p \in Actors : WalkOf(p)
  BY DEF WalkInv
<1>1. ASSUME NEW q \in Actors, MacroStep(q) PROVE WalkInv'
  <2>1. walk' = walk
    BY <1>1, MacrosKeepWalks
  <2>2. PICK k \in Lists : k = arg[q].list
    BY <1>1, MacroStepList
  <2>. QED
    BY <1>1, <2>1, <2>2, WalkMoves
<1>2. ASSUME NEW q \in Actors, NEW k \in Lists, Calls(q, k) PROVE WalkInv'
  <2>1. walk' = walk
    BY <1>2, MacrosKeepWalks
  <2>. QED
    BY <1>2, <2>1, WalkMoves
<1>3. ASSUME NEW q \in Actors, NextNode(q) \/ \E l \in Lists : WalkFrom(q, l) PROVE WalkInv'
  <2>1. walk' = [walk EXCEPT ![q] = walk'[q]]
    BY <1>0, <1>3 DEF NextNode, WalkOn, WalkFrom
  <2>2. WalkOf(q)'
    BY <1>0, <1>3, WalkGoesOn, WalkStarts
  <2>3. SameExec /\ Outside
    BY <1>3, WalksSameExec, OutsideSteps
  <2>4. ASSUME NEW p \in Actors, p # q PROVE WalkOf(p)'
    <3>1. walk'[p] = walk[p] /\ KeepsHold(p)
      BY <2>1, <2>3, <2>4, <1>0 DEF KeepsHold
    <3>. QED
      BY <3>1, <2>3, <1>0, WalkOutside
  <2>. QED
    BY <1>0, <2>1, <2>2, <2>4 DEF WalkInv
<1>4. ASSUME walk' = walk, Outside, \A p \in Actors : KeepsHold(p) \/ ~InWalk(p) PROVE WalkInv'
  BY <1>0, <1>4, WalkOutside DEF WalkInv
<1>5. ASSUME NEW q \in Actors, NEW l \in Lists, TstList(q, l) PROVE WalkInv'
  <2>1. walk' = walk /\ SameExec /\ Outside
    BY <1>5, WalksSameExec, OutsideSteps DEF TstList
  <2>. QED
    BY <2>1, <1>4 DEF KeepsHold
<1>6. ASSUME NEW q \in Actors, Acquire(q) \/ EnableEnds(q) \/ Release(q) PROVE WalkInv'
  <2>1. walk' = walk /\ Outside
    BY <1>6, OutsideSteps DEF Acquire, EnableEnds, Release, listVars
  <2>2. \A p \in Actors : KeepsHold(p) \/ ~InWalk(p)
    BY <1>6 DEF KeepsHold, Release
  <2>. QED
    BY <2>1, <2>2, <1>4
<1>7. CASE ServerEnters \/ ServerReturns \/ UNCHANGED vars
  <2>1. walk' = walk /\ Outside
    BY <1>7, OutsideSteps DEF ServerEnters, ServerReturns, vars, listVars
  <2>2. ~InWalk(Server)
    BY <1>0, ActorsAssumption DEF WalkOf, Actors
  <2>3. \A p \in Actors : KeepsHold(p) \/ ~InWalk(p)
    BY <1>7, <2>2 DEF KeepsHold, vars, ablesVars, SameExec
  <2>. QED
    BY <2>1, <2>3, <1>4
<1>8. CASE \E p \in Actors : \E l \in Lists : Calls(p, l) \/ TstList(p, l) \/ WalkFrom(p, l)
  BY <1>2, <1>3, <1>5, <1>8
<1>9. CASE \E p \in Actors : MacroStep(p) \/ NextNode(p) \/ Acquire(p) \/ Release(p) \/ EnableEnds(p)
  BY <1>1, <1>3, <1>6, <1>9
<1>. QED
  BY <1>7, <1>8, <1>9, StepParts

(***************************************************************************)
(* The invariant, and what it implies                                      *)
(***************************************************************************)

\* The three parts hold at the start.
LEMMA LinksInitInv == Init => LinksInv /\ KnownInv /\ WalkInv
<1> SUFFICES ASSUME Init PROVE LinksInv /\ KnownInv /\ WalkInv
  OBVIOUS
<1>1. \A l \in Lists : Members(l) = {}
  <2>1. Lists \cap Actors = {}
    BY AddressAssumption
  <2>. QED
    BY <2>1 DEF Init, Members
<1>2. Shape
  <2>1. ASSUME NEW a \in Words
        PROVE  (IF "NEWLIST" \in Macros THEN 0
                ELSE IF a \in Lists THEN a + LH_TAIL
                ELSE IF a - LH_TAILPRED \in Lists THEN a - LH_TAILPRED ELSE 0) \in Addresses
    BY DEF Addresses
  <2>2. mem \in [Words -> Addresses]
    BY <2>1 DEF Init
  <2>3. where \in [Nodes -> Lists \cup Actors] /\ ready \in [Lists -> {"raw", "initialising", "usable"}]
    BY DEF Init
  <2>. QED
    BY <2>2, <2>3 DEF Init, AblesInit, Shape
<1>3. FreeWhole
  <2> SUFFICES ASSUME NEW l \in Lists, ready[l] = "usable" PROVE Whole(l, mem, {})
    BY <1>1 DEF FreeWhole
  <2>1. "NEWLIST" \notin Macros
    BY DEF Init
  <2>2. mem = [a \in Words |-> IF a \in Lists THEN a + LH_TAIL
                               ELSE IF a - LH_TAILPRED \in Lists THEN a - LH_TAILPRED ELSE 0]
    BY <2>1 DEF Init
  <2>3. l \in Words /\ l + LH_TAIL \in Words /\ l + LH_TAILPRED \in Words
    BY InWords
  <2>4. /\ l + LH_TAIL \notin Lists /\ l + LH_TAILPRED \notin Lists
        /\ (l + LH_TAIL) - LH_TAILPRED \notin Lists /\ (l + LH_TAILPRED) - LH_TAILPRED = l
    BY AddressAssumption DEF LH_TAIL, LH_TAILPRED
  <2>5. mem[l] = l + LH_TAIL /\ mem[l + LH_TAIL] = 0 /\ mem[l + LH_TAILPRED] = l
    BY <2>2, <2>3, <2>4
  <2>. QED
    BY <2>5, WholeNew
<1>4. BusySound /\ NewSound
  BY DEF Init, AblesInit, BusySound, NewSound, MacroLabels, NewListLabels
<1>5. KnownInv
  BY DEF Init, KnownInv
<1>6. WalkInv
  BY DEF Init, WalkInv, WalkOf, InWalk, NoWalk
<1>. QED
  BY <1>2, <1>3, <1>4, <1>5, <1>6 DEF LinksInv

\* The inductive invariant: ownership (ListsInv), pointers, what is known, walks.
PointersInv == ListsInv /\ LinksInv /\ KnownInv /\ WalkInv

\* It holds in every state of every behaviour.
LEMMA PointersInvariance == Spec => []PointersInv
<1>1. Init => PointersInv
  BY ListsInitInv, LinksInitInv DEF PointersInv
<1>2. PointersInv /\ [Next]_vars => PointersInv'
  BY ListsStep, LinksStep, KnownStep, WalkStep DEF PointersInv
<1>. QED
  BY <1>1, <1>2, PTL DEF Spec

\* Every usable list that nobody is inside a macro on is linked both ways, from
\* LH_HEAD to the tail and back, through exactly the nodes that are on it: the
\* macros of lists.i, with their owner interrupted between any two instructions,
\* never lose, double or cross a link.
THEOREM LinkedBothWaysTheorem == Spec => []LinkedBothWays
<1>1. PointersInv => LinkedBothWays
  <2> SUFFICES ASSUME PointersInv, NEW l \in Lists, ready[l] = "usable", \A p \in Actors : ~Busy(p, l)
               PROVE  /\ mem[l + LH_TAIL] = 0
                      /\ \A a \in Members(l) \cup {l} :
                           mem[a] \in Members(l) \cup {l + LH_TAIL} /\ mem[mem[a] + LN_PRED] = a
                      /\ \A a \in Members(l) \cup {l + LH_TAIL} :
                           mem[a + LN_PRED] \in Members(l) \cup {l} /\ mem[mem[a + LN_PRED]] = a
    BY DEF LinkedBothWays
  <2>1. Whole(l, mem, Members(l))
    BY DEF PointersInv, LinksInv, FreeWhole
  <2>. QED
    BY <2>1, WholeFacts
<1>. QED
  BY <1>1, PointersInvariance, PTL

\* A list an owner tested and found not empty is not empty while it still holds
\* it: nobody takes the last node away between the test and the REMHEADQ that
\* lists.i says needs it.
THEOREM KnownNonEmptyTheorem == Spec => []KnownNonEmpty
<1>1. PointersInv => KnownNonEmpty
  BY DEF PointersInv, KnownInv, KnownNonEmpty
<1>. QED
  BY <1>1, PointersInvariance, PTL

\* One comparison of LH_TAILPRED: what it says inside a macro.
LEMMA TestInMacro ==
  ASSUME PointersInv, NEW l \in Lists, NEW p \in Actors, Busy(p, l), ready[l] = "usable"
  PROVE  \/ IsListEmpty(l) <=> Members(l) = {}
         \/ ~IsListEmpty(l) /\ \E n \in Nodes : n = arg[p].node /\ where[n] = p
<1> DEFINE n == arg[p].node
           M == Members(l)
<1>1. pc[p] \in MacroLabels /\ Result(p, l) /\ Shape /\ l = arg[p].list
  BY DEF Busy, PointersInv, ListsInv, HoldInv, Domains, BusyInitialises, LinksInv, BusySound
<1>2. /\ M \subseteq Nodes /\ l + LH_TAIL + LN_PRED = l + LH_TAILPRED /\ l # l + LH_TAILPRED
      /\ l + LH_TAILPRED \in Words
  BY AddressAssumption, InWords DEF Members, LH_TAIL, LN_PRED, LH_TAILPRED
<1>3. CASE Owed(p).at # l + LH_TAILPRED
  <2>1. Repaired(p)[l + LH_TAILPRED] = mem[l + LH_TAILPRED]
    BY <1>1, <1>3 DEF Repaired, Shape
  <2>. QED
    BY <1>1, <2>1, WholeFacts DEF Result, IsListEmpty
<1>4. CASE Owed(p).at = l + LH_TAILPRED
  <2>1. l + LH_TAILPRED # 0 /\ l + LH_TAILPRED \notin Lasts(l)
    BY <1>2, NodeApartFromList, AddressAssumption DEF LH_TAILPRED, Lasts
  <2>2. CASE pc[p] \in {"AddTail3", "AddTail4"}
    <3>1. n \in Nodes /\ where[n] = p /\ mem[l + LH_TAILPRED] = n
      BY <1>1, <2>2 DEF Result, NodeOf, RegistersOf, Adding
    <3>. QED
      BY <3>1, NodeApartFromList DEF IsListEmpty
  <2>3. CASE pc[p] = "Remove4"
    <3>1. n \in Nodes /\ where[n] = p /\ mem[A0(p) + LN_PRED] = n
      BY <1>1, <2>3 DEF Result, NodeOf, RegistersOf, Removed
    <3>2. A0(p) + LN_PRED = l + LH_TAILPRED
      BY <1>4, <2>3 DEF Owed
    <3>. QED
      BY <3>1, <3>2, NodeApartFromList DEF IsListEmpty
  <2>4. CASE pc[p] \in {"RemHead4", "RemHeadQ4"}
    <3>1. n \in Nodes /\ where[n] = p /\ mem[A1(p) + LN_PRED] = n
      BY <1>1, <2>4 DEF Result, NodeOf, RegistersOf, Removed
    <3>2. A1(p) + LN_PRED = l + LH_TAILPRED
      BY <1>4, <2>4 DEF Owed
    <3>. QED
      BY <3>1, <3>2, NodeApartFromList DEF IsListEmpty
  <2>5. CASE pc[p] \in {"RemTail4", "RemTail5"}
    <3>1. A1(p) \in Lasts(l)
      BY <1>1, <2>5 DEF Result, RegistersOf
    <3>. QED
      BY <1>4, <2>1, <2>5, <3>1 DEF Owed
  <2>6. CASE pc[p] \in {"AddHead3", "AddHead4"}
    BY <1>1, <1>2, <1>4, <2>6 DEF Owed
  <2>. QED
    BY <1>4, <2>1, <2>2, <2>3, <2>4, <2>5, <2>6 DEF Owed, None
<1>. QED
  BY <1>3, <1>4

\* IsListEmpty (lists.h), one comparison of LH_TAILPRED, is right of any usable
\* list at any time, owned or not: what it answers is right of the list without
\* the macro in progress on it, or of the list with it.
THEOREM TestSafeAnyTimeTheorem == Spec => []TestSafeAnyTime
<1>1. PointersInv => TestSafeAnyTime
  <2> SUFFICES ASSUME PointersInv, NEW l \in Lists, ready[l] = "usable"
               PROVE  (IsListEmpty(l) <=> WithoutMacro(l) = {}) \/ (IsListEmpty(l) <=> WithMacro(l) = {})
    BY DEF TestSafeAnyTime, IsListEmpty
  <2>1. CASE \A p \in Actors : ~Busy(p, l)
    <3>1. Whole(l, mem, Members(l))
      BY <2>1 DEF PointersInv, LinksInv, FreeWhole
    <3>. QED
      BY <3>1, WholeFacts DEF WithoutMacro, IsListEmpty
  <2>2. ASSUME NEW p \in Actors, Busy(p, l), ~(IsListEmpty(l) <=> Members(l) = {})
        PROVE  IsListEmpty(l) <=> WithMacro(l) = {}
    <3>1. PICK n \in Nodes : n = arg[p].node /\ where[n] = p /\ ~IsListEmpty(l)
      BY <2>2, TestInMacro
    <3>2. p # l
      BY AddressAssumption
    <3>3. n \in WithMacro(l)
      BY <2>2, <3>1, <3>2 DEF WithMacro
    <3>. QED
      BY <3>1, <3>3
  <2>. QED
    BY <2>1, <2>2 DEF WithoutMacro
<1>. QED
  BY <1>1, PointersInvariance, PTL

\* TSTLST2, two loads with an interrupt between them, answers right under
\* arbitration.
THEOREM TestArbitratedTheorem == Spec => TestArbitrated
<1> DEFINE Right == \A p \in Actors : pc[p] = "TstLst2_2" /\ pc'[p] = "idle"
                      => (known'[p] = NoList <=> Members(arg[p].list) = {})
<1>1. PointersInv /\ [Next]_vars => Right
  <2> SUFFICES ASSUME PointersInv, [Next]_vars, NEW p \in Actors, pc[p] = "TstLst2_2", pc'[p] = "idle"
               PROVE  known'[p] = NoList <=> Members(arg[p].list) = {}
    OBVIOUS
  <2>0. LinksInv /\ ListsInv /\ KnownInv /\ Shape
    BY DEF PointersInv, LinksInv
  <2>1. MacroStep(p)
    <3>1. ASSUME NEW q \in Actors, NEW l \in Lists, Moves(q, l), q # p PROVE FALSE
      <4>1. pc'[p] = pc[p]
        BY <2>0, <3>1 DEF Moves, Local, OwnRegisters, Shape
      <4>. QED
        BY <4>1
    <3>2. ASSUME NEW q \in Actors, MacroStep(q) PROVE q = p
      <4>1. PICK l \in Lists : l = arg[q].list
        BY <2>0, <3>2, MacroStepList
      <4>. QED
        BY <2>0, <3>1, <3>2, <4>1, MacroStepMoves
    <3>3. ASSUME NEW q \in Actors, NEW l \in Lists, Calls(q, l) PROVE FALSE
      <4>1. q # p
        BY <3>3, CallsBegin
      <4>. QED
        BY <2>0, <3>1, <3>3, <4>1, CallMoves
    <3>4. ~Outside
      BY DEF Outside, MacroLabels
    <3>. QED
      BY <2>0, <3>2, <3>3, <3>4, StepParts, OutsideSteps
  <2>2. TstLst2_2(p)
    BY <2>1 DEF MacroStep, NewList2, NewList3, NewListEnds, AddHead2, AddHead3, AddHead4, AddHeadEnds, AddTail2, AddTail3,
       AddTailLinks, AddTail4, Remove2, Remove3, Remove4, RemHead2, RemHead3, RemHeadTakes, RemHead4,
       RemHeadQ2, RemHeadQ3, RemHeadQ4, RemTail2, RemTail3, RemTail4, RemTail5, RemTailEnds, Step, Finish, At
  <2>3. PICK l \in Lists : l = arg[p].list
    BY <2>0, <2>1, MacroStepList
  <2>4. known'[p] = IF mem[A1(p)] = 0 THEN NoList ELSE l
    BY <2>0, <2>2, <2>3 DEF TstLst2_2, Learn, KnownInv
  <2>5. l # NoList
    BY AddressAssumption DEF NoList
  <2>6. mem[A1(p)] = 0 <=> Members(l) = {}
    BY <2>0, <2>3, TstLst2Right
  <2>. QED
    BY <2>3, <2>4, <2>5, <2>6
<1>. QED
  BY <1>1, PointersInvariance, PTL DEF Spec, TestArbitrated

\* A walk by NEXTNODE passes each node that is on the list, though the walker
\* REMOVEs the node it stands on: each node passed was still due, and the walk
\* ends with none due.
THEOREM WalkCompleteTheorem == Spec => WalkComplete
<1> DEFINE Complete == \A p \in Tasks : InWalk(p) /\ walk'[p] # walk[p] =>
                         IF walk'[p] = NoWalk THEN walk[p].due = {} ELSE walk'[p].cur \in walk[p].due
<1>1. PointersInv /\ [Next]_vars => Complete
  <2> SUFFICES ASSUME PointersInv, [Next]_vars, NEW p \in Tasks, InWalk(p), walk'[p] # walk[p]
               PROVE  IF walk'[p] = NoWalk THEN walk[p].due = {} ELSE walk'[p].cur \in walk[p].due
    OBVIOUS
  <2>0. /\ LinksInv /\ ListsInv /\ p \in Actors /\ WalkOf(p)
        /\ walk = [q \in Actors |-> walk[q]]
    BY DEF PointersInv, WalkInv, Actors
  <2>1. NextNode(p)
    <3>1. ASSUME NEW q \in Actors, q # p, NextNode(q) \/ \E l \in Lists : WalkFrom(q, l) PROVE walk'[p] = walk[p]
      BY <2>0, <3>1 DEF NextNode, WalkOn, WalkFrom
    <3>2. \A l \in Lists : ~WalkFrom(p, l)
      BY DEF WalkFrom
    <3>3. ASSUME NEW q \in Actors, NEW l \in Lists, TstList(q, l) PROVE walk' = walk
      BY <3>3 DEF TstList
    <3>4. ASSUME \/ \E q \in Actors : Acquire(q) \/ Release(q) \/ EnableEnds(q)
                 \/ ServerEnters \/ ServerReturns \/ UNCHANGED vars
          PROVE  walk' = walk
      BY <3>4 DEF Acquire, Release, EnableEnds, ServerEnters, ServerReturns, vars, listVars
    <3>5. walk' # walk
      OBVIOUS
    <3>. QED
      BY <3>1, <3>2, <3>3, <3>4, <3>5, MacrosKeepWalks, StepParts
  <2>. QED
    BY <2>0, <2>1, WalkGoesOn
<1>. QED
  BY <1>1, PointersInvariance, PTL DEF Spec, WalkComplete
=============================================================================
