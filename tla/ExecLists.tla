----------------------------- MODULE ExecLists ------------------------------
(***************************************************************************)
(* Exec's doubly linked lists: the macros of ndk/include_i/exec/lists.i    *)
(* and the emptiness tests of ndk/include_h/exec/lists.h, run by tasks and *)
(* an interrupt server under the arbitration of ExecAbles.                 *)
(*                                                                         *)
(* Memory is a function from word addresses to words, so that the list     *)
(* header is, as in the code, the two overlapping nodes at LH_HEAD and at  *)
(* LH_TAIL.  Every instruction that touches memory is a step; one that     *)
(* only moves registers is part of the step before it.  A macro's first    *)
(* step includes the caller loading its registers.                         *)
(***************************************************************************)
EXTENDS ExecAbles

CONSTANTS
  Nodes,      \* addresses of the nodes
  Lists,      \* addresses of the list headers
  TaskLists,  \* the lists only tasks use; the server uses the others too
  Macros      \* bound: the macros the programs use

\* Programs do not nest deeper than a BYTE that starts at -1 can count.
ASSUME DepthAssumption == MaxDepth <= ByteMax + 1

LN_PRED     == 4     \* LN_SUCC is at 0
LH_TAIL     == 4     \* LH_HEAD is at 0
LH_TAILPRED == 8

\* Structures do not overlap, nor lie at address 0.
ASSUME AddressAssumption ==
  /\ Nodes \cup Lists \subseteq Nat \ {0} /\ TaskLists \subseteq Lists
  /\ \A n, m \in Nodes : n < m => n + 8 <= m
  /\ \A k, l \in Lists : k < l => k + 12 <= l
  /\ \A n \in Nodes, l \in Lists : n + 8 <= l \/ l + 12 <= n
  /\ (Nodes \cup Lists) \cap Actors = {}

Words == (UNION {{n, n + LN_PRED} : n \in Nodes})
           \cup (UNION {{l, l + LH_TAIL, l + LH_TAILPRED} : l \in Lists})
Addresses == {0} \cup Nodes \cup Lists \cup {l + LH_TAIL : l \in Lists}
NoList == 0

VARIABLES
  mem,      \* memory
  reg,      \* registers A0, A1 and D0 of each actor
  arg,      \* the list and node each actor's macro is about
  where,    \* the list a node is on, or the actor that has it
  ready,    \* state of a header: raw, initialising, usable
  known,    \* the list an actor knows to be non-empty, or NoList
  walk      \* an actor's walk along a list with NEXTNODE

listVars == <<mem, reg, arg, where, ready, known, walk>>
vars     == <<ablesVars, listVars>>

Members(l) == {n \in Nodes : where[n] = l}
Scratch == [a0 |-> 0, a1 |-> 0, d0 |-> 0]
NoArg   == [list |-> NoList, node |-> 0]
NoWalk  == [list |-> NoList, next |-> 0, cur |-> 0, due |-> {}]

ListsTypeOK ==
  /\ mem \in [Words -> Addresses]
  /\ reg \in [Actors -> [a0 : Words \cup {0}, a1 : Words \cup {0}, d0 : Words \cup {0}]]
  /\ arg \in [Actors -> [list : Lists \cup {NoList}, node : Nodes \cup {0}]]
  /\ where \in [Nodes -> Lists \cup Actors]
  /\ ready \in [Lists -> {"raw", "initialising", "usable"}]
  /\ known \in [Actors -> Lists \cup {NoList}]

\* Fresh memory; the headers have been set up unless programs do so by NEWLIST.
Init ==
  /\ AblesInit
  /\ mem = [a \in Words |->
              IF "NEWLIST" \in Macros THEN 0
              ELSE IF a \in Lists THEN a + LH_TAIL
              ELSE IF a - LH_TAILPRED \in Lists THEN a - LH_TAILPRED ELSE 0]
  /\ reg = [p \in Actors |-> Scratch]
  /\ arg = [p \in Actors |-> NoArg]
  /\ where \in [Nodes -> Actors]
  /\ ready = [l \in Lists |-> IF "NEWLIST" \in Macros THEN "raw" ELSE "usable"]
  /\ known = [p \in Actors |-> NoList]
  /\ walk = [p \in Actors |-> NoWalk]

(***************************************************************************)
(* "Most of the macros require ownership or locking of the list before     *)
(* use": DISABLE if the server uses the list too, else FORBID will do; the *)
(* server itself cuts in only where tasks have not disabled it.            *)
(***************************************************************************)
Owns_NotAsked(p, l) == p \in Tasks \/ l \notin TaskLists             \* variant
Owns_ForbidOnly(p, l) == IF p = Server THEN l \notin TaskLists       \* variant
                         ELSE disables[p] > 0 \/ forbids[p] > 0
Owns(p, l) == \/ p = Server /\ l \notin TaskLists
              \/ p \in Tasks /\ disables[p] > 0
              \/ p \in Tasks /\ forbids[p] > 0 /\ l \in TaskLists

A0(p) == reg[p].a0
A1(p) == reg[p].a1
D0(p) == reg[p].d0

\* One instruction of p: from one program counter to the next, with the
\* registers it leaves.
Step(p, from, to, x0, x1, y0) ==
  /\ At(p, from) /\ Goto(p, to)
  /\ reg' = [reg EXCEPT ![p] = [a0 |-> x0, a1 |-> x1, d0 |-> y0]]
  /\ UNCHANGED <<exec, disables, forbids>>

\* The last instruction: the registers are scratch, or "destroyed", from then on.
Finish(p, from) ==
  /\ At(p, from) /\ Goto(p, "idle")
  /\ reg' = [reg EXCEPT ![p] = Scratch] /\ arg' = [arg EXCEPT ![p] = NoArg]
  /\ UNCHANGED <<exec, disables, forbids>>

\* In the middle of a walk p deals only with the node it stands on: it may
\* REMOVE it, and put it on another list.
InWalk(p) == walk[p].list # NoList
MayHandle(p, l, n) == InWalk(p) => n = walk[p].cur /\ n # 0 /\ l # walk[p].list

\* The first instruction of a macro, for list l and node n.
Call(p, macro, l, n, to, x0, x1, y0) ==
  /\ macro \in Macros /\ MayHandle(p, l, n)
  /\ Step(p, "idle", to, x0, x1, y0)
  /\ arg' = [arg EXCEPT ![p] = [list |-> l, node |-> n]]

Store(a, v)         == mem' = [mem EXCEPT ![a] = v]
Store2(a, v, b, w)  == mem' = [mem EXCEPT ![a] = v, ![b] = w]

\* The ghost state when a macro has put n on list l, or p has taken it off.
Put(p, n, l) == where' = [where EXCEPT ![n] = l]
Take(p, n)   == /\ where' = [where EXCEPT ![n] = p]
                /\ known' = [known EXCEPT ![p] = NoList]

Usable(p, l) == Owns(p, l) /\ ready[l] = "usable"

(***************************************************************************)
(* NEWLIST, once, by the task that sets the list up                        *)
(***************************************************************************)
NewList1(p, l) ==
  /\ p \in Tasks /\ ready[l] = "raw"
  /\ Call(p, "NEWLIST", l, 0, "NewList2", l, A1(p), D0(p))
  /\ Store(l + LH_TAILPRED, l)
  /\ ready' = [ready EXCEPT ![l] = "initialising"]
  /\ UNCHANGED <<where, known, walk>>

NewList2(p) ==    \* ADDQ.L #4 and CLR.L
  /\ Step(p, "NewList2", "NewList3", A0(p) + 4, A1(p), D0(p))
  /\ Store(A0(p) + 4, 0)
  /\ UNCHANGED <<arg, where, ready, known, walk>>

NewListEnds(p, head) ==
  /\ Finish(p, "NewList3")
  /\ Store(A0(p) - 4, head)
  /\ ready' = [ready EXCEPT ![arg[p].list] = "usable"]
  /\ UNCHANGED <<where, known, walk>>
NewList3_After(p) == NewListEnds(p, A0(p) - 4)    \* variant: after the decrement
NewList3(p)       == NewListEnds(p, A0(p))        \* MOVE.L list,-(list)

(***************************************************************************)
(* ADDHEAD and ADDTAIL                                                     *)
(***************************************************************************)
AddHead1(p, l, n) ==
  /\ Usable(p, l) /\ where[n] = p
  /\ Call(p, "ADDHEAD", l, n, "AddHead2", l, n, mem[l])
  /\ UNCHANGED <<mem, where, ready, known, walk>>

AddHead2(p) ==
  /\ Step(p, "AddHead2", "AddHead3", A0(p), A1(p), D0(p))
  /\ Store(A0(p), A1(p))
  /\ UNCHANGED <<arg, where, ready, known, walk>>

AddHead3(p) ==    \* MOVEM.L D0/A0,(A1); MOVE.L D0,A0
  /\ Step(p, "AddHead3", "AddHead4", D0(p), A1(p), D0(p))
  /\ Store2(A1(p), D0(p), A1(p) + LN_PRED, A0(p))
  /\ UNCHANGED <<arg, where, ready, known, walk>>

AddHeadEnds(p, a) ==
  /\ Finish(p, "AddHead4")
  /\ Store(a, A1(p))
  /\ Put(p, arg[p].node, arg[p].list)
  /\ UNCHANGED <<ready, known, walk>>
AddHead4_Succ(p) == AddHeadEnds(p, A0(p))    \* variant: without LN_PRED
AddHead4(p)      == AddHeadEnds(p, A0(p) + LN_PRED)

AddTail1(p, l, n) ==    \* ADDQ.L #LH_TAIL,A0; MOVE.L LN_PRED(A0),D0
  /\ Usable(p, l) /\ where[n] = p
  /\ Call(p, "ADDTAIL", l, n, "AddTail2", l + LH_TAIL, n, mem[l + LH_TAIL + LN_PRED])
  /\ UNCHANGED <<mem, where, ready, known, walk>>

AddTail2(p) ==    \* the store to LH_TAILPRED, then EXG D0,A0
  /\ Step(p, "AddTail2", "AddTail3", D0(p), A1(p), A0(p))
  /\ Store(A0(p) + LN_PRED, A1(p))
  /\ UNCHANGED <<arg, where, ready, known, walk>>

AddTailLinks(p, succ, pred) ==
  /\ Step(p, "AddTail3", "AddTail4", A0(p), A1(p), D0(p))
  /\ Store2(A1(p), succ, A1(p) + LN_PRED, pred)
  /\ UNCHANGED <<arg, where, ready, known, walk>>
AddTail3_NoExg(p) == AddTailLinks(p, A0(p), D0(p))    \* variant
AddTail3(p)       == AddTailLinks(p, D0(p), A0(p))

AddTail4(p) ==
  /\ Finish(p, "AddTail4")
  /\ Store(A0(p), A1(p))
  /\ Put(p, arg[p].node, arg[p].list)
  /\ UNCHANGED <<ready, known, walk>>

(***************************************************************************)
(* REMOVE: the caller knows the node is on a list it owns, not which.      *)
(***************************************************************************)
RemoveCall(p, n) ==
  /\ Step(p, "idle", "Remove2", mem[n], n + LN_PRED, D0(p))   \* MOVE.L (A1)+,A0
  /\ arg' = [arg EXCEPT ![p] = [list |-> where[n], node |-> n]]
  /\ UNCHANGED <<mem, where, ready, known, walk>>

Remove1(p, n) ==
  /\ "REMOVE" \in Macros /\ where[n] \in Lists /\ Usable(p, where[n])
  /\ InWalk(p) => n = walk[p].cur
  /\ RemoveCall(p, n)

Remove2(p) ==
  /\ Step(p, "Remove2", "Remove3", A0(p), mem[A1(p)], D0(p))
  /\ UNCHANGED <<mem, arg, where, ready, known, walk>>

Remove3(p) ==
  /\ Step(p, "Remove3", "Remove4", A0(p), A1(p), D0(p))
  /\ Store(A1(p), A0(p))
  /\ Take(p, arg[p].node)
  /\ UNCHANGED <<arg, ready, walk>>

Remove4(p) ==
  /\ Finish(p, "Remove4")
  /\ Store(A0(p) + LN_PRED, A1(p))
  /\ UNCHANGED <<where, ready, known, walk>>

(***************************************************************************)
(* REMHEAD, REMTAIL, and REMHEADQ for a list known to be non-empty.  The   *)
(* caller has the node when it is in D0, after EXG.                        *)
(***************************************************************************)
NodeOr0(a) == IF a \in Nodes THEN a ELSE 0

RemHead1(p, l) ==
  /\ Usable(p, l)
  /\ Call(p, "REMHEAD", l, NodeOr0(mem[l]), "RemHead2", l, mem[l], D0(p))
  /\ UNCHANGED <<mem, where, ready, known, walk>>

\* MOVE.L (A1),D0 sets the condition codes.  BEQ: the list is empty, D0 is 0.
RemHead2(p) ==
  /\ At(p, "RemHead2")
  /\ IF mem[A1(p)] = 0
       THEN Finish(p, "RemHead2")
       ELSE Step(p, "RemHead2", "RemHead3", A0(p), A1(p), mem[A1(p)]) /\ UNCHANGED arg
  /\ UNCHANGED <<mem, where, ready, known, walk>>

RemHeadTakes(p, node, next) ==
  /\ Step(p, "RemHead3", "RemHead4", A0(p), next, node)
  /\ Store(A0(p), D0(p))
  /\ Take(p, node)
  /\ UNCHANGED <<arg, ready, walk>>
RemHead3_NoExg(p) == RemHeadTakes(p, D0(p), A1(p))    \* variant
RemHead3(p)       == RemHeadTakes(p, A1(p), D0(p))    \* MOVE.L D0,(A0); EXG D0,A1

RemHead4(p) ==
  /\ Finish(p, "RemHead4")
  /\ Store(A1(p) + LN_PRED, A0(p))
  /\ UNCHANGED <<where, ready, known, walk>>

RemHeadQ1(p, l) ==
  /\ Usable(p, l) /\ known[p] = l
  /\ Call(p, "REMHEADQ", l, NodeOr0(mem[l]), "RemHeadQ2", l, A1(p), mem[l])
  /\ UNCHANGED <<mem, where, ready, known, walk>>

RemHeadQ2(p) ==
  /\ Step(p, "RemHeadQ2", "RemHeadQ3", A0(p), mem[D0(p)], D0(p))
  /\ UNCHANGED <<mem, arg, where, ready, known, walk>>

RemHeadQ3(p) ==
  /\ Step(p, "RemHeadQ3", "RemHeadQ4", A0(p), A1(p), D0(p))
  /\ Store(A0(p), A1(p))
  /\ Take(p, D0(p))
  /\ UNCHANGED <<arg, ready, walk>>

RemHeadQ4(p) ==
  /\ Finish(p, "RemHeadQ4")
  /\ Store(A1(p) + LN_PRED, A0(p))
  /\ UNCHANGED <<where, ready, known, walk>>

RemTail1(p, l) ==
  /\ Usable(p, l)
  /\ Call(p, "REMTAIL", l, NodeOr0(mem[l + LH_TAILPRED]), "RemTail2",
          l, mem[l + LH_TAILPRED], D0(p))
  /\ UNCHANGED <<mem, where, ready, known, walk>>

RemTail2(p) ==
  LET pred == mem[A1(p) + LN_PRED] IN
  /\ At(p, "RemTail2")
  /\ IF pred = 0
       THEN Finish(p, "RemTail2")
       ELSE Step(p, "RemTail2", "RemTail3", A0(p), A1(p), pred) /\ UNCHANGED arg
  /\ UNCHANGED <<mem, where, ready, known, walk>>

RemTail3(p) ==    \* the store to LH_TAILPRED; EXG D0,A1
  /\ Step(p, "RemTail3", "RemTail4", A0(p), D0(p), A1(p))
  /\ Store(A0(p) + LH_TAILPRED, D0(p))
  /\ Take(p, A1(p))
  /\ UNCHANGED <<arg, ready, walk>>

RemTail4(p) ==    \* MOVE.L A0,(A1): the list's address, four short of LH_TAIL
  /\ Step(p, "RemTail4", "RemTail5", A0(p), A1(p), D0(p))
  /\ Store(A1(p), A0(p))
  /\ UNCHANGED <<arg, where, ready, known, walk>>

RemTailEnds(p, tail) ==
  /\ Finish(p, "RemTail5")
  /\ Store(A1(p), tail)
  /\ UNCHANGED <<where, ready, known, walk>>
RemTail5_Add8(p) == RemTailEnds(p, mem[A1(p)] + 8)    \* variant: to LH_TAILPRED
RemTail5(p)      == RemTailEnds(p, mem[A1(p)] + 4)    \* ADDQ.L #4,(A1)

(***************************************************************************)
(* TSTLIST and IsListEmpty: one comparison, "safe at any time".  TSTLST2:  *)
(* two loads, "list arbitration required".  An owner that finds the list   *)
(* non-empty knows it to stay so while it keeps its hold.                  *)
(***************************************************************************)
IsListEmpty_Head(l) == mem[mem[l]] = 0    \* variant: what TSTLST2 computes
IsListEmpty(l) == mem[l + LH_TAILPRED] = l

Learn(p, l, empty) ==
  known' = [known EXCEPT ![p] = IF empty THEN NoList ELSE l]

TstList(p, l) ==
  /\ "TSTLIST" \in Macros /\ ~InWalk(p)
  /\ At(p, "idle") /\ Usable(p, l)
  /\ Learn(p, l, IsListEmpty(l))
  /\ UNCHANGED <<ablesVars, mem, reg, arg, where, ready, walk>>

TstLst2_1(p, l) ==
  /\ Usable(p, l)
  /\ Call(p, "TSTLST2", l, 0, "TstLst2_2", A0(p), mem[l], D0(p))
  /\ UNCHANGED <<mem, where, ready, known, walk>>

TstLst2_2(p) ==
  /\ Finish(p, "TstLst2_2")
  /\ Learn(p, arg[p].list, mem[A1(p)] = 0)
  /\ UNCHANGED <<mem, where, ready, walk>>

(***************************************************************************)
(* SUCC and NEXTNODE                                                       *)
(***************************************************************************)
WalkFrom(p, l) ==    \* SUCC list,next
  /\ "NEXTNODE" \in Macros
  /\ p \in Tasks /\ Usable(p, l) /\ At(p, "idle") /\ ~InWalk(p)
  /\ walk' = [walk EXCEPT ![p] = [list |-> l, next |-> mem[l], cur |-> 0, due |-> Members(l)]]
  /\ UNCHANGED <<ablesVars, mem, reg, arg, where, ready, known>>

WalkOn(p, cur) ==
  /\ At(p, "idle") /\ InWalk(p)
  /\ walk' = [walk EXCEPT ![p] =
       IF mem[cur] = 0 THEN NoWalk
       ELSE [list |-> walk[p].list, next |-> mem[cur], cur |-> cur, due |-> walk[p].due \ {cur}]]
  /\ UNCHANGED <<ablesVars, mem, reg, arg, where, ready, known>>

\* Variant: the next node is read from the current one when the walk moves on.
NextNode_Late(p) == WalkOn(p, IF walk[p].cur = 0 THEN walk[p].next ELSE mem[walk[p].cur])
\* MOVE.L next,current; MOVE.L (current),next; BEQ exit.
NextNode(p) == WalkOn(p, walk[p].next)

(***************************************************************************)
(* Arbitration around the macros: what an actor knows of a list ends with  *)
(* its hold on it, and a walk is finished first.                           *)
(***************************************************************************)
Acquire(p) == (Disable1(p) \/ Disable2(p) \/ (p \in Tasks /\ Forbid(p)))
              /\ UNCHANGED listVars

Release(p) ==
  /\ ~InWalk(p)
  /\ Enable1(p) \/ (p \in Tasks /\ Permit(p))
  /\ known' = [known EXCEPT ![p] = NoList]
  /\ UNCHANGED <<mem, reg, arg, where, ready, walk>>

EnableEnds(p) == Enable2(p) /\ UNCHANGED listVars

ServerEnters == Interrupt /\ UNCHANGED listVars

ServerReturns ==
  /\ ReturnFromInterrupt
  /\ known' = [known EXCEPT ![Server] = NoList]
  /\ UNCHANGED <<mem, reg, arg, where, ready, walk>>

MacroStep(p) ==
  \/ NewList2(p) \/ NewList3(p)
  \/ AddHead2(p) \/ AddHead3(p) \/ AddHead4(p)
  \/ AddTail2(p) \/ AddTail3(p) \/ AddTail4(p)
  \/ Remove2(p) \/ Remove3(p) \/ Remove4(p)
  \/ RemHead2(p) \/ RemHead3(p) \/ RemHead4(p)
  \/ RemHeadQ2(p) \/ RemHeadQ3(p) \/ RemHeadQ4(p)
  \/ RemTail2(p) \/ RemTail3(p) \/ RemTail4(p) \/ RemTail5(p)
  \/ TstLst2_2(p)

MacroCall(p) ==
  \/ \E l \in Lists : NewList1(p, l) \/ RemHead1(p, l) \/ RemHeadQ1(p, l) \/ RemTail1(p, l)
                        \/ TstList(p, l) \/ TstLst2_1(p, l) \/ WalkFrom(p, l)
  \/ \E l \in Lists, n \in Nodes : AddHead1(p, l, n) \/ AddTail1(p, l, n)
  \/ \E n \in Nodes : Remove1(p, n)

Next ==
  \/ \E p \in Actors : \/ MacroCall(p) \/ MacroStep(p) \/ NextNode(p)
                       \/ Acquire(p) \/ Release(p) \/ EnableEnds(p)
  \/ ServerEnters \/ ServerReturns

Spec == Init /\ [][Next]_vars

\* The CPU executes what an actor has begun, however often interrupts cut in; a
\* walker goes on walking; the server lets go of what it holds and returns.
Begun(p) == MacroStep(p) \/ EnableEnds(p) \/ (Disable2(p) /\ UNCHANGED listVars)
FairSpec ==
  /\ Spec /\ SF_vars(Release(Server)) /\ SF_vars(ServerReturns)
  /\ \A p \in Actors : SF_vars(Begun(p))
  /\ \A t \in Tasks : SF_vars(NextNode(t))

(***************************************************************************)
(* Properties                                                              *)
(***************************************************************************)

\* p is between the first and the last instruction of a macro on list l.
Busy(p, l) == pc[p] \notin {"idle", "Disable2", "Enable2"} /\ arg[p].list = l

\* Two actors are never inside macros on the same list: what FORBID and DISABLE
\* are for.
OneAtATime == \A p, q \in Actors, l \in Lists : Busy(p, l) /\ Busy(q, l) => p = q

\* When nobody is inside a macro on it, a list's nodes and the two ends of its
\* header point at one another both ways, LH_TAIL is 0, and no pointer leads to
\* a node that is not on the list.
LinkedBothWays ==
  \A l \in Lists : ready[l] = "usable" /\ (\A p \in Actors : ~Busy(p, l)) =>
    /\ mem[l + LH_TAIL] = 0
    /\ \A a \in Members(l) \cup {l} :
         mem[a] \in Members(l) \cup {l + LH_TAIL} /\ mem[mem[a] + LN_PRED] = a
    /\ \A a \in Members(l) \cup {l + LH_TAIL} :
         mem[a + LN_PRED] \in Members(l) \cup {l} /\ mem[mem[a + LN_PRED]] = a

\* "This operation is safe at any time - no list arbitration needed"
\* (lists.i:52, lists.h:40): even between two instructions of somebody else's
\* macro, the one comparison of TSTLIST and IsListEmpty says what is true of
\* the list either before or after that macro.
WithoutMacro(l) == Members(l)
WithMacro(l)    == {n \in Nodes : (where[n] = l) # (\E p \in Actors : Busy(p, l) /\ arg[p].node = n)}
TestSafeAnyTime ==
  \A l \in Lists : ready[l] = "usable" =>
    IsListEmpty(l) \in {WithoutMacro(l) = {}, WithMacro(l) = {}}

\* What an owner has found by TSTLIST or TSTLST2 is still so when it acts on it.
KnownNonEmpty == \A p \in Actors : known[p] # NoList => Members(known[p]) # {}

\* TSTLST2 answers right when the list is arbitrated, as it "requires".
TestArbitrated ==
  [][\A p \in Actors : pc[p] = "TstLst2_2" /\ pc'[p] = "idle"
       => (known'[p] = NoList <=> Members(arg[p].list) = {})]_vars

\* A walk with NEXTNODE meets every node that was on the list, each once, even
\* if the walker REMOVEs nodes it stands on and puts them on another list.
WalkComplete ==
  [][\A p \in Tasks : InWalk(p) /\ walk'[p] # walk[p] =>
       IF walk'[p] = NoWalk THEN walk[p].due = {} ELSE walk'[p].cur \in walk[p].due]_vars

\* Interrupted or not, a walk reaches the end of the list: no macro leaves the
\* pointers running in circles.
WalksEnd == \A p \in Tasks : InWalk(p) ~> ~InWalk(p)
=============================================================================
