------------------------- MODULE ExecListRefinement --------------------------
(***************************************************************************)
(* The lists of ExecLists are the sequences of ListSpec.  What the list    *)
(* is, in the middle of a macro, is read off memory in the direction the   *)
(* macro leaves whole: backward from LH_TAILPRED during ADDHEAD and        *)
(* REMTAIL, forward from LH_HEAD during the others.  The one store that    *)
(* the chosen direction sees is where the macro takes effect.              *)
(***************************************************************************)
EXTENDS ExecLists, SequencesExt

\* There is only so much memory.
ASSUME FiniteAssumption == IsFiniteSet(Nodes)

\* s is what is met from address a on, following the word at offset off in each
\* node, up to an address that is not a node's.
Follows(m, a, off, s) ==
  /\ \A i \in DOMAIN s : s[i] = IF i = 1 THEN a ELSE m[s[i - 1] + off]
  /\ (IF s = <<>> THEN a ELSE m[Last(s) + off]) \notin Nodes

\* The nodes met; none, if that runs in circles.
Paths == UNION {[1 .. k -> Nodes] : k \in 0 .. Cardinality(Nodes)}
Path(m, a, off) ==
  IF \E s \in Paths : Follows(m, a, off, s) THEN CHOOSE s \in Paths : Follows(m, a, off, s) ELSE <<>>

Forward(m, l)  == Path(m, m[l], 0)
Backward(m, l) == Reverse(Path(m, m[l + LH_TAILPRED], LN_PRED))

BackwardMacro(l) ==
  \E p \in Actors : Busy(p, l) /\ pc[p] \in {"AddHead2", "AddHead3", "AddHead4",
                                  "RemTail2", "RemTail3", "RemTail4", "RemTail5"}

Contents(l) ==
  IF ready[l] # "usable" THEN <<>>
  ELSE IF BackwardMacro(l) THEN Backward(mem, l)
  ELSE Forward(mem, l)

Abstract == INSTANCE ListSpec
              WITH lists <- [l \in Lists |-> Contents(l)], holder <- where

\* The instruction at which p's macro takes effect performs the operation of the
\* macro's name, on the list and the node it was called for; REMHEAD and REMTAIL
\* give up only on an empty list.
TakesEffect(p, l, n) ==
  /\ AddHead4(p) => Abstract!AddHead(p, l, n)
  /\ AddTail4(p) => Abstract!AddTail(p, l, n)
  /\ Remove3(p)  => Abstract!RemoveNode(p, n)
  /\ RemHead3(p) \/ RemHeadQ3(p) => Abstract!RemHead(p, l)
  /\ RemTail3(p) => Abstract!RemTail(p, l)
  /\ (RemHead2(p) \/ RemTail2(p)) /\ pc'[p] = "idle" => Contents(l) = <<>>

\* Every behaviour of the macros, instruction by instruction and under the
\* arbitration they require, is one of atomic operations on sequences, each the
\* one its macro is named for: nothing is lost, duplicated or put in the wrong
\* place, and a REMHEAD or REMTAIL gets the node that was at that end.
ImplementsListSpec ==
  /\ Abstract!Spec
  /\ [][\A p \in Actors : TakesEffect(p, arg[p].list, arg[p].node)]_vars
=============================================================================
