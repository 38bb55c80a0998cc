------------------------------ MODULE ListSpec -------------------------------
(***************************************************************************)
(* What the list macros promise: a list is a sequence of nodes, a node is  *)
(* on one list or with one actor, and every macro takes effect at once.    *)
(***************************************************************************)
EXTENDS Sequences, SequencesExt

CONSTANTS Nodes, Lists, Actors

VARIABLES
  lists,    \* the nodes on each list, from head to tail
  holder    \* the actor that has a node, or the list it is on

Init ==
  /\ lists = [l \in Lists |-> <<>>]
  /\ holder \in [Nodes -> Actors]

\* ADDHEAD and ADDTAIL: p puts a node it has at one end.
AddHead(p, l, n) ==
  /\ holder[n] = p
  /\ lists' = [lists EXCEPT ![l] = <<n>> \o @]
  /\ holder' = [holder EXCEPT ![n] = l]

AddTail(p, l, n) ==
  /\ holder[n] = p
  /\ lists' = [lists EXCEPT ![l] = Append(@, n)]
  /\ holder' = [holder EXCEPT ![n] = l]

\* REMHEAD, REMHEADQ and REMTAIL: p gets the node at one end, if there is one.
RemHead(p, l) ==
  /\ lists[l] # <<>>
  /\ lists' = [lists EXCEPT ![l] = Tail(@)]
  /\ holder' = [holder EXCEPT ![Head(lists[l])] = p]

RemTail(p, l) ==
  /\ lists[l] # <<>>
  /\ lists' = [lists EXCEPT ![l] = Front(@)]
  /\ holder' = [holder EXCEPT ![Last(lists[l])] = p]

\* REMOVE: p gets the node out of whatever list it is on.
RemoveNode(p, n) ==
  /\ holder[n] \in Lists
  /\ \E i \in DOMAIN lists[holder[n]] :
       /\ lists[holder[n]][i] = n
       /\ lists' = [lists EXCEPT ![holder[n]] = RemoveAt(@, i)]
  /\ holder' = [holder EXCEPT ![n] = p]

Next ==
  \E p \in Actors, l \in Lists :
    \/ RemHead(p, l) \/ RemTail(p, l)
    \/ \E n \in Nodes : AddHead(p, l, n) \/ AddTail(p, l, n) \/ RemoveNode(p, n)

Spec == Init /\ [][Next]_<<lists, holder>>
=============================================================================
