----------------------------- MODULE UserNumbers -----------------------------
(***************************************************************************)
(* The numbers of users and groups: libraries/usergroup.h has them in a    *)
(* long, in which 0 is root and -2 nobody; files have them in a word, in   *)
(* which 65535 is root and 0 nobody.                                       *)
(***************************************************************************)
EXTENDS Integers

CONSTANTS
  Ids  \* the numbers that are given

Numbers == Ids \subseteq Int

VARIABLES
  given,  \* the number that was given
  id,     \* the number as it is now
  kept    \* where: in a "long" or in a "word"
idVars == <<given, id, kept>>

UG2MU(n) == IF n = 0 THEN 65535 ELSE IF n = -2 THEN 0 ELSE n
MU2UG_RootOnly(n) == IF n = 65535 THEN 0 ELSE n
MU2UG(n) == IF n = 65535 THEN 0 ELSE IF n = 0 THEN -2 ELSE n

Init == given \in Ids /\ id = given /\ kept = "long"

ToWord == kept = "long" /\ kept' = "word" /\ id' = UG2MU(id) % 65536 /\ UNCHANGED given
ToLong == kept = "word" /\ kept' = "long" /\ id' = MU2UG(id) /\ UNCHANGED given

Next == ToWord \/ ToLong
Spec == Init /\ [][Next]_idVars

\* A number that a file keeps and that is read again is the one that was given,
\* whether it is root, nobody or another, as long as it is below 65535; and none
\* but -1 and 65535, and what is congruent to them, becomes root.
NumberKept ==
  kept = "long" =>
    /\ given = -2 \/ (given \in Nat /\ given < 65535) => id = given
    /\ id = 0 => given = 0 \/ given % 65536 = 65535
=============================================================================
