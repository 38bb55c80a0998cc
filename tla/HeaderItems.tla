----------------------------- MODULE HeaderItems -----------------------------
(***************************************************************************)
(* How the tables write a header down: what the preprocessor does in it, in *)
(* its order.  The name exec_types stands for <exec/types.h>.              *)
(***************************************************************************)
EXTENDS Sequences

\* A condition is a set of alternatives: macros that must be defined, macros that
\* must not be.
Holds_Yes(when, defined) == \E w \in when : w[1] \subseteq defined
Holds(when, defined) ==
  \E w \in when : w[1] \subseteq defined /\ w[2] \cap defined = {}
Always == {<<{}, {}>>}

\* #include lines under one condition; the text between two of them, with the
\* headers that alone declare a type, structure or array bound the text needs to
\* be complete; a #define that some condition of an #include tests.
When(alternatives, names) == [kind |-> "include", when |-> alternatives, names |-> names, uses |-> {}]
Get(names)     == When(Always, names)
Need(g, name)  == When({<<{}, {g}>>}, <<name>>)
Text(uses)     == [kind |-> "text", when |-> Always, names |-> <<>>, uses |-> uses]
Define(m)      == [kind |-> "define", when |-> Always, names |-> <<m>>, uses |-> {}]
DefineIf(alternatives, m) == [kind |-> "define", when |-> alternatives, names |-> <<m>>, uses |-> {}]

\* A header whose text lies in #ifndef g, #define g and #endif; one that has no such
\* guard.
H(g, items)     == [guard |-> {g}, items |-> items]
Unguarded(items) == [guard |-> {}, items |-> items]

\* include/proto: the prototypes unless the compiler is gcc, the base, and the
\* binding that the compiler takes.
Proto(g, gProtos, types, protos, defines, gcc, vbcc, pragma) ==
  H(g, types \o
    << When({<<{}, {gProtos, "__GNUC__"}>>}, <<protos>>), Text({}),
       When({<<{"__GNUC__", "__AROS__"}, {}>>}, <<defines>>),
       When({<<{"__GNUC__"}, {"__AROS__"}>>}, <<gcc>>),
       When({<<{"__VBCC__"}, {"__GNUC__"}>>}, <<vbcc>>),
       When({<<{}, {"__GNUC__", "__VBCC__"}>>}, <<pragma>>) >>)
=============================================================================
