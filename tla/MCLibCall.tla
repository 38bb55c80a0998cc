----------------------------- MODULE MCLibCall -----------------------------
\* Every function of the package that has a description and a prototype, called
\* through each of its bindings with two variable arguments.
EXTENDS LibCall, PromiseTables, BindingTables

ByBinding == [pragma |-> Pragmas, sysbase |-> SysBasePragmas, vbcc |-> Inlines, gcc |-> Asms]

Of(l, b) ==
  LET described == Described(Sfd[l])
      bindings  == ByBinding[b][l]
      made(f)   ==
        LET p == Protos[l][f]
        IN  [ name    |-> <<l, f, b>>,
              promise |-> described[f] @@ [more |-> p.more, fixed |-> p.args, gives |-> p.gives],
              stub    |-> bindings[f] ]
  IN  {made(f) : f \in DOMAIN described \cap DOMAIN Protos[l] \cap DOMAIN bindings}

MCCalls ==
  UNION {Of(x[1], x[2]) : x \in {y \in (DOMAIN Protos) \X (DOMAIN ByBinding) : y[1] \in DOMAIN ByBinding[y[2]]}}

\* The description and the prototype give ReportMouse1 its arguments in one order
\* and the registers in the opposite one; the pragma has them right.
MCDisputed == {<<"intuition", "ReportMouse1", "pragma">>}
=============================================================================
