------------------------------- MODULE Headers -------------------------------
(***************************************************************************)
(* A translation unit is read: the compiler's preprocessor goes through the *)
(* headers that the unit asks for, and through those that they include.    *)
(***************************************************************************)
EXTENDS HeaderItems, SequencesExt

CONSTANTS
  Paths,       \* search paths: what is found along each of them under each name
  Predefined,  \* the macros that the compiler defines itself
  Units,       \* the units: [path, asked], the names of asked in their order
  First,       \* what the program must include before some headers, in its order
  Missing,     \* the headers that lead to one the package does not have
  Hides,       \* pairs of headers: after the first, the second is not read
  Reach,       \* for each path and header, the headers it may lead to, and itself
  Sure         \* those that have been read to their end whenever it has

VARIABLES
  unit,     \* the unit that is read
  stack,    \* the headers that are open, the innermost first: [name, at], the item
            \* that is next, or 0 before the guard
  defined,  \* the macros that are defined
  closed,   \* the headers that have been read to their end
  failed    \* the names that were not found: the compiler stops there
vars == <<unit, stack, defined, closed, failed>>

Found == Paths[unit.path]

\* The program's own lines have no name.
NoName == ""
Items(name) == IF name = NoName THEN << Get(unit.asked) >> ELSE Found[name].items
Frames_Reversed(names) == [i \in DOMAIN names |-> [name |-> names[Len(names) + 1 - i], at |-> 0]]
Frames(names) == [i \in DOMAIN names |-> [name |-> names[i], at |-> 0]]

Init ==
  /\ unit \in Units
  /\ stack = << [name |-> NoName, at |-> 1] >>
  /\ defined = Predefined
  /\ closed = {} /\ failed = {}

Reading == stack # <<>> /\ failed = {}
Top == Head(stack)
Item == Items(Top.name)[Top.at]
Begun == Reading /\ Top.at > 0
Next1(kind) == Begun /\ Top.at <= Len(Items(Top.name)) /\ Item.kind = kind

\* The stack when the item has been dealt with.
Rest == << [Top EXCEPT !.at = @ + 1] >> \o Tail(stack)

\* #ifndef at the start of a header, and #define after it.
Guard == Found[Top.name].guard
GuardedOut_Not == FALSE
GuardedOut_Late == Guard # {}
GuardedOut == Guard # {} /\ Guard \subseteq defined
Begin ==
  /\ Reading /\ Top.at = 0
  /\ stack' = IF GuardedOut THEN Tail(stack) ELSE Rest
  /\ defined' = defined \cup Guard
  /\ UNCHANGED <<unit, closed, failed>>

\* #include, under its condition.
Include ==
  /\ Next1("include") /\ Holds(Item.when, defined)
  /\ ToSet(Item.names) \subseteq DOMAIN Found
  /\ stack' = Frames(Item.names) \o Rest
  /\ UNCHANGED <<unit, defined, closed, failed>>

NotFound ==
  /\ Next1("include") /\ Holds(Item.when, defined)
  /\ failed' = ToSet(Item.names) \ DOMAIN Found /\ failed' # {}
  /\ UNCHANGED <<unit, stack, defined, closed>>

Skip ==
  /\ Next1("include") /\ ~Holds(Item.when, defined)
  /\ stack' = Rest
  /\ UNCHANGED <<unit, defined, closed, failed>>

Read ==
  /\ Next1("text")
  /\ stack' = Rest
  /\ UNCHANGED <<unit, defined, closed, failed>>

DefineOne ==
  /\ Next1("define")
  /\ stack' = Rest
  /\ defined' = IF Holds(Item.when, defined) THEN defined \cup ToSet(Item.names) ELSE defined
  /\ UNCHANGED <<unit, closed, failed>>

End ==
  /\ Begun /\ Top.at > Len(Items(Top.name))
  /\ stack' = Tail(stack) /\ closed' = closed \cup {Top.name}
  /\ UNCHANGED <<unit, defined, failed>>

Next == Begin \/ Include \/ NotFound \/ Skip \/ Read \/ DefineOne \/ End
Spec == Init /\ [][Next]_vars

Over == stack = <<>>

\* Each name that an #include gives is found along the path, save in a unit that
\* asks for a header of Missing: the compiler stops there, and at no other; but where
\* a header that was read hides the one that the package does not have.
EverythingFound ==
  /\ failed # {} => ToSet(unit.asked) \cap Missing # {}
  /\ Over /\ ToSet(unit.asked) \cap Missing # {} =>
       \E pair \in Hides : pair[1] \in closed /\ pair[2] \notin DOMAIN Found

\* A program that includes the headers of First before the few that leave it to
\* the program may include all headers in any order: when the text of one is read,
\* the headers that declare what it uses have been read to their end.
Prepared ==
  \A i \in DOMAIN unit.asked : unit.asked[i] \in DOMAIN First =>
    ToSet(First[unit.asked[i]]) \subseteq ToSet(SubSeq(unit.asked, 1, i - 1))
SelfContained == Next1("text") /\ Prepared => Item.uses \subseteq closed

\* The text of a header with a guard is not read a second time, which the compiler
\* would take for redefinition: neither after it was read to its end, nor in a ring
\* of headers that include one another.
ReadOnce ==
  Next1("text") /\ Top.name # NoName /\ Guard # {} =>
    /\ Top.name \notin closed
    /\ \A i \in 2 .. Len(stack) : stack[i].at > 0 => stack[i].name # Top.name

\* An item that includes on this compiler, if no macro is defined that it tests for
\* not being defined; what header a includes so.
Clear(w) == w[1] \subseteq Predefined /\ w[2] \cap Predefined = {}
Due(item) == item.kind = "include" /\ \E w \in item.when : Clear(w)
Leads(a) == UNION {ToSet(item.names) : item \in {i \in ToSet(Found[a].items) : Due(i)}}

\* A header that the program asks for, or that one that was read includes, has been
\* read when the unit is over, although it, and the lines that include it, test
\* macros that other headers define; but for the pairs of Hides, in which the
\* first hides the second.
NothingMissed ==
  Over => \A h \in (ToSet(unit.asked) \cup UNION {Leads(a) : a \in closed \ {NoName}}) \ closed :
            \E a \in closed : <<a, h>> \in Hides

(***************************************************************************)
(* What the package's headers keep to: the properties above rest on it.    *)
(***************************************************************************)
Name == STRING \ {NoName}
Condition == SUBSET ((SUBSET STRING) \X (SUBSET STRING))
HeaderItem == [kind : {"include", "text", "define"}, when : Condition, names : Seq(Name), uses : SUBSET Name]

ASSUME TablesTyped ==
  /\ \A p \in DOMAIN Paths :
       DOMAIN Paths[p] \subseteq Name /\ Paths[p] \in [DOMAIN Paths[p] -> [guard : SUBSET STRING, items : Seq(HeaderItem)]]
  /\ \A u \in Units : u.path \in DOMAIN Paths /\ u.asked \in Seq(DOMAIN Paths[u.path])
  /\ First \in [DOMAIN First -> Seq(Name)]
  /\ NoName \notin Missing

\* The macros that a header defines, and all that there are along a path.
DefinedIn(header) ==
  header.guard \cup UNION {ToSet(item.names) : item \in {i \in ToSet(header.items) : i.kind = "define"}}
Defined == [p \in DOMAIN Paths |-> [x \in DOMAIN Paths[p] |-> DefinedIn(Paths[p][x])]]
Macros == [p \in DOMAIN Paths |-> Predefined \cup UNION {DefinedIn(header) : header \in Range(Paths[p])}]

\* A guard, and a macro whose absence an #include of h tests, is h's own: no header
\* defines it but h, and those that hide h.
Own(p, macro, h) == \A x \in DOMAIN Paths[p] : macro \in Defined[p][x] => x = h \/ <<x, h>> \in Hides
ASSUME GuardsOwn ==
  \A p \in DOMAIN Paths : \A a \in DOMAIN Paths[p] :
    /\ Paths[p][a].guard # {} => \E macro \in Paths[p][a].guard \ Predefined : Own(p, macro, a)
    /\ \A item \in ToSet(Paths[p][a].items) : Due(item) =>
         \A w \in {v \in item.when : Clear(v)} : \A macro \in w[2] : \A h \in ToSet(item.names) : Own(p, macro, h)

\* An #include that may be taken, whatever has been read.
Possible(macros, item) ==
  item.kind = "include" /\ \E w \in item.when : w[1] \subseteq macros /\ w[2] \cap Predefined = {}
ASSUME ReachClosed ==
  \A p \in DOMAIN Paths : \A a \in DOMAIN Paths[p] :
    /\ a \in Reach[p][a]
    /\ \A item \in ToSet(Paths[p][a].items) : Possible(Macros[p], item) =>
         \A h \in ToSet(item.names) \cap DOMAIN Paths[p] : Reach[p][h] \subseteq Reach[p][a]

\* That a has come past an #include of h means that h has been read to its end: h is
\* never hidden, and is none of those that may be including a.
Hidable(h) == \E pair \in Hides : pair[2] = h
Reads(reach, a, h) == ~Hidable(h) /\ (h \in reach[a] => a \notin reach[h])

\* When b has been read so has h (or b never is, the compiler stops in it); when a has
\* come past one of the items; when the text of a is read, by what First asks for;
\* before item k of a; by the names that stand before the n-th in one item of a.
With(p, b, h) == h = b \/ b \notin DOMAIN Paths[p] \/ ~(Sure[p][b] \subseteq DOMAIN Paths[p]) \/ h \in Sure[p][b]
After(p, a, items, h) ==
  \E item \in items : Due(item) /\ \E b \in ToSet(item.names) : Reads(Reach[p], a, b) /\ With(p, b, h)
Before(p, a, h) == a \in DOMAIN First /\ \E b \in ToSet(First[a]) : With(p, b, h)
Known(p, a, k, h) == Before(p, a, h) \/ After(p, a, {Paths[p][a].items[j] : j \in 1 .. k - 1}, h)
Beside(p, a, names, n, h) == \E m \in 1 .. n - 1 : Reads(Reach[p], a, names[m]) /\ With(p, names[m], h)

ASSUME SureRead ==
  \A p \in DOMAIN Paths : \A a \in DOMAIN Paths[p] :
    Sure[p][a] \subseteq Name /\ \A h \in Sure[p][a] : After(p, a, ToSet(Paths[p][a].items), h)

\* What a text uses has been read before it, and what First asks for before an #include.
ASSUME UsesSure ==
  /\ \A a \in DOMAIN First : \A b \in ToSet(First[a]) : ~Hidable(b)
  /\ \A p \in DOMAIN Paths : \A a \in DOMAIN Paths[p] : \A k \in DOMAIN Paths[p][a].items :
       LET item == Paths[p][a].items[k] IN
       /\ item.kind = "text" => \A h \in item.uses : Known(p, a, k, h)
       /\ Possible(Macros[p], item) =>
            \A n \in DOMAIN item.names : item.names[n] \in DOMAIN First =>
              \A h \in ToSet(First[item.names[n]]) : Known(p, a, k, h) \/ Beside(p, a, item.names, n, h)

\* The headers that may lead to one that is not there are in Missing, and each of those
\* does lead there, unless the one that is not there is hidden.
ASSUME MissingLead ==
  \A p \in DOMAIN Paths : \A a \in DOMAIN Paths[p] :
    /\ \A item \in ToSet(Paths[p][a].items) :
         Possible(Macros[p], item) /\ ~(ToSet(item.names) \subseteq DOMAIN Paths[p] \ Missing) => a \in Missing
    /\ a \in Missing => ~Hidable(a) /\ \E item \in ToSet(Paths[p][a].items) :
         Due(item) /\ \E h \in ToSet(item.names) : h \notin DOMAIN Paths[p] \/ (h \in Missing /\ Reads(Reach[p], a, h))
=============================================================================
