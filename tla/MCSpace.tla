------------------------------ MODULE MCSpace -------------------------------
(***************************************************************************)
(* Two trees; three spaces of the tree "fs", written from all small bodies *)
(* that take each other in and keep each other out, one of the subjects,   *)
(* then one of several ways to use them; events of processes on files and  *)
(* of processes on processes.                                              *)
(***************************************************************************)
EXTENDS Space

CONSTANTS fs, dom, a, b, X, Y, Z, S, Q1, Q2, Q3

Names1 == {fs, dom, a, b}
Matches1 == <<>>
Nodes1 == {<<fs>>, <<fs, a>>, <<fs, a, Star>>, <<fs, Star>>, <<fs, b>>, <<fs, b, Star>>,
           <<dom>>, <<dom, Star>>}

In(p) == [of |-> p, what |-> "tree", excl |-> FALSE, recur |-> FALSE]
InAll(p) == [In(p) EXCEPT !.recur = TRUE]
Out(p) == [In(p) EXCEPT !.excl = TRUE]
InSpace(x) == [of |-> x, what |-> "space", excl |-> FALSE, recur |-> FALSE]
OutSpace(x) == [InSpace(x) EXCEPT !.excl = TRUE]
Recursive(e) == [e EXCEPT !.recur = TRUE]

Def(x, body) == [stmt |-> "space", name |-> x, primary |-> FALSE, body |-> body]
Primary(st) == [st EXCEPT !.primary = TRUE]
Add(x, body) == [stmt |-> "add", name |-> x, body |-> body]
OnEvent(s, o, op, m) ==
    [stmt |-> "event", subject |-> s, object |-> o, op |-> op, monitored |-> m]
Sp(x) == [kind |-> "space", of |-> x]
Nd(p) == [kind |-> "node", of |-> p]
Rec(p) == [kind |-> "recursive", of |-> p]
All == [kind |-> "all"]
None == [kind |-> "none"]
Event(s, o, m) ==
    OnEvent(s, o, [subject |-> dom, object |-> IF o = None THEN NoClass ELSE fs], m)
Ptrace(s, o, m) == OnEvent(s, o, [subject |-> dom, object |-> dom], m)
Grant(s, acc, o) == [stmt |-> "access", subject |-> s, object |-> o, access |-> acc]
Access(x, acc, y) == Grant(Sp(x), acc, Sp(y))

BodiesX == {<<>>, <<InAll(<<fs, a>>)>>, <<InAll(<<fs>>), Out(<<fs, b>>)>>, <<In(<<fs, Star>>)>>}
BodiesY ==
    {<<InSpace(X)>>, <<Recursive(InSpace(X)), Out(<<fs, a>>)>>,
     <<InAll(<<fs>>), OutSpace(X)>>, <<In(<<fs, b>>), Recursive(OutSpace(X))>>,
     <<InAll(<<fs, b>>), InSpace(X)>>, <<InAll(<<fs, Star>>)>>}
BodiesZ ==
    {<<InSpace(Y)>>, <<InSpace(X), InSpace(Y)>>, <<InAll(<<fs>>), OutSpace(Y)>>,
     <<InAll(<<fs>>), Recursive(OutSpace(Y)), In(<<fs, b>>)>>,
     <<InSpace(Y), OutSpace(X)>>, <<InSpace(X), OutSpace(Y)>>}
Uses ==
    {<<Access(S, "READ", Z), Event(Sp(S), Sp(Z), "subject")>>,
     <<Access(S, "READ", Z), Access(S, "READ", S), Access(Y, "MEMBER", X)>>,
     <<Access(S, "READ", X), Event(All, Sp(Z), "object")>>,
     <<Access(Z, "MEMBER", X), Event(All, Sp(X), "object"), Event(Sp(S), Sp(Z), "object")>>,
     <<Event(Sp(S), None, "subject"), Event(Nd(<<dom, Star>>), Nd(<<fs, a>>), "object"),
       Event(All, Nd(<<fs, Star>>), "object")>>,
     <<Event(Nd(<<dom, Star>>), Sp(Y), "subject"), Event(Sp(S), All, "object")>>,
     <<Ptrace(Nd(<<dom, Star>>), Sp(S), "object"), Ptrace(Sp(S), Nd(<<dom, Star>>), "object"),
       Ptrace(Nd(<<dom, Star>>), Nd(<<dom>>), "subject")>>,
     <<Ptrace(Sp(S), Sp(S), "subject"), Event(Sp(S), Sp(X), "object"),
       Event(Sp(Y), Sp(Z), "object")>>,
     <<Event(Rec(<<dom>>), Rec(<<fs, b>>), "subject"),
       Grant(Sp(S), "READ", Rec(<<fs, Star>>)), Event(Sp(S), None, "subject")>>,
     <<Grant(Nd(<<dom>>), "READ", Sp(X))>>}

\* Spaces defined before they are used; an X that is filled in after Y has
\* used it; users older than what they use; and X within itself.
Scripts1 ==
    {<<Def(X, x), Def(Y, y), Primary(Def(Z, z)), Def(S, <<InAll(<<dom>>)>>)>> \o u :
        x \in BodiesX, y \in BodiesY, z \in BodiesZ, u \in Uses}
      \cup
    {<<Def(X, <<>>), Def(Y, y), Def(X, x), Def(Z, <<>>), Def(S, <<InAll(<<dom>>)>>),
       Add(Z, z)>> \o u :
        x \in BodiesX \cup {<<OutSpace(Y), InAll(<<fs>>)>>, <<InSpace(Z)>>},
        y \in BodiesY, z \in BodiesZ, u \in Uses}
      \cup
    {<<Def(S, <<InAll(<<dom>>)>>), Def(Z, <<>>), Def(Y, <<>>), Def(X, x), Add(Y, y),
       Add(Z, z), Add(S, s)>> \o u :
        x \in BodiesX, y \in BodiesY, z \in BodiesZ,
        s \in {<<OutSpace(Y)>>, <<OutSpace(Z)>>, <<InSpace(Z)>>}, u \in Uses}
      \cup
    {<<Def(X, x), Def(Y, <<InSpace(X)>>), Def(X, <<InSpace(Z)>>)>> : x \in BodiesX}

=============================================================================
