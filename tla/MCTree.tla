------------------------------- MODULE MCTree -------------------------------
(***************************************************************************)
(* One tree "fs", two names, an expression that matches one of them and    *)
(* one that matches both; patterns of up to two components below the tree. *)
(***************************************************************************)
EXTENDS Tree

CONSTANTS fs, a, b, c, ra, rb

Names1 == {fs, a, b, c}
Regexes1 == {ra, rb}
Matches1 == (ra :> {a, c}) @@ (rb :> {b, c})
Below(q) == <<fs>> \o q
Patterns1 ==
    {Below(<<x>>) : x \in {a, ra, rb, Star}}
       \cup {Below(<<x, y>>) : x \in {a, ra, Star}, y \in {b, rb, Star}}
Queries1 == {<<fs, a, b>>, <<fs, c>>, <<fs, b, b, a>>, <<b>>, <<fs, c, c>>}

=============================================================================
