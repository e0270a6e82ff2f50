------------------------------- MODULE Paths --------------------------------
(***************************************************************************)
(* Paths of the Unified Name Space Tree (tree.c).  A path is the sequence  *)
(* of its components below the global root: literal names, regular        *)
(* expressions, and the expression ".*", which the code treats specially.  *)
(* What an expression matches is data and a constant here.                 *)
(***************************************************************************)
EXTENDS Naturals, Sequences, FiniteSets, SequencesExt, Functions

CONSTANTS
    Names,      \* literal components, of the configuration and of objects
    Regexes,    \* expressions other than ".*"
    Star,       \* the expression ".*"
    Matches     \* the names each expression matches

ASSUME PathsAssumption ==
    /\ Names \cap Regexes = {}
    /\ Star \notin Names \cup Regexes
    /\ Matches \in [Regexes -> SUBSET Names]

Component == Names \cup Regexes \cup {Star}
Path == Seq(Component)
Root == <<>>

\* regcmp() of a regular child against a name.
regcmp(r, name) == r = Star \/ (r \in Regexes /\ name \in Matches[r])

\* One level of tree_for_alt_i(): pattern c stands for the child named d.
StandsFor(c, d) == c = d \/ c = Star \/ (d \in Names /\ regcmp(c, d))

\* Pattern p stands for the node at path n.
Covers(p, n) ==
    /\ Len(p) = Len(n)
    /\ \A i \in 1 .. Len(p) : StandsFor(p[i], n[i])

=============================================================================
