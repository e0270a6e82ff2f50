-------------------------------- MODULE Tree --------------------------------
(***************************************************************************)
(* The Unified Name Space Tree (tree.c): how the paths of a configuration  *)
(* make nodes, how tree_expand_alternatives() hands the handlers of        *)
(* patterns on to every node they stand for, and how objects find their    *)
(* node afterwards.                                                        *)
(*                                                                         *)
(* A node is its path.  Of the list `child' only the membership matters    *)
(* (literals are compared for equality), so it is not kept apart from      *)
(* `nodes'; `regex_child' is kept in order, because the first match wins.  *)
(* The recursion of tree_apply_alts() and tree_node_merge() is the call    *)
(* stack `calls'.                                                          *)
(***************************************************************************)
EXTENDS Paths

CONSTANTS
    Trees,          \* names of tree definitions
    Patterns,       \* paths a configuration may mention
    Objects,        \* names of objects that come to be looked up
    Queries,        \* paths of names a handler asks str2path() for
    NULL,           \* no node
    MaxStatements,  \* bound: statements of the configuration
    MaxWalk         \* bound: steps an object is tracked below its tree

ASSUME TreeAssumption ==
    /\ Trees \subseteq Names /\ Objects \subseteq Names
    /\ \A q \in Queries : q \in Seq(Names)
    /\ \A p \in Patterns : p \in Path /\ p # Root /\ p[1] \in Trees
    /\ NULL \notin Path
    /\ MaxStatements \in Nat /\ MaxWalk \in Nat

VARIABLES
    phase,          \* "config", "expand" or "run"
    nodes,          \* the nodes
    regex_child,    \* per node its regular children, the newest first
    handlers,       \* per node the handlers hanging on it
    declared,       \* history: the patterns handlers were declared for
    statements,     \* number of statements so far
    calls,          \* pending calls of the expansion
    at, trail,      \* an object's node, and the names that led there
    search          \* str2path(): where find_path() is, and what is left

tree == <<nodes, regex_child, handlers, declared>>
lookups == <<at, trail, search>>
vars == <<phase, tree, statements, calls, lookups>>

NoSearch == [path |-> Root, at |-> NULL, rest |-> Root]

Apply(n) == [fn |-> "tree_apply_alts", dir |-> n]
Merge(r, t) == [fn |-> "tree_node_merge", r |-> r, t |-> t]

Init ==
    /\ phase = "config"
    /\ nodes = {Root} /\ regex_child = (Root :> <<>>)
    /\ handlers = (Root :> <<>>) /\ declared = {}
    /\ statements = 0 /\ calls = <<>>
    /\ at = Root /\ trail = <<>> /\ search = NoSearch

-----------------------------------------------------------------------------
(***************************************************************************)
(* Making nodes.  A tree value is a record [nodes, rx].                    *)
(***************************************************************************)
Literals(N, n) == {c \in Names : Append(n, c) \in N}
Leaf(tr, n) == Literals(tr.nodes, n) = {} /\ tr.rx[n] = <<>>

\* A new child is linked at the head of its list.
Link(tr, n) ==
    LET base == Front(n)
        rx == IF Last(n) \in Names THEN tr.rx
              ELSE [tr.rx EXCEPT ![base] = <<Last(n)>> \o @]
    IN  [nodes |-> tr.nodes \cup {n}, rx |-> rx @@ (n :> <<>>)]

\* ".*" gets a child ".*" with its first other child ...
StarFirst(tr, n) ==
    LET base == Front(n)
    IN  IF base # Root /\ Last(base) = Star /\ Leaf(tr, base) /\ Last(n) # Star
        THEN Link(tr, Append(base, Star)) ELSE tr

\* ... and every other node at once.
create_one_i(tr, n) ==
    IF n \in tr.nodes THEN tr
    ELSE LET made == Link(StarFirst(tr, n), n)
         IN  IF Last(n) # Star THEN Link(made, Append(n, Star)) ELSE made

create_path(tr, p) ==
    FoldLeft(create_one_i, tr, [i \in DOMAIN p |-> SubSeq(p, 1, i)])

Tree == [nodes |-> nodes, rx |-> regex_child]

\* The tree becomes tr; new nodes have no handlers.
Becomes(tr) ==
    /\ nodes' = tr.nodes
    /\ regex_child' = tr.rx

Hanging(tr) == [n \in tr.nodes |-> IF n \in nodes THEN handlers[n] ELSE <<>>]

-----------------------------------------------------------------------------
(***************************************************************************)
(* The configuration.                                                      *)
(***************************************************************************)
Statement ==
    /\ phase = "config" /\ statements < MaxStatements
    /\ statements' = statements + 1
    /\ UNCHANGED <<phase, calls, lookups>>

\* tree "t" of ...: generic_init() registers the root of a tree.
register_tree_type(t) ==
    /\ <<t>> \notin nodes
    /\ Statement
    /\ LET tr == create_one_i(Tree, <<t>>)
       IN  Becomes(tr) /\ handlers' = Hanging(tr)
    /\ UNCHANGED declared

\* A path in the definition of a space: the lexer creates it.
Mention(p) ==
    /\ <<p[1]>> \in nodes
    /\ Statement
    /\ LET tr == create_path(Tree, p)
       IN  Becomes(tr) /\ handlers' = Hanging(tr)
    /\ UNCHANGED declared

\* A path as subject or object of an event: its node gets the handler.
Declare(p) ==
    /\ <<p[1]>> \in nodes /\ p \notin declared
    /\ Statement
    /\ LET tr == create_path(Tree, p)
       IN  /\ Becomes(tr)
           /\ handlers' = [Hanging(tr) EXCEPT ![p] = Append(@, p)]
    /\ declared' = declared \cup {p}

-----------------------------------------------------------------------------
(***************************************************************************)
(* tree_expand_alternatives(): one step is one call, which then makes the  *)
(* calls it puts on the stack, the first of them on top.                   *)
(***************************************************************************)
Expand ==
    /\ phase = "config"
    /\ phase' = "expand" /\ calls' = <<Apply(Root)>>
    /\ UNCHANGED <<tree, statements, lookups>>

\* The children of n, literals before expressions.
Children(n) == SetToSeq(Literals(nodes, n)) \o regex_child[n]

\* Expressions into the literals they match.
IntoLiterals(dir) ==
    LET Matched(r) == SetToSeq({c \in Literals(nodes, dir) : regcmp(r, c)})
        From(r) == [k \in DOMAIN Matched(r) |->
                       Merge(Append(dir, r), Append(dir, Matched(r)[k]))]
    IN  FlattenSeq([i \in DOMAIN regex_child[dir] |-> From(regex_child[dir][i])])

\* ".*" into the other expressions.
IntoRegexes(dir) ==
    LET others == SelectSeq(regex_child[dir], LAMBDA r : r # Star)
    IN  IF Append(dir, Star) \in nodes
        THEN [k \in DOMAIN others |->
                 Merge(Append(dir, Star), Append(dir, others[k]))]
        ELSE <<>>

\* Mutant: only literal children are expanded.
Applies_Literals(dir) ==
    LET names == SetToSeq(Literals(nodes, dir))
    IN  [k \in DOMAIN names |-> Apply(Append(dir, names[k]))]

Applies(dir) ==
    [k \in DOMAIN Children(dir) |-> Apply(Append(dir, Children(dir)[k]))]

\* Mutant: ".*" goes into the other expressions first.
ApplyCalls_StarFirst(dir) ==
    IntoRegexes(dir) \o IntoLiterals(dir) \o Applies(dir)

\* Mutant: the loop does not leave a node without children.
ApplyCalls_Stays(dir) ==
    IF Leaf(Tree, dir) THEN <<Apply(dir)>>
    ELSE IntoLiterals(dir) \o IntoRegexes(dir) \o Applies(dir)

ApplyCalls(dir) == IntoLiterals(dir) \o IntoRegexes(dir) \o Applies(dir)

tree_apply_alts ==
    /\ calls # <<>> /\ Head(calls).fn = "tree_apply_alts"
    /\ calls' = ApplyCalls(Head(calls).dir) \o Tail(calls)
    /\ UNCHANGED <<phase, tree, statements, lookups>>

\* _add_event_handlers()
Inherited(to, from) == to \o from

tree_node_merge ==
    /\ calls # <<>> /\ Head(calls).fn = "tree_node_merge"
    /\ LET r == Head(calls).r
           t == Head(calls).t
           kids == Children(r)
           tr == FoldLeft(create_one_i, Tree,
                          [k \in DOMAIN kids |-> Append(t, kids[k])])
       IN  /\ Becomes(tr)
           /\ handlers' = [Hanging(tr) EXCEPT ![t] = Inherited(@, handlers[r])]
           /\ calls' = [k \in DOMAIN kids |->
                            Merge(Append(r, kids[k]), Append(t, kids[k]))]
                       \o Tail(calls)
    /\ UNCHANGED <<phase, declared, statements, lookups>>

Expanded ==
    /\ phase = "expand" /\ calls = <<>>
    /\ phase' = "run"
    /\ UNCHANGED <<tree, statements, calls, lookups>>

-----------------------------------------------------------------------------
(***************************************************************************)
(* Looking up names: the child of that name, else the first expression     *)
(* that matches, else a node without children stands for itself.           *)
(***************************************************************************)
FirstMatch(base, name) ==
    SelectInSeq(regex_child[base], LAMBDA r : regcmp(r, name))

\* Mutant: expressions are tried before the children of that very name.
find_one_RegexFirst(base, name) ==
    IF FirstMatch(base, name) # 0
    THEN Append(base, regex_child[base][FirstMatch(base, name)])
    ELSE IF Append(base, name) \in nodes THEN Append(base, name)
    ELSE IF Leaf(Tree, base) THEN base
    ELSE NULL

find_one(base, name) ==
    IF Append(base, name) \in nodes THEN Append(base, name)
    ELSE IF FirstMatch(base, name) # 0
         THEN Append(base, regex_child[base][FirstMatch(base, name)])
    ELSE IF Leaf(Tree, base) THEN base
    ELSE NULL

\* generic_hierarchy_handler_decide(): a subject not seen before is at the
\* root of its tree ...
Appears(t) ==
    /\ phase = "run" /\ at = Root /\ <<t>> \in nodes
    /\ at' = <<t>> /\ trail' = <<t>>
    /\ UNCHANGED <<phase, tree, statements, calls, search>>

\* ... and moves to the node of what it enters.
Enter(name) ==
    /\ phase = "run" /\ at # Root /\ Len(trail) <= MaxWalk
    /\ at' = find_one(at, name)
    /\ trail' = Append(trail, name)
    /\ UNCHANGED <<phase, tree, statements, calls, search>>

\* str2path(): find_path() walks down from the global root with find_one2(),
\* which takes the name off the path only where it finds a child for it.
find_path(q) ==
    /\ phase = "run" /\ search = NoSearch
    /\ search' = [path |-> q, at |-> Root, rest |-> q]
    /\ UNCHANGED <<phase, tree, statements, calls, at, trail>>

\* Mutant: the name is taken off the path for a literal child only.
Unread_Regex(found, base, rest) ==
    IF found \notin {base, NULL} /\ Last(found) \in Names
    THEN Tail(rest) ELSE rest

Unread(found, base, rest) == IF found = base THEN rest ELSE Tail(rest)

find_one2 ==
    /\ search.at # NULL /\ search.rest # <<>>
    /\ LET found == find_one(search.at, Head(search.rest))
       IN  search' = [search EXCEPT
                         !.at = found,
                         !.rest = Unread(found, search.at, @)]
    /\ UNCHANGED <<phase, tree, statements, calls, at, trail>>

Returns ==
    /\ search # NoSearch
    /\ search.at = NULL \/ search.rest = <<>>
    /\ search' = NoSearch
    /\ UNCHANGED <<phase, tree, statements, calls, at, trail>>

-----------------------------------------------------------------------------
Next ==
    \/ \E t \in Trees : register_tree_type(t)
    \/ \E p \in Patterns : Mention(p) \/ Declare(p)
    \/ Expand \/ tree_apply_alts \/ tree_node_merge \/ Expanded
    \/ \E t \in Trees : Appears(t)
    \/ \E name \in Objects : Enter(name)
    \/ \E q \in Queries : find_path(q)
    \/ find_one2 \/ Returns

\* The expansion and a lookup run to their end; what the configuration says
\* and what objects appear is not promised.
Spec ==
    /\ Init /\ [][Next]_vars
    /\ WF_vars(tree_apply_alts \/ tree_node_merge \/ Expanded)
    /\ WF_vars(find_one2)

-----------------------------------------------------------------------------
(***************************************************************************)
(* Properties.                                                             *)
(***************************************************************************)

\* After the expansion every handler hangs exactly once on every node its
\* pattern stands for and nowhere else, although merges copy copies:
\* a handler of ".*/x" reaches "a/x" through ".*" and not again through an
\* expression that matches a.
EveryHandlerOnce ==
    phase = "run" =>
       \A n \in nodes, p \in declared :
          Cardinality({i \in DOMAIN handlers[n] : handlers[n][i] = p})
             = IF Covers(p, n) THEN 1 ELSE 0

\* Mutant: ".*" does not stand for other expressions.
AlternativesBelow_SameOnly(n, c) ==
    IF c \in Names THEN {Append(n, c)} \cap nodes
    ELSE LET literals == {d \in Literals(nodes, n) : regcmp(c, d)}
             regexes == {d \in ToSet(regex_child[n]) : c = d}
         IN  {Append(n, d) : d \in literals \cup regexes}

\* tree_for_alternatives(), one level: the children of n pattern c means.
AlternativesBelow(n, c) ==
    IF c \in Names THEN {Append(n, c)} \cap nodes
    ELSE LET literals == {d \in Literals(nodes, n) : regcmp(c, d)}
             regexes == {d \in ToSet(regex_child[n]) : c = Star \/ c = d}
         IN  {Append(n, d) : d \in literals \cup regexes}

tree_for_alternatives(p) ==
    FoldLeft(LAMBDA S, c : UNION {AlternativesBelow(n, c) : n \in S},
             {Root}, p)

\* Spaces find the members of a pattern with tree_for_alternatives(), events
\* reach them by the expansion: the two must mean the same nodes, or a
\* subject has the rights of a space without the handlers, or the reverse.
AlternativesAgree ==
    phase = "run" =>
       \A p \in declared :
          tree_for_alternatives(p) = {n \in nodes : p \in ToSet(handlers[n])}

\* Two expressions compete for a name: only the newest gets it, and which is
\* the newest changes from a node to the nodes it is merged into.
Ambiguous(names) ==
    \E i \in 1 .. Len(names) - 1, n \in nodes :
       /\ Covers(n, SubSeq(names, 1, i))
       /\ Append(n, names[i + 1]) \notin nodes
       /\ \E r, s \in ToSet(regex_child[n]) \ {Star} :
             r # s /\ regcmp(r, names[i + 1]) /\ regcmp(s, names[i + 1])

\* Node n is the right one for an object of these names: it has the handlers
\* of exactly the patterns that stand for the names; and if the walk stopped
\* early at a childless node, no pattern reaches any deeper there.
RightNode(n, names) ==
    /\ Len(n) <= Len(names)
    /\ \A p \in declared :
          p \in ToSet(handlers[n]) <=> Covers(p, SubSeq(names, 1, Len(n)))
    /\ Len(n) < Len(names) =>
          \A p \in declared :
             Len(p) > Len(n) => ~Covers(SubSeq(p, 1, Len(n)),
                                        SubSeq(names, 1, Len(n)))

\* Both ways down the tree lead to the right node: an object that is tracked
\* name by name (literal names before expressions) is met by the handlers of
\* all patterns its names match, and str2path() returns the node that objects
\* of that path have.
LedRight ==
    /\ at # Root /\ ~Ambiguous(trail) => RightNode(at, trail)
    /\ search.at \in nodes \ {Root} /\ search.rest = <<>> /\ ~Ambiguous(search.path)
          => RightNode(search.at, search.path) /\ Len(search.at) = Len(search.path)

\* The expansion ends, although it creates nodes it then has to expand.
ExpansionEnds == (phase = "expand") ~> (phase = "run")

\* find_path() ends, unless the path leads below a node without children:
\* there find_one2() returns the same node without taking the name.
SearchEnds ==
    search # NoSearch ~>
       \/ search.at = NULL
       \/ search.rest = <<>>
       \/ /\ Leaf(Tree, search.at)
          /\ Len(search.at) + Len(search.rest) = Len(search.path)

=============================================================================
