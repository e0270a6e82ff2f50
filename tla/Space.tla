------------------------------- MODULE Space --------------------------------
(***************************************************************************)
(* Virtual spaces (space.c, vs.c): from the statements of a configuration  *)
(* (language/conf_lang.c) to the members of each space, the rights and     *)
(* identification bits of every node of the tree, and the nodes whose      *)
(* events a kernel is told to report.                                      *)
(*                                                                         *)
(* The tree is given as its nodes after tree_expand_alternatives(); module *)
(* Tree shows that tree_for_alternatives(p) then visits, and that handlers *)
(* of p then hang on, the nodes p covers.                                  *)
(*                                                                         *)
(* All of this is one thread reading the configuration and then running    *)
(* space_apply_all(); what is hard are the recursions over spaces that     *)
(* include and exclude each other and the order in which they are used.    *)
(***************************************************************************)
EXTENDS Paths

CONSTANTS
    Nodes,          \* the nodes of the expanded tree, the global root apart
    Named,          \* names of spaces
    Anonymous,      \* supply of spaces without a name
    Accesses,       \* access types; "MEMBER" is the first of them
    Scripts,        \* configurations: sequences of statements
    MaxVs,          \* MAX_NUM_OF_VS
    MaxPath         \* MAX_SPACE_PATH

SpaceId == Named \cup Anonymous

\* An element of a space: a path or a space, taken in or kept out, itself
\* or with what is below it.
Entry ==
    [of : Path, what : {"tree"}, excl : BOOLEAN, recur : BOOLEAN]
       \cup [of : Named, what : {"space"}, excl : BOOLEAN, recur : BOOLEAN]

\* A subject or object: "*", nothing, a space, a path, or a path with what
\* is below it.
Operand ==
    [kind : {"all", "none"}] \cup [kind : {"space"}, of : Named]
       \cup [kind : {"node", "recursive"}, of : Path]

\* The classes of an event's operands, as the kernel defined its type, and
\* the one it is monitored by.  Each class has one tree, which stands for it.
Sides == {"subject", "object"}
NoClass == "none"
Classes == {n[1] : n \in Nodes} \cup {NoClass}

Statement ==
    [stmt : {"space"}, name : Named, primary : BOOLEAN, body : Seq(Entry)]
       \cup [stmt : {"add"}, name : Named, body : Seq(Entry)]
       \cup [stmt : {"access"}, subject : Operand, object : Operand,
             access : Accesses]
       \cup [stmt : {"event"}, subject : Operand, object : Operand,
             op : [Sides -> Classes], monitored : Sides]

ASSUME SpaceAssumption ==
    /\ \A n \in Nodes : n \in Path /\ n # Root
    /\ Named \cap Anonymous = {} /\ IsFiniteSet(SpaceId)
    /\ "MEMBER" \in Accesses
    /\ \A s \in Scripts : s \in Seq(Statement)
    /\ MaxVs \in Nat /\ MaxPath \in Nat \ {0}

VARIABLES
    script,         \* the statements not read yet
    said,           \* history: the statements read
    status,         \* "config", "apply", "ready", or how the start ended
    spaces,         \* global_spaces, the newest first
    ltree,          \* per space its elements, the newest first
    primary,        \* the primary spaces
    vs_id,          \* per space its identification bits (none or one)
    vs,             \* per space and access the bits it may access
    vs_cnt,         \* bits handed out
    used, processed,
    rounds,         \* history: rounds of the first loop of space_apply_all()
    members,        \* per space its nodes
    levent,         \* per space the events it takes part in
    hooks,          \* the handlers, where and for which bits
    node_vs,        \* per node and access the bits of its spaces
    node_primary,   \* per node its primary space
    connected,      \* a kernel has connected
    masks           \* per node the events it reports

identity == <<vs_id, vs, vs_cnt>>
results == <<processed, rounds, members, node_vs, node_primary, connected, masks>>
vars == <<script, said, status, spaces, ltree, primary, identity, used,
          levent, hooks, results>>

NoSpace == "none"
AllObj == "all"

Init ==
    /\ script \in Scripts /\ said = <<>> /\ status = "config"
    /\ spaces = <<>> /\ ltree = [x \in SpaceId |-> <<>>] /\ primary = {}
    /\ vs_id = [x \in SpaceId |-> {}]
    /\ vs = [x \in SpaceId |-> [a \in Accesses |-> {}]] /\ vs_cnt = 0
    /\ used = {} /\ processed = {} /\ rounds = 0 /\ members = [x \in SpaceId |-> {}]
    /\ levent = [x \in SpaceId |-> {}] /\ hooks = {}
    /\ node_vs = [n \in Nodes |-> [a \in Accesses |-> {}]]
    /\ node_primary = [n \in Nodes |-> NoSpace]
    /\ connected = FALSE /\ masks = [n \in Nodes |-> {}]

-----------------------------------------------------------------------------
(***************************************************************************)
(* Statements (conf_lang_param_out).  The grammar lets a statement through *)
(* when the spaces it names are declared.                                  *)
(***************************************************************************)
Declared == ToSet(spaces)

Reads(kind) ==
    /\ status = "config" /\ script # <<>> /\ Head(script).stmt = kind
    /\ script' = Tail(script) /\ said' = Append(said, Head(script))

\* A space may be declared before it is defined.
MayDefine(st) ==
    \/ st.name \notin Declared
    \/ ltree[st.name] = <<>> /\ (st.primary <=> st.name \in primary)

SpacesIn(body) == {body[i].of : i \in {j \in DOMAIN body : body[j].what = "space"}}

\* new_path(): a new element is the head of the list.
new_path(list, e) == <<e>> \o list

\* space_add_path() for every element in turn.
WithPaths(x, body) == [ltree EXCEPT ![x] = FoldLeft(new_path, @, body)]

space_create ==
    /\ Reads("space")
    /\ LET st == Head(script)
       IN  /\ MayDefine(st)
           /\ SpacesIn(st.body) \subseteq Declared \cup {st.name}
           /\ spaces' = IF st.name \in Declared THEN spaces
                        ELSE <<st.name>> \o spaces
           /\ primary' = IF st.primary THEN primary \cup {st.name} ELSE primary
           /\ ltree' = WithPaths(st.name, st.body)
    /\ UNCHANGED <<status, identity, used, levent, hooks, results>>

space_add_path ==
    /\ Reads("add")
    /\ LET st == Head(script)
       IN  /\ {st.name} \cup SpacesIn(st.body) \subseteq Declared
           /\ ltree' = WithPaths(st.name, st.body)
    /\ UNCHANGED <<status, spaces, primary, identity, used, levent, hooks, results>>

\* space_get_vs() for the spaces in the sequence: those without a bit get
\* the next one, which they also access as members, and count as used.
Fresh(xs) == SelectSeq(xs, LAMBDA x : vs_id[x] = {})

\* Mutant: all spaces of a statement get the next bit.
IdOf_First(xs, x) == IF x \in ToSet(Fresh(xs)) THEN {vs_cnt} ELSE vs_id[x]

IdOf(xs, x) ==
    LET i == SelectInSeq(Fresh(xs), LAMBDA y : y = x)
    IN  IF i = 0 THEN vs_id[x] ELSE {vs_cnt + i - 1}

GetsVs(xs) ==
    /\ vs_cnt + Len(Fresh(xs)) <= MaxVs
    /\ vs_cnt' = vs_cnt + Len(Fresh(xs))
    /\ vs_id' = [x \in SpaceId |-> IdOf(xs, x)]
    /\ used' = used \cup ToSet(Fresh(xs))

\* Mutant: a space is not made a member of itself.
Own_Forgotten(xs) == vs

Own(xs) ==
    [x \in SpaceId |-> [vs[x] EXCEPT !["MEMBER"] = @ \cup (IdOf(xs, x) \ vs_id[x])]]

\* The spaces that stand for the operands of a statement.  A path comes as a
\* node and the space ALL_OBJ; a recursive one makes an anonymous space, and
\* so does the object of an event if both its operands are nodes.
TwoNodes(st) ==
    st.stmt = "event" /\ st.subject.kind = "node" /\ st.object.kind = "node"
SpaceOf(o, anonymous) ==
    CASE o.kind = "space" -> o.of
      [] o.kind = "none" -> NoSpace
      [] o.kind \in {"all", "node"} -> AllObj
      [] o.kind = "recursive" -> anonymous
Unused(xs) == CHOOSE x \in Anonymous : x \notin xs
SubjectOf(st) == SpaceOf(st.subject, Unused(Declared))
ObjectOf(st) ==
    LET anonymous == Unused(Declared \cup {SubjectOf(st)})
    IN  IF TwoNodes(st) THEN anonymous ELSE SpaceOf(st.object, anonymous)

Made(st) ==
    SelectSeq(<<ObjectOf(st), SubjectOf(st)>>, LAMBDA x : x \in Anonymous)
MakesAnonymous(st) ==
    /\ spaces' = Made(st) \o spaces
    /\ ltree' = [x \in SpaceId |->
                    IF x \notin ToSet(Made(st)) THEN ltree[x]
                    ELSE LET o == IF x = SubjectOf(st) THEN st.subject ELSE st.object
                         IN  <<[of |-> o.of, what |-> "tree", excl |-> FALSE,
                                recur |-> o.kind = "recursive"]>>]

Known(st) == {SubjectOf(st), ObjectOf(st)} \cap Named \subseteq Declared

\* <subject> READ <object>: only the object is given an identification.
MayAccess(st) ==
    Known(st) /\ {st.subject.kind, st.object.kind} \subseteq {"space", "recursive"}
AccessNamed(st) == <<ObjectOf(st)>>

\* Mutant: a new right takes the place of the rights before.
Accessing_Replaces(st, named, v) ==
    [v EXCEPT ![SubjectOf(st)][st.access] = IdOf(named, ObjectOf(st))]

\* space_add_vs(): the bit of the object is added to those the subject accesses.
Accessing(st, named, v) ==
    [v EXCEPT ![SubjectOf(st)][st.access] = @ \cup IdOf(named, ObjectOf(st))]

space_add_vs ==
    /\ Reads("access")
    /\ LET st == Head(script)
           named == AccessNamed(st)
       IN  /\ MayAccess(st)
           /\ MakesAnonymous(st)
           /\ GetsVs(named)
           /\ vs' = Accessing(st, named, Own(named))
    /\ UNCHANGED <<status, primary, levent, hooks, results>>

\* register_event_handler(): ALL_OBJ is every bit there is, no space none.
AllBits == 0 .. MaxVs - 1
Bits(named, x) ==
    IF x = AllObj THEN AllBits ELSE IF x = NoSpace THEN {} ELSE IdOf(named, x)

\* The handler hangs on the subject's node, else on the object's, else on
\* the event itself.
HangsOn(st) ==
    IF st.subject.kind = "node" THEN [on |-> "subject", node |-> st.subject.of]
    ELSE IF st.object.kind = "node" THEN [on |-> "object", node |-> st.object.of]
    ELSE [on |-> "event", node |-> Root]

\* new_levent(): one more event of a space.
new_levent(list, st) ==
    list \cup {[event |-> Len(said) + 1, subject |-> SubjectOf(st),
                object |-> ObjectOf(st)]}

\* C leaves open which argument is evaluated, and given its bit, first.
Orders(st) == SetToSeqs({SubjectOf(st), ObjectOf(st)} \ {AllObj, NoSpace})

space_add_event ==
    /\ Reads("event")
    /\ LET st == Head(script)
           subject == SubjectOf(st)
           object == ObjectOf(st)
       IN  /\ Known(st)
           /\ MakesAnonymous(st)
           /\ levent' = [x \in SpaceId |-> IF x \in {subject, object}
                                           THEN new_levent(levent[x], st) ELSE levent[x]]
           /\ \E named \in Orders(st) :
                 /\ GetsVs(named) /\ vs' = Own(named)
                 /\ hooks' = hooks \cup
                       {HangsOn(st) @@ [event |-> Len(said) + 1,
                                        subject_vs |-> Bits(named, subject),
                                        object_vs |-> Bits(named, object)]}
    /\ UNCHANGED <<status, primary, results>>

\* error(): the configuration is not accepted, and nothing starts.
Legal(st) ==
    CASE st.stmt = "space" -> MayDefine(st)
                              /\ SpacesIn(st.body) \subseteq Declared \cup {st.name}
      [] st.stmt = "add" -> {st.name} \cup SpacesIn(st.body) \subseteq Declared
      [] st.stmt = "access" -> MayAccess(st)
      [] st.stmt = "event" -> Known(st)

Wanted(st) ==
    IF st.stmt = "access" THEN AccessNamed(st)
    ELSE IF st.stmt = "event" THEN CHOOSE xs \in Orders(st) : TRUE ELSE <<>>

Stops(how) ==
    /\ status' = how
    /\ UNCHANGED <<script, said, spaces, ltree, primary, identity, used,
                   levent, hooks, results>>

Rejected ==
    /\ status = "config" /\ script # <<>> /\ ~Legal(Head(script))
    /\ Stops("rejected")

\* vs_alloc() fails.
NoVsLeft ==
    /\ status = "config" /\ script # <<>> /\ Legal(Head(script))
    /\ vs_cnt + Len(Fresh(Wanted(Head(script)))) > MaxVs
    /\ Stops("no vs left")

Loaded ==
    /\ status = "config" /\ script = <<>>
    /\ Stops("apply")

-----------------------------------------------------------------------------
(***************************************************************************)
(* Membership.  A result has the spaces the recursion marked as used and   *)
(* how it went wrong, if it did: fatal() for a space met twice on a path,  *)
(* fatal() for a path too long, or no end at all.                          *)
(***************************************************************************)
Alternatives(p) == {n \in Nodes : Covers(p, n)}

\* tree_is_equal(), tree_is_offspring() (of itself, too)
IsEqual(n, p) == Covers(p, n)
IsOffspring(n, p) == \E k \in 1 .. Len(n) : Covers(p, SubSeq(n, 1, k))

\* Mutant: the last place of the path is not used.
PathError_Early(sp, x) ==
    IF x \in ToSet(sp) THEN "loop"
    ELSE IF Len(sp) + 1 >= MaxPath THEN "too deep" ELSE ""

\* space_path_add()
PathError(sp, x) ==
    IF x \in ToSet(sp) THEN "loop" ELSE IF Len(sp) >= MaxPath THEN "too deep" ELSE ""

\* Mutant: what is below an excluded node is always cut off.
Level_Cuts(e) == 2

Level(e) == IF e.recur THEN 2 ELSE 1

\* Node n is the path of element e, or below it if that counts.
Reaches(e, n, recursive) ==
    IsEqual(n, e.of) \/ (recursive /\ IsOffspring(n, e.of))

\* One element in is_excluded_i(); i is what is_included() says of a space.
Excludes(a, e, n, i) ==
    IF a.stop \/ ~e.excl THEN a
    ELSE IF e.what = "tree"
    THEN IF Reaches(e, n, e.recur) THEN [a EXCEPT !.r = Level(e), !.stop = TRUE] ELSE a
    ELSE [r |-> IF i.in THEN Level(e) ELSE a.r, used |-> a.used \cup i.used,
          error |-> i.error, stop |-> i.error # "" \/ (i.in /\ e.recur)]

\* is_excluded_i(): 0 not, 1 the node, 2 the node and what is below it.
\* included[y, force] is what is_included() returns for n.
is_excluded_i(included, n, x) ==
    FoldLeft(LAMBDA a, e : Excludes(a, e, n, included[e.of, e.recur]),
             [r |-> 0, used |-> {}, error |-> "", stop |-> FALSE], ltree[x])

\* space_path_exclude(): the strongest exclusion on the path.
Stronger(a, ex) ==
    [r |-> IF ex.r > a.r THEN ex.r ELSE a.r, used |-> a.used \cup ex.used,
     error |-> ex.error]
space_path_exclude(included, sp, n) ==
    FoldLeft(LAMBDA a, x : IF a.r > 1 \/ a.error # "" THEN a
                           ELSE Stronger(a, is_excluded_i(included, n, x)),
             [r |-> 0, used |-> {}, error |-> ""], sp)

\* The path of a search is kept from one element of a space to the next:
\* space_path_add() adds to it, and nothing takes a space off it.
PathAfter(before, after) == after

\* One element in is_included_i(), where the path says "ex" of n and a space
\* taken in says i.
Includes(a, e, n, force, ex, i) ==
    IF a.stop \/ e.excl THEN a
    ELSE IF e.what = "tree"
    THEN IF Reaches(e, n, force \/ e.recur)
         THEN [in |-> ex.r = 0, sp |-> a.sp, used |-> a.used \cup ex.used,
               error |-> ex.error, stop |-> TRUE]
         ELSE a
    ELSE [in |-> i.in, sp |-> PathAfter(a.sp, i.sp), used |-> a.used \cup i.used,
          error |-> i.error, stop |-> i.in \/ i.error # ""]

\* is_included_i().  "outer" are the calls of is_included() that this one is
\* nested in: one that is repeated inside itself has no end.
Calls == SpaceId \X BOOLEAN
SpacePath == Seq(SpaceId)
is_included_i[outer \in SUBSET Calls, n \in Nodes, sp \in SpacePath, x \in SpaceId, force \in BOOLEAN] ==
    LET included ==
          [y \in SpaceId, f \in BOOLEAN |->
             IF <<y, f>> \in outer
             THEN [in |-> FALSE, used |-> {}, error |-> "endless"]
             ELSE is_included_i[outer \cup {<<y, f>>}, n, <<>>, y, f]]
    IN  IF PathError(sp, x) # ""
        THEN [in |-> FALSE, sp |-> sp, used |-> {x}, error |-> PathError(sp, x),
              stop |-> TRUE]
        ELSE FoldLeft(LAMBDA a, e :
                         Includes(a, e, n, force,
                                  space_path_exclude(included, a.sp, n),
                                  is_included_i[outer, n, a.sp, e.of, force \/ e.recur]),
                      [in |-> FALSE, sp |-> Append(sp, x), used |-> {x},
                       error |-> "", stop |-> FALSE], ltree[x])

is_included(n, x, force) == is_included_i[{<<x, force>>}, n, <<>>, x, force]

\* What a search has come to: nodes, each once however often it is met
\* (tree_get_visited_do()), spaces marked as used, an error.
Found(ex) ==
    [nodes |-> {e.node : e \in {d \in ex : d.r = 0}},
     used |-> UNION {e.used : e \in ex},
     error |-> IF \A e \in ex : e.error = "" THEN ""
               ELSE (CHOOSE e \in ex : e.error # "").error]
Together(a, v) ==
    [nodes |-> a.nodes \cup v.nodes, used |-> a.used \cup v.used, error |-> v.error]

\* space_for_one_path(): the alternatives of a path and, recursively, what
\* is below them, cut off where a node is excluded with what is below it.
Below(t, n) == t # n /\ IsPrefix(t, n)
Visited(ex, tops, recursive) ==
    {e \in ex : \E t \in tops :
        \/ e.node = t
        \/ /\ recursive /\ Below(t, e.node)
           /\ \A d \in ex : ~(/\ d.r > 1 /\ Below(d.node, e.node)
                              /\ (d.node = t \/ Below(t, d.node)))}
space_for_one_path(sp, p, recursive) ==
    LET included(n) == [y \in SpaceId, f \in BOOLEAN |-> is_included(n, y, f)]
        ex == {space_path_exclude(included(n), sp, n) @@ [node |-> n] :
                  n \in {m \in Nodes : \E t \in Alternatives(p) :
                            m = t \/ (recursive /\ Below(t, m))}}
    IN  Found(Visited(ex, Alternatives(p), recursive))

\* space_for_every_path_i(): here the path loses the space again at the end.
space_for_every_path_i[sp \in SpacePath, x \in SpaceId, force \in BOOLEAN] ==
    IF PathError(sp, x) # ""
    THEN [nodes |-> {}, used |-> {x}, error |-> PathError(sp, x)]
    ELSE FoldLeft(LAMBDA a, e :
                     IF a.error # "" \/ e.excl THEN a
                     ELSE Together(a,
                            IF e.what = "tree"
                            THEN space_for_one_path(Append(sp, x), e.of, force \/ e.recur)
                            ELSE space_for_every_path_i[Append(sp, x), e.of, force \/ e.recur]),
                  [nodes |-> {}, used |-> {x}, error |-> ""], ltree[x])

-----------------------------------------------------------------------------
(***************************************************************************)
(* space_apply_all(), after tree_expand_alternatives().                    *)
(***************************************************************************)
Pending == SelectSeq(spaces, LAMBDA x : x \in used /\ x \notin processed)

\* It has an identification, and something relies on it.
Defined(x) == vs_id[x] # {}

\* Mutant: a space that turned out empty stays used.
StillUsed_KeepsMark(x, found) == used \cup found.used

\* A space that turned out empty is not used; a later one may use it again.
StillUsed(x, found) ==
    IF found.nodes = {} THEN (used \cup found.used) \ {x} ELSE used \cup found.used

\* One round of the first loop of space_apply_all(): the first space that is used and was not
\* processed yet, then from the head of the list again.
Finds(x, found) ==
    /\ rounds' = rounds + 1 /\ used' = StillUsed(x, found)
    /\ IF found.error # ""
       THEN status' = found.error /\ UNCHANGED <<processed, members>>
       ELSE IF found.nodes = {}
       THEN /\ status' = IF Defined(x) THEN "no members" ELSE status
            /\ UNCHANGED <<processed, members>>
       ELSE /\ processed' = processed \cup {x}
            /\ members' = [members EXCEPT ![x] = found.nodes]
            /\ UNCHANGED status

Processes ==
    /\ status = "apply" /\ Pending # <<>>
    /\ Finds(Head(Pending), space_for_every_path_i[<<>>, Head(Pending), FALSE])
    /\ UNCHANGED <<script, said, spaces, ltree, primary, identity, levent, hooks,
                   node_vs, node_primary, connected, masks>>

\* space_destroy(): out of the list, with its elements and events.
space_destroy(xs) ==
    /\ spaces' = SelectSeq(spaces, LAMBDA x : x \notin xs)
    /\ ltree' = [x \in SpaceId |-> IF x \in xs THEN <<>> ELSE ltree[x]]
    /\ levent' = [x \in SpaceId |-> IF x \in xs THEN {} ELSE levent[x]]

\* The spaces whose space_for_every_member() comes to node n.
MemberOf(n) == {x \in processed : n \in members[x]}

\* The second loop destroys what was not processed, the third gives the
\* nodes their bits; the last primary space of the list wins.
Granted(n, a) == UNION {vs[x][a] : x \in MemberOf(n)}
PrimaryOf(n) ==
    LET xs == SelectSeq(spaces, LAMBDA x : x \in primary \cap MemberOf(n))
    IN  IF xs = <<>> THEN NoSpace ELSE Last(xs)

Applied ==
    /\ status = "apply" /\ Pending = <<>>
    /\ IF \E x \in Declared \ processed : Defined(x)
       THEN /\ status' = "not processed"
            /\ UNCHANGED <<spaces, ltree, levent, node_vs, node_primary>>
       ELSE /\ status' = "ready"
            /\ space_destroy(Declared \ processed)
            /\ node_vs' = [n \in Nodes |-> [a \in Accesses |-> Granted(n, a)]]
            /\ node_primary' = [n \in Nodes |-> PrimaryOf(n)]
    /\ UNCHANGED <<script, said, primary, identity, used, hooks, processed,
                   rounds, members, connected, masks>>

-----------------------------------------------------------------------------
(***************************************************************************)
(* A kernel has connected and defined its classes and events:              *)
(* space_init_event_mask().  Event i of the history is a type of its own.  *)
(***************************************************************************)

\* monitored_operand is a class, and so is what it is compared with: with one
\* class on both sides both operands are the monitored one.
MonitoredClass(i) == said[i].op[said[i].monitored]
IsMonitored(i, side) == said[i].op[side] = MonitoredClass(i)
OfClass(i, n) == n[1] = MonitoredClass(i)

\* tree_comm_reinit(): handlers on the node (and, by the expansion, of every
\* pattern that covers it) for events that monitor that operand.
HooksMask(n) ==
    {h.event : h \in {g \in hooks : /\ g.on \in Sides /\ IsMonitored(g.event, g.on)
                                    /\ Covers(g.node, n) /\ OfClass(g.event, n)}}

\* Mutant: the subject's members report, whatever operand is monitored.
MaskedSpaces_Subject(l) == {l.subject} \cap SpaceId

\* The spaces of an event whose members report it.
MaskedSpaces(l) ==
    {l[side] : side \in {s \in Sides : IsMonitored(l.event, s)}} \cap SpaceId

\* The events of the spaces of the list, on the members of their spaces.
SpacesMask(n) ==
    {l.event : l \in {k \in UNION {levent[x] : x \in Declared} :
                         /\ \E x \in MaskedSpaces(k) : n \in members[x]
                         /\ OfClass(k.event, n)}}

space_init_event_mask ==
    /\ status = "ready" /\ connected' = TRUE
    /\ masks' = [n \in Nodes |-> HooksMask(n) \cup SpacesMask(n)]
    /\ UNCHANGED <<script, said, status, spaces, ltree, primary, identity, used,
                   levent, hooks, processed, rounds, members, node_vs,
                   node_primary>>

-----------------------------------------------------------------------------
\* Constable has given up, or serves.
Ended ==
    /\ status \notin {"config", "apply"}
    /\ UNCHANGED vars

Next ==
    \/ space_create \/ space_add_path \/ space_add_vs \/ space_add_event
    \/ Rejected \/ NoVsLeft \/ Loaded
    \/ Processes \/ Applied
    \/ space_init_event_mask
    \/ Ended

Spec == Init /\ [][Next]_vars

-----------------------------------------------------------------------------
(***************************************************************************)
(* What the spaces mean, whatever way the code goes about it.              *)
(***************************************************************************)
Reach(p, recursive) ==
    {n \in Nodes : IsEqual(n, p) \/ (recursive /\ IsOffspring(n, p))}

\* The nodes of the elements taken in, without those of the elements kept out.
Meant[depth \in 0 .. Cardinality(SpaceId), x \in SpaceId, force \in BOOLEAN] ==
    LET Of(e, f) == IF e.what = "tree" THEN Reach(e.of, f \/ e.recur)
                    ELSE IF depth = Cardinality(SpaceId) THEN {}
                    ELSE Meant[depth + 1, e.of, f \/ e.recur]
        elements == ToSet(ltree[x])
    IN  UNION {Of(e, force) : e \in {d \in elements : ~d.excl}}
           \ UNION {Of(e, FALSE) : e \in {d \in elements : d.excl}}

MembersOf(x) == Meant[0, x, FALSE]

\* The graphs of inclusion and exclusion among spaces.
Refers(x, y, excl) ==
    \E e \in ToSet(ltree[x]) : e.what = "space" /\ e.of = y /\ e.excl = excl
Through(y, R) ==
    R \cup {<<x, z>> \in SpaceId \X SpaceId : <<x, y>> \in R /\ <<y, z>> \in R}
Leads(R) == FoldSet(Through, R \cup {<<x, x>> : x \in SpaceId}, SpaceId)
Inclusions == {<<x, y>> \in SpaceId \X SpaceId : Refers(x, y, FALSE)}
Mentions == Inclusions \cup {<<x, y>> \in SpaceId \X SpaceId : Refers(x, y, TRUE)}

\* No space that is excluded somewhere excludes anything itself, or takes in
\* a space that does.  Beyond that is_included() has answers of its own: it
\* stops at the first element that matches, with the exclusions of all spaces
\* met before, where space_for_every_path_i() goes on.
Unnested ==
    LET in == Leads(Inclusions)
    IN  \A x, y, z \in SpaceId :
           Refers(x, y, TRUE) /\ <<y, z>> \in in
              => \A e \in ToSet(ltree[z]) : ~e.excl

-----------------------------------------------------------------------------
(***************************************************************************)
(* Properties.                                                             *)
(***************************************************************************)

\* The two recursions, with their paths, cuts and early returns, compute the
\* members the definition of a space means.
MembersRight ==
    Unnested => \A x \in processed : members[x] = MembersOf(x)

\* The start fails for spaces only for a reason in the configuration:
\* a space that is reached twice by inclusion, an exclusion that leads back
\* to itself, a space that takes in, at any depth, more than MAX_SPACE_PATH
\* spaces, a space with an identification and without members.  A space with
\* an identification is never left over.
FailsForAReason ==
    LET in == Leads(Inclusions)
        any == Leads(Mentions)
    IN  /\ status = "loop" =>
              \E x, z \in SpaceId :
                 \E i, j \in {k \in DOMAIN ltree[x] : ltree[x][k].what = "space"
                                                      /\ ~ltree[x][k].excl} :
                    \/ <<ltree[x][i].of, x>> \in in
                    \/ i # j /\ {<<ltree[x][i].of, z>>, <<ltree[x][j].of, z>>} \subseteq in
        /\ status = "endless" =>
              \E x, y \in SpaceId : Refers(x, y, TRUE) /\ <<y, x>> \in any
        /\ status = "no members" /\ Unnested =>
              \E x \in SpaceId : vs_id[x] # {} /\ MembersOf(x) = {}
        /\ status = "too deep" =>
              \E x \in SpaceId : Cardinality({y \in SpaceId : <<x, y>> \in in}) > MaxPath
        /\ status # "not processed"

\* Nodes that were made members of a space by `x MEMBER y'.
Adopted(y) ==
    UNION {members[st.subject.of] : st \in
              {s \in ToSet(said) : /\ s.stmt = "access" /\ s.access = "MEMBER"
                                   /\ s.subject.kind = "space"
                                   /\ s.object = [kind |-> "space", of |-> y]}}

\* The test of do_event_list() (object_cmp_vs() unless the set is full).
Meets(bits, n) == bits = AllBits \/ bits \cap node_vs[n]["MEMBER"] # {}

MeantBy(o, other) ==
    CASE o.kind = "all" -> Nodes
      [] o.kind = "none" -> {}
      [] o.kind = "space" -> members[o.of] \cup Adopted(o.of)
      [] o.kind = "recursive" -> Reach(o.of, TRUE)
      [] o.kind = "node" -> IF other.kind = "node" THEN Alternatives(o.of) ELSE Nodes

\* At run time only the bits decide whether a handler is called, and a bit
\* two spaces shared would call the handlers of the other: they let through
\* exactly the nodes the statement of the handler names (a path that
\* the handler hangs on needs no bit).
HandlersMeetMembers ==
    status = "ready" =>
       \A h \in hooks, n \in Nodes :
          LET st == said[h.event]
          IN  /\ Meets(h.subject_vs, n) <=>
                    st.subject.kind = "node" \/ n \in MeantBy(st.subject, st.object)
              /\ Meets(h.object_vs, n) <=> n \in MeantBy(st.object, st.subject)

\* The kernel lets a right through when the bits a subject's node has for it
\* meet those of the object's node.  They meet for exactly the nodes of which
\* an access statement says so, as long as its subject is a space in use.
RightsAsGranted ==
    status = "ready" =>
       \A a \in Accesses \ {"MEMBER"}, n, m \in Nodes :
          node_vs[n][a] \cap node_vs[m]["MEMBER"] # {} <=>
             \E st \in ToSet(said) :
                /\ st.stmt = "access" /\ st.access = a
                /\ st.subject.kind = "space" /\ n \in members[st.subject.of]
                /\ m \in MeantBy(st.object, st.subject)

\* The operands that may be of the class an event is monitored by.
MonitoredOperands(i) ==
    LET st == said[i]
    IN  {st[side] : side \in {s \in Sides : st.op[s] = st.op[st.monitored]}}
NodesOf(o) ==
    CASE o.kind \in {"all", "none"} -> {}
      [] o.kind = "space" -> members[o.of]
      [] o.kind = "node" -> Alternatives(o.of)
      [] o.kind = "recursive" -> Reach(o.of, TRUE)

\* The kernel reports an event exactly for the nodes its statement names as
\* the operand the event is monitored by; for "*" it is not asked to.  Where
\* both operands are of one class, it does so for either operand's nodes.
MasksRight ==
    connected =>
       \A i \in DOMAIN said, n \in Nodes :
          i \in masks[n] <=> /\ said[i].stmt = "event" /\ OfClass(i, n)
                             /\ \E o \in MonitoredOperands(i) : n \in NodesOf(o)

\* space_apply_all() ends although it starts again from the head of the list
\* after every space, and an empty space, which has lost its mark, gets it
\* again from every space that refers to it, empty ones included.  (The bound
\* is half used up by empty spaces of which each includes all newer ones.)
StartEnds == status = "apply" => rounds <= 2 ^ Len(spaces)

=============================================================================
