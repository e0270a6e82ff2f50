----------------------------- MODULE Hierarchy -----------------------------
(***************************************************************************)
(* How a kernel object is tied to nodes of the trees: every class handler   *)
(* keeps a tree node in its block of the object's cinfo, and the object's   *)
(* virtual spaces and watched events are computed from these nodes.  A      *)
(* request carries copies of its subject and object; the hierarchy hooks of *)
(* the trees find the node the subject goes down to (decide) and, once the  *)
(* request was allowed, put it into the cinfo (notify); the answer writes   *)
(* the subject's copy back into the kernel.                                *)
(***************************************************************************)
EXTENDS Classes, Verdicts

CONSTANTS
  Nodes, Root,      \* tree nodes; the root of each handler's tree
  Owner,            \* t->type->class_handler
  Children,         \* t->child and t->regex_child
  Alternatives,     \* t and the nodes of its alt chain
  NodeSpaces,       \* t->vs[access type]
  NodeEvents,       \* t->events[conn].event: bits by part
  Flags,            \* h->flags: subset of {"test_enter", "clone"}
  AccessTypes,
  VsAttr,           \* by class: the spaces an attribute holds, or NoAttr
  EventBits,        \* by class: the bits med_oact and med_sact hold
  Words,            \* addresses of cinfo words
  Objects, ObjConn, ObjClass,
  Buffers, MaxRequests,
  Said,             \* what the configuration's own hooks may answer
  MaxEnters,        \* bound on the calls of enter() in one request
  NoNode, NoObject, NoAttr, Idle

ASSUME HierarchyAssumption ==
  /\ Root \in [Handlers -> Nodes] /\ Owner \in [Nodes -> Handlers]
  /\ \A h \in Handlers : Owner[Root[h]] = h
  /\ Children \in [Nodes -> SUBSET Nodes] /\ Alternatives \in [Nodes -> SUBSET Nodes]
  /\ \A n \in Nodes : \A m \in Children[n] \cup Alternatives[n] : Owner[m] = Owner[n]
  /\ {"MEMBER", "ENTER"} \subseteq AccessTypes
  /\ NoNode \notin Nodes
  /\ ObjConn \in [Objects -> Conns] /\ ObjClass \in [Objects -> ClassNames]
  /\ NoObject \notin Objects
  /\ \A d \in ClassDefs :
       /\ d.o_off..(d.o_off + d.o_size - 1) \subseteq Words
       /\ d.s_off..(d.s_off + d.s_size - 1) \subseteq Words

(* The class of a tree is the one of the subject of its access type:       *)
(* generic_init_comm() complains of a configuration where it is not, and   *)
(* goes on.                                                                *)
ASSUME TreesFitEvents ==
  \A h \in Handlers, e \in EventDefs, d \in ClassDefs :
    HandlerEvent[h] = e.name /\ e.op0 = d.id => HandlerClass[h] = d.name

VARIABLES
  kernel,   \* the objects' data as the kernel has them
  bufs,     \* the requests being decided
  requests  \* requests so far (bounded by MaxRequests)

hvars == <<kernel, bufs, requests>>
vars == <<cvars, hvars>>

Fresh == [cinfo |-> [w \in Words |-> NoNode],
          vs |-> [a \in AccessTypes |-> {}],
          act |-> [p \in Parts |-> {}]]

-----------------------------------------------------------------------------
Struct(o) == byName[ObjConn[o]][ObjClass[o]]
HandlersOf(o) == {h \in Handlers : HandlerClass[h] = ObjClass[o]}

(* PCINFO(): where handler h keeps the node of o. *)
Slot(o, h) == offset[h][ObjConn[o]]
Node(o, data, h) == data.cinfo[Slot(o, h)]
Put(o, data, h, n) ==
  [cinfo |-> [data.cinfo EXCEPT ![Slot(o, h)] = n], vs |-> data.vs, act |-> data.act]

(* What handler h adds for the node of o: the spaces of the node and of its *)
(* alternatives ...                                                        *)
Tied(o, data, h) == IF Node(o, data, h) = NoNode THEN {} ELSE Alternatives[Node(o, data, h)]
TiedNodes(o, data) == UNION {Tied(o, data, h) : h \in HandlersOf(o)}
SpacesOf(o, data, a) == UNION {NodeSpaces[n][a] : n \in TiedNodes(o, data)}

(* ... their events, and while there are nodes below, the handler's own    *)
(* access type if it is this class that the kernel watches for it.         *)
Inherits(o, data, h) ==
  /\ \E n \in Tied(o, data, h) : Children[n] # {}
  /\ HandlerEvent[h] # NoEvent
  /\ Event(ObjConn[o], h).monitored = Struct(o)
Mask(o, h, part) ==
  LET e == Event(ObjConn[o], h).def IN
  IF e.by_object = (part = "object") THEN {e.bit} ELSE {}
EventsOf(o, data, part) ==
  (UNION {NodeEvents[n][part] : n \in TiedNodes(o, data)})
  \cup (UNION {Mask(o, h, part) : h \in {k \in HandlersOf(o) : Inherits(o, data, k)}})

(* Mutation: the sets are not cleared first. *)
SetHandler_Adds(o, data) ==
  [cinfo |-> data.cinfo,
   vs |-> [a \in AccessTypes |->
             IF VsAttr[ObjClass[o]][a] = NoAttr THEN {}
             ELSE data.vs[a] \cup (SpacesOf(o, data, a) \cap VsAttr[ObjClass[o]][a])],
   act |-> [p \in Parts |-> data.act[p] \cup (EventsOf(o, data, p) \cap EventBits[ObjClass[o]][p])]]

(* object_do_sethandler(): the sets are computed anew from the nodes. *)
SetHandler(o, data) ==
  [cinfo |-> data.cinfo,
   vs |-> [a \in AccessTypes |->
             IF VsAttr[ObjClass[o]][a] = NoAttr THEN {}
             ELSE SpacesOf(o, data, a) \cap VsAttr[ObjClass[o]][a]],
   act |-> [p \in Parts |-> EventsOf(o, data, p) \cap EventBits[ObjClass[o]][p]]]

(* object_is_invalid(): the first word of each cinfo attribute is empty. *)
IsInvalid(o, data) ==
  LET s == structs[ObjConn[o]][Struct(o)] IN
  \A p \in Parts : Size(s, p) > 0 => data.cinfo[Start(s, p)] = NoNode

(* object_get_vs(): the attribute, or without one what the handlers' nodes *)
(* have, their alternatives left out.                                      *)
GetVs(o, data, a) ==
  IF VsAttr[ObjClass[o]][a] # NoAttr THEN data.vs[a]
  ELSE UNION {NodeSpaces[n][a] :
                n \in {Node(o, data, h) : h \in HandlersOf(o)} \ {NoNode}}

MayEnter(o, data, n) == NodeSpaces[n]["MEMBER"] \cap GetVs(o, data, "ENTER") # {}

-----------------------------------------------------------------------------
Init ==
  /\ CInit
  /\ kernel = [o \in Objects |-> Fresh]
  /\ bufs = [b \in Buffers |-> Idle]
  /\ requests = 0

Busy(b) == bufs[b] # Idle

(* The hooks of the trees for the event are met in the order of the trees: *)
(* those from pos on are still to come.                                    *)
ToCome(b) == {i \in DOMAIN HandlerOrder :
                i >= bufs[b].pos /\ HandlerEvent[HandlerOrder[i]] = bufs[b].event}
AtHook(b) == ToCome(b) # {}
HookPos(b) == CHOOSE i \in ToCome(b) : \A j \in ToCome(b) : i <= j
Hook(b) == HandlerOrder[HookPos(b)]
Walking(b) == Busy(b) /\ bufs[b].pos > 0

Set(b, r) == bufs' = [bufs EXCEPT ![b] = r] /\ UNCHANGED <<cvars, kernel, requests>>

(* mcp_r_query(), get_event_context(): a request with copies of its        *)
(* operands.  The kernel stops the subject until it has the answer, and    *)
(* asks only with access types defined for the classes as they are now: an *)
(* access type keeps pointing to the class it was defined with (ev->op[]), *)
(* also after that class was defined anew.                                 *)
Request(b, c, ev, s, o) ==
  /\ phase[c] = "ready" /\ ~Busy(b) /\ requests < MaxRequests
  /\ events[c][ev].op0 # 0 /\ ObjConn[s] = c /\ Struct(s) = events[c][ev].op0
  /\ IF o = NoObject THEN events[c][ev].op1 = 0
     ELSE ObjConn[o] = c /\ Struct(o) # 0 /\ Struct(o) = events[c][ev].op1
  /\ \A d \in Buffers : Busy(d) => bufs[d].subject # s
  /\ bufs' = [bufs EXCEPT ![b] =
       [event |-> ev, subject |-> s, object |-> o, start |-> kernel[s], s |-> kernel[s],
        o |-> IF o = NoObject THEN Fresh ELSE kernel[o], list |-> "VS_ALLOW", pos |-> 0,
        result |-> RESULT_ERR, allowed |-> FALSE,   \* history: the decision
        var |-> [h \in Handlers |-> NoNode], enters |-> 0]]
  /\ requests' = requests + 1
  /\ UNCHANGED <<cvars, kernel>>

(* do_event_list() with a fresh buffer. *)
Begin(b) ==
  /\ Busy(b) /\ bufs[b].pos = 0
  /\ Set(b, [bufs[b] EXCEPT !.pos = 1,
               !.s = IF IsInvalid(bufs[b].subject, @) THEN SetHandler(bufs[b].subject, @) ELSE @])

(* generic_hierarchy_handler_decide(), first half: a subject without a node *)
(* starts at its object's node ("clone") or at the root.                   *)
StartNode(b, h) ==
  LET r == bufs[b]
      clone == IF /\ "clone" \in Flags[h] /\ r.object # NoObject
                  /\ Struct(r.object) = Struct(r.subject)
               THEN Node(r.object, r.o, h) ELSE NoNode
  IN  IF clone = NoNode THEN Root[h] ELSE clone

Located(b, h) ==
  LET r == bufs[b] IN
  IF Node(r.subject, r.s, h) = NoNode
  THEN [r EXCEPT !.s = SetHandler(r.subject, Put(r.subject, r.s, h, StartNode(b, h)))]
  ELSE r

Deciding(b) == Walking(b) /\ bufs[b].list = "VS_ALLOW" /\ AtHook(b)

(* The tree's path expression has to ask the kernel: the hook is run again *)
(* from its start when the answer is there.                                *)
DecideParks(b) ==
  /\ Deciding(b)
  /\ Located(b, Hook(b)) # bufs[b]
  /\ Set(b, Located(b, Hook(b)))

(* find_one(): the node the path expression names.  An empty name (or one   *)
(* that is no string) names the node itself, and so does any name where    *)
(* nothing is below; with nodes below, a name may be that of none of them. *)
FindOne(n) == Children[n] \cup {n}
FindsNothing(n) == Children[n] # {}

(* Second half: the subject may go to the node found or stay at it, lacks  *)
(* ENTER on it ...                                                         *)
DecideFound(b) ==
  /\ Deciding(b)
  /\ LET h == Hook(b)
         r == Located(b, h)
         here == Node(r.subject, r.s, h)
     IN  \E n \in FindOne(here) :
           LET may == "test_enter" \in Flags[h] => MayEnter(r.subject, r.s, n) IN
           Set(b, [r EXCEPT !.var[h] = IF may THEN n ELSE here,
                            !.result = evaluate_result(@, IF may THEN RESULT_ALLOW ELSE RESULT_DENY),
                            !.pos = HookPos(b) + 1])

(* ... or there is no such node: the hook fails and has no say. *)
DecideMissing(b) ==
  /\ Deciding(b)
  /\ LET h == Hook(b)
         r == Located(b, h)
         here == Node(r.subject, r.s, h)
     IN  /\ FindsNothing(here)
         /\ Set(b, [r EXCEPT !.var[h] = here, !.pos = HookPos(b) + 1])

Allowed(r) == r.result \notin {RESULT_DENY, RESULT_FAKE_ALLOW}

(* Mutation: told of a denial, the tree moves the subject all the same. *)
ToNotify_Always(b) ==
  /\ Walking(b) /\ bufs[b].list = "VS_ALLOW" /\ ~AtHook(b)
  /\ Set(b, [bufs[b] EXCEPT !.list = "NOTIFY_ALLOW", !.pos = 1, !.allowed = Allowed(bufs[b])])

(* do_event(): the decision list is over. *)
ToNotify(b) ==
  /\ Walking(b) /\ bufs[b].list = "VS_ALLOW" /\ ~AtHook(b)
  /\ Set(b, [bufs[b] EXCEPT !.list = NotifyList("VS_ALLOW", bufs[b].result), !.pos = 1,
                             !.allowed = Allowed(bufs[b])])

(* generic_hierarchy_handler_notify(): the node found is the subject's now, *)
(* whatever happened to the subject's cinfo since; having said nothing, the *)
(* hook is taken to repeat the result so far.                              *)
Notify(b) ==
  /\ Walking(b) /\ bufs[b].list = "NOTIFY_ALLOW" /\ AtHook(b)
  /\ LET r == bufs[b]
         h == Hook(b)
     IN  Set(b, [r EXCEPT !.s = SetHandler(r.subject, Put(r.subject, r.s, h, r.var[h])),
                          !.result = evaluate_result(@, @), !.pos = HookPos(b) + 1])

(* A hook of the configuration before, between or after those of the trees *)
(* changes the verdict ...                                                 *)
UserSays(b) ==
  /\ Walking(b)
  /\ \E v \in Said : evaluate_result(bufs[b].result, v) # bufs[b].result
       /\ Set(b, [bufs[b] EXCEPT !.result = evaluate_result(@, v)])

(* Mutation: the path's tree is not checked to be one for the object. *)
Enterable_AnyTree(o, data, h, n) ==
  /\ Slot(o, h) >= 0
  /\ "test_enter" \in Flags[h] => MayEnter(o, data, n)

(* generic_enter_tree_node(): the checks. *)
Enterable(o, data, h, n) ==
  /\ HandlerClass[h] = ObjClass[o]
  /\ Slot(o, h) >= 0
  /\ "test_enter" \in Flags[h] => MayEnter(o, data, n)

(* ... or puts the subject (or its copy of the object) somewhere with      *)
(* enter().                                                                *)
UserEnters(b) ==
  /\ Walking(b) /\ bufs[b].enters < MaxEnters
  /\ \E n \in Nodes :
       LET r == bufs[b]
           h == Owner[n]
       IN  \/ /\ Enterable(r.subject, r.s, h, n)
              /\ Set(b, [r EXCEPT !.s = SetHandler(r.subject, Put(r.subject, @, h, n)),
                                  !.enters = @ + 1])
           \/ /\ r.object # NoObject
              /\ Enterable(r.object, r.o, h, n)
              /\ Set(b, [r EXCEPT !.o = SetHandler(r.object, Put(r.object, @, h, n)),
                                  !.enters = @ + 1])

(* mcp_answer(): unless there is no verdict the subject is updated first;  *)
(* that the kernel refused the update is ignored.                          *)
Answer(b) ==
  /\ Walking(b)
  /\ bufs[b].list \in NotifyLists
  /\ bufs[b].list = "NOTIFY_ALLOW" => ~AtHook(b)
  /\ \/ /\ bufs[b].result # RESULT_ERR
        /\ kernel' = [kernel EXCEPT ![bufs[b].subject] = bufs[b].s]
     \/ UNCHANGED kernel
  /\ bufs' = [bufs EXCEPT ![b] = Idle]
  /\ UNCHANGED <<cvars, requests>>

Work(b) == \/ Begin(b) \/ DecideParks(b) \/ DecideFound(b) \/ DecideMissing(b)
           \/ ToNotify(b) \/ Notify(b) \/ UserSays(b) \/ UserEnters(b) \/ Answer(b)

Next ==
  \/ CNext /\ UNCHANGED hvars
  \/ \E b \in Buffers :
       \/ \E c \in Conns, ev \in EventNames, s \in Objects, o \in Objects \cup {NoObject} :
            Request(b, c, ev, s, o)
       \/ Work(b)

Spec == Init /\ [][Next]_vars

-----------------------------------------------------------------------------
(* Every copy of an object's data there is: the kernel's and the requests'. *)
Copies ==
  {<<o, kernel[o]>> : o \in {p \in Objects : phase[ObjConn[p]] = "ready" /\ Struct(p) # 0}}
  \cup {<<bufs[b].subject, bufs[b].s>> : b \in {d \in Buffers : Busy(d)}}
  \cup {<<bufs[b].object, bufs[b].o>> : b \in {d \in Buffers : Busy(d) /\ bufs[d].object # NoObject}}

(* A word of an object's cinfo is empty or points to a node of the tree of *)
(* the one class handler that owns the word: no handler ever takes another *)
(* one's pointer for its own (generic.c follows it without a check).       *)
NodesInPlace ==
  \A x \in Copies : \A w \in Words :
    x[2].cinfo[w] # NoNode =>
      \E h \in HandlersOf(x[1]) : Slot(x[1], h) = w /\ Owner[x[2].cinfo[w]] = h

(* The spaces and the watched events stored in an object are those of the  *)
(* nodes it is tied to, at every moment: none is left over from a node it  *)
(* has left, none is missing (as far as the kernel's attributes hold them).*)
SetsMatchNodes ==
  \A x \in Copies :
    /\ \A a \in AccessTypes :
         VsAttr[ObjClass[x[1]]][a] # NoAttr =>
           x[2].vs[a] = SpacesOf(x[1], x[2], a) \cap VsAttr[ObjClass[x[1]]][a]
    /\ \A p \in Parts : x[2].act[p] = EventsOf(x[1], x[2], p) \cap EventBits[ObjClass[x[1]]][p]

(* Unless a hook called enter(), a subject goes down one step at most, in  *)
(* the trees of this access type and only once the decision list allowed   *)
(* it or, as do_event() has it, said nothing; a denied subject stays where *)
(* it was, or is put where its way starts.                                 *)
StepsDown ==
  \A b \in Buffers : Busy(b) /\ bufs[b].enters = 0 =>
    LET r == bufs[b] IN
    \A h \in HandlersOf(r.subject) :
      LET old == Node(r.subject, r.start, h)
          begin == IF old # NoNode THEN {old} ELSE {NoNode, Root[h], StartNode(b, h)}
      IN  \/ Node(r.subject, r.s, h) \in begin
          \/ /\ r.allowed /\ HandlerEvent[h] = r.event
             /\ \E n \in begin \ {NoNode} : Node(r.subject, r.s, h) \in Children[n]
=============================================================================
