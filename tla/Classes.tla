------------------------------ MODULE Classes ------------------------------
(***************************************************************************)
(* What a kernel tells Constable about its classes and access types, and    *)
(* how the class handlers (one per tree of the configuration) divide the    *)
(* "cinfo" words of a class among themselves: each handler keeps a pointer  *)
(* to the tree node of an object in a block of that object's own data.      *)
(*                                                                         *)
(* Blocks are one pointer wide and numbered from the start of the attribute *)
(* that holds them (o_cinfo of an object, s_cinfo of a subject).            *)
(***************************************************************************)
EXTENDS Integers, Sequences, FiniteSets

CONSTANTS
  Conns,            \* connections (comm->conn)
  ClassNames, EventNames,
  ClassDefs,        \* classes a kernel may define
  EventDefs,        \* access types a kernel may define
  Handlers,         \* class handlers: the trees of the configuration
  HandlerClass,     \* h->classname
  HandlerEvent,     \* h->user: the access type that moves a subject, or NoEvent
  HandlerOrder,     \* the handlers in the order class_comm_init() meets them
  NoEvent,
  IntBits, PtrBits, \* widths of int and of uintptr_t
  MaxStructs,       \* bound on the class definitions of a connection
  LateDefinitions   \* the kernel may still define classes after READY

ClassDef == [name : ClassNames, id : Nat, o_off : Nat, o_size : Nat, s_off : Nat, s_size : Nat]
EventDef == [name : EventNames, op0 : Nat, op1 : Nat, one : BOOLEAN,
             at_object : BOOLEAN, by_object : BOOLEAN, bit : Nat]

ASSUME ClassesAssumption ==
  /\ ClassDefs \subseteq ClassDef
  /\ EventDefs \subseteq EventDef
  /\ HandlerClass \in [Handlers -> ClassNames]
  /\ HandlerEvent \in [Handlers -> EventNames \cup {NoEvent}]
  /\ HandlerOrder \in Seq(Handlers)
  /\ \A h \in Handlers : \E i \in DOMAIN HandlerOrder : HandlerOrder[i] = h
  /\ IntBits \in Nat \ {0} /\ PtrBits \in Nat /\ IntBits <= PtrBits
  /\ MaxStructs \in Nat /\ LateDefinitions \in BOOLEAN

(* The kernel's attributes do not overlap. *)
ASSUME DisjointAttributes ==
  \A d \in ClassDefs : \/ d.o_size = 0 \/ d.s_size = 0
                       \/ d.o_off + d.o_size <= d.s_off
                       \/ d.s_off + d.s_size <= d.o_off

VARIABLES
  phase,    \* of the connection: open -> init -> ready, or failed
  structs,  \* class_s blocks in the order of definition
  byName,   \* class_names_s.classes[conn]: the struct of a name, 0 for NULL
  events,   \* event_names_s.events[conn]: the access type of a name
  offset,   \* h->cinfo_offset[conn]
  todo,     \* class_comm_init(): the handlers still to be initialised
  blocks    \* history: the block a handler was given

cvars == <<phase, structs, byName, events, offset, todo, blocks>>

None   == [struct |-> 0, part |-> "none", block |-> 0]
Parts  == {"object", "subject"}
Undefined == [def |-> NoEvent, op0 |-> 0, op1 |-> 0, monitored |-> 0]

-----------------------------------------------------------------------------
(* add_class(): the new class, with no block of its cinfo taken. *)
ClassStruct(d) == [def |-> d, mask |-> [p \in Parts |-> {}]]

Size(s, part) == IF part = "object" THEN s.def.o_size ELSE s.def.s_size
Start(s, part) == IF part = "object" THEN s.def.o_off ELSE s.def.s_off

(* hash_find(): the latest entry of the chain that has the key. *)
FindClass(c, id) ==
  LET found == {i \in DOMAIN structs[c] : structs[c][i].def.id = id}
  IN  IF found = {} THEN 0 ELSE CHOOSE i \in found : \A j \in found : j <= i

(* 1 << i is an int: its top bit is extended, and the processor takes the  *)
(* count modulo the width of an int.                                       *)
Bits(i) == IF i % IntBits = IntBits - 1 THEN (IntBits - 1)..(PtrBits - 1) ELSE {i % IntBits}

(* class_alloc_cinfo(): the blocks it may hand out; it takes the first. *)
Free(s, part) == {i \in 0..(Size(s, part) - 1) : i < PtrBits /\ Bits(i) \cap s.mask[part] = {}}
IsFirst(i, S) == i \in S /\ \A j \in S : i <= j

-----------------------------------------------------------------------------
CInit ==
  /\ phase = [c \in Conns |-> "open"]
  /\ structs = [c \in Conns |-> <<>>]
  /\ byName = [c \in Conns |-> [n \in ClassNames |-> 0]]
  /\ events = [c \in Conns |-> [n \in EventNames |-> Undefined]]
  /\ offset = [h \in Handlers |-> [c \in Conns |-> 0]]
  /\ todo = [c \in Conns |-> <<>>]
  /\ blocks = [h \in Handlers |-> [c \in Conns |-> None]]

Listening(c) == phase[c] = "open" \/ (LateDefinitions /\ phase[c] = "ready")

(* mcp_r_classdef_attr(): a class arrives, perhaps for the second time. *)
DefineClass(c, d) ==
  /\ Listening(c)
  /\ Len(structs[c]) < MaxStructs
  /\ structs' = [structs EXCEPT ![c] = Append(@, ClassStruct(d))]
  /\ byName' = [byName EXCEPT ![c][d.name] = Len(structs[c]) + 1]
  /\ UNCHANGED <<phase, events, offset, todo, blocks>>

(* mcp_r_acctypedef_attr(), event_type_add(): an access type arrives.  The  *)
(* second operand is NULL when it is the first one again, and either is     *)
(* NULL when its class is unknown.                                          *)
DefineEvent(c, e) ==
  /\ Listening(c)
  /\ LET op0 == FindClass(c, e.op0)
         op1 == IF e.one THEN 0 ELSE FindClass(c, e.op1)
     IN  events' = [events EXCEPT ![c][e.name] =
                      [def |-> e, op0 |-> op0, op1 |-> op1,
                       monitored |-> IF e.at_object THEN op1 ELSE op0]]
  /\ UNCHANGED <<phase, structs, byName, offset, todo, blocks>>

(* comm_conn_init(), class_comm_init(): every class handler is told of the *)
(* connection.                                                             *)
Ready(c) ==
  /\ phase[c] = "open"
  /\ phase' = [phase EXCEPT ![c] = "init"]
  /\ todo' = [todo EXCEPT ![c] = HandlerOrder]
  /\ UNCHANGED <<structs, byName, events, offset, blocks>>

(* generic_init_comm() of the next handler h. *)
NextHandler(c) == todo[c][1]
Initialising(c) == phase[c] = "init" /\ todo[c] # <<>>
ClassOf(c, h) == byName[c][HandlerClass[h]]

(* The kernel has no such class: the handler is left without a block. *)
NoClass(c) ==
  /\ Initialising(c)
  /\ ClassOf(c, NextHandler(c)) = 0
  /\ offset' = [offset EXCEPT ![NextHandler(c)][c] = -1]
  /\ blocks' = [blocks EXCEPT ![NextHandler(c)][c] = None]
  /\ todo' = [todo EXCEPT ![c] = Tail(@)]
  /\ UNCHANGED <<phase, structs, byName, events>>

Event(c, h) == IF HandlerEvent[h] = NoEvent THEN Undefined ELSE events[c][HandlerEvent[h]]
UnknownEvent(c, h) == HandlerEvent[h] # NoEvent /\ Event(c, h) = Undefined

(* A subject's own access types keep their node in s_cinfo and fall back   *)
(* to o_cinfo; those triggered at the subject by the object's bit use      *)
(* o_cinfo only.                                                           *)
ObjectOnly(c, h) == Event(c, h) # Undefined /\ Event(c, h).def.by_object /\ ~Event(c, h).def.at_object

PartsFor(c, h) ==
  LET s == structs[c][ClassOf(c, h)] IN
  IF ObjectOnly(c, h) \/ Free(s, "subject") = {} THEN "object" ELSE "subject"

(* Mutation: the mask is not updated. *)
Allocate_MaskKept(c) ==
  /\ Initialising(c)
  /\ LET h == NextHandler(c)
         k == ClassOf(c, h)
         part == PartsFor(c, h)
     IN  /\ k # 0 /\ ~UnknownEvent(c, h)
         /\ \E i \in Free(structs[c][k], part) :
              /\ IsFirst(i, Free(structs[c][k], part))
              /\ UNCHANGED structs
              /\ offset' = [offset EXCEPT ![h][c] = Start(structs[c][k], part) + i]
              /\ blocks' = [blocks EXCEPT ![h][c] = [struct |-> k, part |-> part, block |-> i]]
  /\ todo' = [todo EXCEPT ![c] = Tail(@)]
  /\ UNCHANGED <<phase, byName, events>>

Allocate(c) ==
  /\ Initialising(c)
  /\ LET h == NextHandler(c)
         k == ClassOf(c, h)
         part == PartsFor(c, h)
     IN  /\ k # 0 /\ ~UnknownEvent(c, h)
         /\ \E i \in Free(structs[c][k], part) :
              /\ IsFirst(i, Free(structs[c][k], part))
              /\ structs' = [structs EXCEPT ![c][k].mask[part] = @ \cup Bits(i)]
              /\ offset' = [offset EXCEPT ![h][c] = Start(structs[c][k], part) + i]
              /\ blocks' = [blocks EXCEPT ![h][c] = [struct |-> k, part |-> part, block |-> i]]
  /\ todo' = [todo EXCEPT ![c] = Tail(@)]
  /\ UNCHANGED <<phase, byName, events>>

(* The access type is unknown or the class is full: the connection fails.  *)
InitFails(c) ==
  /\ Initialising(c)
  /\ LET h == NextHandler(c) IN
     /\ ClassOf(c, h) # 0
     /\ \/ UnknownEvent(c, h)
        \/ Free(structs[c][ClassOf(c, h)], PartsFor(c, h)) = {}
     /\ offset' = [offset EXCEPT ![h][c] = -1]
     /\ blocks' = [blocks EXCEPT ![h][c] = None]
  /\ phase' = [phase EXCEPT ![c] = "failed"]
  /\ UNCHANGED <<structs, byName, events, todo>>

InitDone(c) ==
  /\ phase[c] = "init" /\ todo[c] = <<>>
  /\ phase' = [phase EXCEPT ![c] = "ready"]
  /\ UNCHANGED <<structs, byName, events, offset, todo, blocks>>

CNext ==
  \E c \in Conns :
    \/ \E d \in ClassDefs : DefineClass(c, d)
    \/ \E e \in EventDefs : DefineEvent(c, e)
    \/ Ready(c) \/ NoClass(c) \/ Allocate(c) \/ InitFails(c) \/ InitDone(c)

CSpec == CInit /\ [][CNext]_cvars

-----------------------------------------------------------------------------
(* Two handlers of one class never keep their nodes in the same word of an *)
(* object, once both were initialised for the connection; and the word is  *)
(* one of the class's cinfo words (class_alloc_cinfo()).                    *)
Initialised(c, h) == phase[c] \in {"init", "ready"} /\ \A i \in DOMAIN todo[c] : todo[c][i] # h
Placed(c, h) == Initialised(c, h) /\ offset[h][c] >= 0

CinfoDisjoint ==
  \A c \in Conns, g, h \in Handlers :
    /\ g # h /\ HandlerClass[g] = HandlerClass[h]
    /\ phase[c] = "ready"
    /\ offset[g][c] >= 0 /\ offset[h][c] >= 0
    => offset[g][c] # offset[h][c]
=============================================================================
