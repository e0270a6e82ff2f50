-------------------------- MODULE HierarchyProofs --------------------------
(***************************************************************************)
(* Proofs about Classes and Hierarchy.                                     *)
(*                                                                         *)
(* For every set of classes, handlers and connections, two class handlers  *)
(* of a class never share a cinfo word.  The masks carry the argument: a   *)
(* block that was handed out has its bits set, and one with a bit set is   *)
(* not free.                                                               *)
(*                                                                         *)
(* Requests never disturb the layout of the cinfo: seen through the        *)
(* classes' variables Hierarchy is Classes, and what is shown of the words *)
(* handed out holds while subjects move about in the trees.  With classes  *)
(* that are settled before READY (~LateDefinitions), every copy of an      *)
(* object's data has its nodes in their own words and the sets that belong *)
(* to them, and no subject goes further than it was allowed to.            *)
(***************************************************************************)
EXTENDS Hierarchy, WellFoundedInduction, TLAPS

Structs == [def : ClassDefs, mask : [Parts -> SUBSET Int]]
Blocks  == [struct : Nat, part : Parts \cup {"none"}, block : Int]

CTypeOK ==
  /\ phase \in [Conns -> {"open", "init", "ready", "failed"}]
  /\ structs \in [Conns -> Seq(Structs)]
  /\ byName \in [Conns -> [ClassNames -> Nat]]
  /\ offset \in [Handlers -> [Conns -> Int]]
  /\ todo \in [Conns -> Seq(Handlers)]
  /\ blocks \in [Handlers -> [Conns -> Blocks]]

Known == \A c \in Conns, n \in ClassNames : byName[c][n] <= Len(structs[c])

(* The block of a placed handler is one of its class, and marked as taken. *)
Owns(c, h) ==
  LET b == blocks[h][c]
      s == structs[c][b.struct]
  IN  /\ b.struct \in 1..Len(structs[c])
      /\ b.part \in Parts
      /\ b.block \in 0..(Size(s, b.part) - 1)
      /\ Bits(b.block) \subseteq s.mask[b.part]
      /\ offset[h][c] = Start(s, b.part) + b.block

(* While the handlers are initialised nobody redefines their classes. *)
AtHome(c, h) == phase[c] = "init" => blocks[h][c].struct = byName[c][HandlerClass[h]]

Apart(c, g, h) ==
  /\ blocks[g][c].struct = blocks[h][c].struct
  /\ blocks[g][c].part = blocks[h][c].part => blocks[g][c].block # blocks[h][c].block

Placing == \A c \in Conns, h \in Handlers : Placed(c, h) => Owns(c, h) /\ AtHome(c, h)
Parting == \A c \in Conns, g, h \in Handlers :
             Placed(c, g) /\ Placed(c, h) /\ g # h /\ HandlerClass[g] = HandlerClass[h]
               => Apart(c, g, h)

CInv == CTypeOK /\ Known /\ Placing /\ Parting

-----------------------------------------------------------------------------
(* The attributes of every class lie at and have natural numbers. *)
LEMMA Attributes ==
  \A s \in Structs, p \in Parts : Size(s, p) \in Nat /\ Start(s, p) \in Nat
BY ClassesAssumption DEF Structs, Parts, ClassDef, Size, Start

(* Every block has a bit in the mask, also those beyond the width of int. *)
LEMMA BitsNonEmpty == \A i \in Int : Bits(i) # {}
<1>1. IntBits - 1 \in (IntBits - 1)..(PtrBits - 1)
  BY ClassesAssumption
<1>2. QED
  BY <1>1 DEF Bits

(* A handler that is not the next one is no nearer to or further from its  *)
(* turn when the next one is done.                                         *)
LEMMA TailKeeps ==
  ASSUME NEW s \in Seq(Handlers), s # <<>>, NEW h \in Handlers
  PROVE  /\ Tail(s) \in Seq(Handlers)
         /\ s[1] \in Handlers
         /\ h # s[1] /\ (\A i \in DOMAIN Tail(s) : Tail(s)[i] # h) => \A i \in DOMAIN s : s[i] # h
<1>1. Tail(s) \in Seq(Handlers) /\ s[1] \in Handlers
  OBVIOUS
<1>2. ASSUME h # s[1], \A i \in DOMAIN Tail(s) : Tail(s)[i] # h, NEW i \in DOMAIN s
      PROVE  s[i] # h
  <2>1. CASE i = 1
    BY <2>1, <1>2
  <2>2. CASE i # 1
    <3>1. i - 1 \in DOMAIN Tail(s) /\ Tail(s)[i - 1] = s[i]
      BY <2>2
    <3>2. QED
      BY <3>1, <1>2
  <2>3. QED
    BY <2>1, <2>2
<1>3. QED
  BY <1>1, <1>2

(* A new class leaves the blocks of the placed handlers as they are. *)
LEMMA DefineClassKeeps ==
  ASSUME CInv, NEW c \in Conns, NEW d \in ClassDefs, DefineClass(c, d)
  PROVE  CInv'
<1> USE DEF CInv
<1>1. ClassStruct(d) \in Structs
  BY DEF ClassStruct, Structs, Parts
<1>2. structs' \in [Conns -> Seq(Structs)]
  BY <1>1 DEF CTypeOK, DefineClass
<1>3. \A k \in Conns : /\ Len(structs[k]) <= Len(structs'[k])
                       /\ \A i \in 1..Len(structs[k]) : structs'[k][i] = structs[k][i]
  BY <1>1 DEF CTypeOK, DefineClass
<1>4. CTypeOK'
  <2>1. d.name \in ClassNames /\ Len(structs[c]) + 1 \in Nat
    BY ClassesAssumption DEF CTypeOK, ClassDef
  <2>2. byName' \in [Conns -> [ClassNames -> Nat]]
    BY <2>1 DEF CTypeOK, DefineClass
  <2>3. QED
    BY <1>2, <2>2 DEF CTypeOK, DefineClass
<1>5. Known'
  <2>1. ASSUME NEW k \in Conns, NEW n \in ClassNames PROVE byName'[k][n] <= Len(structs'[k])
    <3>1. CASE byName'[k][n] = byName[k][n]
      BY <3>1, <1>3, <1>2 DEF Known, CTypeOK
    <3>2. CASE byName'[k][n] # byName[k][n]
      <4>1. k = c /\ byName'[k][n] = Len(structs[c]) + 1
        BY <3>2 DEF CTypeOK, DefineClass
      <4>2. Len(structs'[c]) = Len(structs[c]) + 1
        BY <1>1 DEF CTypeOK, DefineClass
      <4>3. QED
        BY <4>1, <4>2 DEF CTypeOK
    <3>3. QED
      BY <3>1, <3>2
  <2>2. QED
    BY <2>1 DEF Known
<1>6. \A k \in Conns, h \in Handlers : Placed(k, h)' <=> Placed(k, h)
  BY DEF DefineClass, Placed, Initialised
<1>7. Placing'
  <2>1. ASSUME NEW k \in Conns, NEW h \in Handlers, Placed(k, h) PROVE Owns(k, h)'
    <3>1. Owns(k, h)
      BY <2>1 DEF Placing
    <3>2. structs'[k][blocks[h][k].struct] = structs[k][blocks[h][k].struct]
      BY <3>1, <1>3 DEF Owns
    <3>3. blocks[h][k].struct \in 1..Len(structs'[k])
      BY <3>1, <1>3, <1>2 DEF Owns, CTypeOK
    <3>4. QED
      BY <3>1, <3>2, <3>3 DEF Owns, DefineClass, Size, Start
  <2>2. ASSUME NEW k \in Conns, NEW h \in Handlers, Placed(k, h) PROVE AtHome(k, h)'
    <3>1. CASE k = c
      BY <3>1 DEF DefineClass, Listening, AtHome
    <3>2. CASE k # c
      BY <3>2, <2>2 DEF DefineClass, AtHome, Placing, CTypeOK
    <3>3. QED
      BY <3>1, <3>2
  <2>3. QED
    BY <2>1, <2>2, <1>6 DEF Placing
<1>8. Parting'
  BY <1>6 DEF Parting, Apart, DefineClass
<1>9. QED
  BY <1>4, <1>5, <1>7, <1>8

(* Defining an access type and moving on from a handler without a class    *)
(* hand out no block.                                                      *)
LEMMA StepsWithoutBlock ==
  ASSUME CInv, NEW c \in Conns,
         \/ \E e \in EventDefs : DefineEvent(c, e)
         \/ Ready(c) \/ InitDone(c) \/ NoClass(c) \/ InitFails(c)
  PROVE  CInv'
<1> USE DEF CInv
<1>1. CASE \E e \in EventDefs : DefineEvent(c, e)
  <2>1. PICK e \in EventDefs : DefineEvent(c, e)
    BY <1>1
  <2>2. UNCHANGED <<phase, structs, byName, offset, todo, blocks>>
    BY <2>1 DEF DefineEvent
  <2>3. CTypeOK' /\ Known'
    BY <2>2 DEF CTypeOK, Known
  <2>4. ASSUME NEW k \in Conns, NEW h \in Handlers
        PROVE  /\ Placed(k, h)' <=> Placed(k, h)
               /\ Owns(k, h) => Owns(k, h)'
               /\ AtHome(k, h) => AtHome(k, h)'
    BY <2>2 DEF Placed, Initialised, Owns, AtHome, Size, Start
  <2>5. Placing'
    BY <2>4 DEF Placing
  <2>6. Parting'
    BY <2>2, <2>4 DEF Parting, Apart
  <2>7. QED
    BY <2>3, <2>5, <2>6
<1>2. CASE Ready(c)
  <2>1. CTypeOK' /\ Known'
    BY <1>2, ClassesAssumption DEF Ready, CTypeOK, Known
  <2>2. ASSUME NEW k \in Conns, NEW h \in Handlers, Placed(k, h)'
        PROVE  k # c /\ Placed(k, h)
    <3>1. CASE k = c
      <4>1. todo'[c] = HandlerOrder
        BY <1>2 DEF Ready, CTypeOK
      <4>2. QED
        BY <4>1, <3>1, <2>2, ClassesAssumption DEF Placed, Initialised
    <3>2. CASE k # c
      BY <3>2, <2>2, <1>2 DEF Ready, CTypeOK, Placed, Initialised
    <3>3. QED
      BY <3>1, <3>2
  <2>3. Placing'
    BY <1>2, <2>2, ZenonT(60) DEF Ready, Placing, Owns, AtHome, CTypeOK, Size, Start
  <2>4. Parting'
    BY <1>2, <2>2 DEF Ready, Parting, Apart
  <2>5. QED
    BY <2>1, <2>3, <2>4
<1>3. CASE InitDone(c)
  <2>1. CTypeOK' /\ Known'
    BY <1>3 DEF InitDone, CTypeOK, Known
  <2>2. ASSUME NEW k \in Conns, NEW h \in Handlers, Placed(k, h)'
        PROVE  Placed(k, h) /\ (AtHome(k, h) => AtHome(k, h)')
    BY <1>3, <2>2 DEF InitDone, CTypeOK, Placed, Initialised, AtHome
  <2>3. Placing'
    BY <1>3, <2>2 DEF InitDone, Placing, Owns, Size, Start
  <2>4. Parting'
    BY <1>3, <2>2 DEF InitDone, Parting, Apart
  <2>5. QED
    BY <2>1, <2>3, <2>4
<1>4. CASE NoClass(c)
  <2> DEFINE n == NextHandler(c)
  <2>1. n \in Handlers /\ todo[c] \in Seq(Handlers) /\ todo[c] # <<>> /\ Tail(todo[c]) \in Seq(Handlers)
    BY <1>4, TailKeeps DEF NoClass, Initialising, CTypeOK, NextHandler
  <2>2. None \in Blocks
    BY DEF None, Blocks
  <2>3. CTypeOK' /\ Known'
    BY <1>4, <2>1, <2>2 DEF NoClass, CTypeOK, Known
  <2>4. ASSUME NEW k \in Conns, NEW h \in Handlers, Placed(k, h)'
        PROVE  Placed(k, h) /\ ~(k = c /\ h = n)
    <3>1. ~(k = c /\ h = n)
      BY <1>4, <2>1, <2>4 DEF NoClass, Placed, CTypeOK
    <3>2. offset'[h][k] = offset[h][k]
      BY <1>4, <3>1, <2>1 DEF NoClass, CTypeOK
    <3>3. Initialised(k, h)
      <4>1. CASE k = c
        <5>1. todo'[c] = Tail(todo[c])
          BY <1>4 DEF NoClass, CTypeOK
        <5>2. \A i \in DOMAIN todo[c] : todo[c][i] # h
          BY <5>1, <4>1, <3>1, <2>1, <2>4, TailKeeps DEF Placed, Initialised, NextHandler
        <5>3. QED
          BY <5>2, <4>1, <1>4, <2>4 DEF NoClass, Placed, Initialised
      <4>2. CASE k # c
        BY <4>2, <1>4, <2>4 DEF NoClass, Placed, Initialised, CTypeOK
      <4>3. QED
        BY <4>1, <4>2
    <3>4. QED
      BY <3>1, <3>2, <3>3, <2>4 DEF Placed
  <2>5. \A k \in Conns, h \in Handlers : ~(k = c /\ h = n) => blocks'[h][k] = blocks[h][k] /\ offset'[h][k] = offset[h][k]
    BY <1>4, <2>1 DEF NoClass, CTypeOK
  <2>6. Placing'
    <3>1. ASSUME NEW k \in Conns, NEW h \in Handlers, Placed(k, h)'
          PROVE  Owns(k, h)' /\ AtHome(k, h)'
      <4>1. Owns(k, h) /\ AtHome(k, h)
        BY <2>4, <3>1 DEF Placing
      <4>2. UNCHANGED <<phase, structs, byName, blocks[h][k], offset[h][k]>>
        BY <1>4, <2>4, <2>5, <3>1 DEF NoClass
      <4>3. QED
        BY <4>1, <4>2 DEF Owns, AtHome, Size, Start
    <3>2. QED
      BY <3>1 DEF Placing
  <2>7. Parting'
    BY <2>4, <2>5 DEF Parting, Apart
  <2>8. QED
    BY <2>3, <2>6, <2>7
<1>5. CASE InitFails(c)
  <2> DEFINE n == NextHandler(c)
  <2>1. n \in Handlers
    BY <1>5, TailKeeps DEF InitFails, Initialising, CTypeOK, NextHandler
  <2>2. None \in Blocks
    BY DEF None, Blocks
  <2>3. CTypeOK' /\ Known'
    BY <1>5, <2>1, <2>2 DEF InitFails, CTypeOK, Known
  <2>4. \A k \in Conns, h \in Handlers : k # c => blocks'[h][k] = blocks[h][k] /\ offset'[h][k] = offset[h][k]
    BY <1>5, <2>1 DEF InitFails, CTypeOK
  <2>5. ASSUME NEW k \in Conns, NEW h \in Handlers, Placed(k, h)'
        PROVE  k # c /\ Placed(k, h)
    <3>1. k # c
      BY <1>5, <2>5 DEF InitFails, CTypeOK, Placed, Initialised
    <3>2. QED
      BY <3>1, <2>4, <1>5, <2>5 DEF InitFails, CTypeOK, Placed, Initialised
  <2>6. Placing'
    <3>1. ASSUME NEW k \in Conns, NEW h \in Handlers, Placed(k, h)'
          PROVE  Owns(k, h)' /\ AtHome(k, h)'
      <4>1. Owns(k, h) /\ AtHome(k, h)
        BY <2>5, <3>1 DEF Placing
      <4>2. UNCHANGED <<structs, byName, phase[k], blocks[h][k], offset[h][k]>>
        BY <1>5, <2>4, <2>5, <3>1 DEF InitFails, CTypeOK
      <4>3. QED
        BY <4>1, <4>2 DEF Owns, AtHome, Size, Start
    <3>2. QED
      BY <3>1 DEF Placing
  <2>7. Parting'
    BY <2>4, <2>5 DEF Parting, Apart
  <2>8. QED
    BY <2>3, <2>6, <2>7
<1>6. QED
  BY <1>1, <1>2, <1>3, <1>4, <1>5

(* The next handler gets a block nobody of its class has.                  *)
LEMMA AllocateKeeps ==
  ASSUME CInv, NEW c \in Conns, Allocate(c)
  PROVE  CInv'
<1> USE DEF CInv
<1>a. /\ NextHandler(c) \in Handlers /\ todo[c] \in Seq(Handlers) /\ todo[c] # <<>>
      /\ Tail(todo[c]) \in Seq(Handlers) /\ phase[c] = "init"
  BY TailKeeps DEF Allocate, Initialising, CTypeOK, NextHandler
<1>b. ClassOf(c, NextHandler(c)) \in Nat \ {0}
  <2>1. ClassOf(c, NextHandler(c)) # 0
    BY DEF Allocate
  <2>2. QED
    BY <2>1, <1>a, ClassesAssumption DEF CTypeOK, ClassOf
<1>c. PartsFor(c, NextHandler(c)) \in Parts
  BY DEF PartsFor, Parts
<1>d. PICK n \in Handlers, cl \in Nat \ {0}, p \in Parts :
        n = NextHandler(c) /\ cl = ClassOf(c, n) /\ p = PartsFor(c, n)
  BY <1>a, <1>b, <1>c
<1> DEFINE s == structs[c][cl]
<1>1. /\ n \in Handlers /\ todo[c] \in Seq(Handlers) /\ todo[c] # <<>>
      /\ Tail(todo[c]) \in Seq(Handlers) /\ phase[c] = "init"
  BY <1>a
<1>2. cl \in 1..Len(structs[c]) /\ s \in Structs /\ p \in Parts
  <2>1. cl <= Len(structs[c]) /\ Len(structs[c]) \in Nat
    BY <1>d, ClassesAssumption DEF CTypeOK, Known, ClassOf
  <2>2. QED
    BY <2>1 DEF CTypeOK
<1>3. PICK i \in Free(s, p) :
        /\ structs' = [structs EXCEPT ![c][cl].mask[p] = @ \cup Bits(i)]
        /\ offset' = [offset EXCEPT ![n][c] = Start(s, p) + i]
        /\ blocks' = [blocks EXCEPT ![n][c] = [struct |-> cl, part |-> p, block |-> i]]
  BY <1>d DEF Allocate
<1>4. /\ i \in 0..(Size(s, p) - 1) /\ Bits(i) \cap s.mask[p] = {}
      /\ Size(s, p) \in Nat /\ Start(s, p) \in Nat
  BY <1>2, Attributes DEF Free
<1>5. Bits(i) \subseteq Int
  BY <1>4, ClassesAssumption DEF Bits
<1> DEFINE t == [s EXCEPT !.mask[p] = @ \cup Bits(i)]
<1>6. /\ structs' = [structs EXCEPT ![c] = [structs[c] EXCEPT ![cl] = t]]
      /\ t \in Structs /\ t.def = s.def
      /\ \A q \in Parts : t.mask[q] = IF q = p THEN s.mask[q] \cup Bits(i) ELSE s.mask[q]
  <2>1. t \in Structs /\ t.def = s.def
    BY <1>2, <1>5 DEF Structs
  <2>2. \A q \in Parts : t.mask[q] = IF q = p THEN s.mask[q] \cup Bits(i) ELSE s.mask[q]
    BY <1>2 DEF Structs
  <2>3. QED
    BY <2>1, <2>2, <1>3, Zenon
<1>7. CTypeOK'
  <2>1. structs' \in [Conns -> Seq(Structs)]
    BY <1>6, <1>2 DEF CTypeOK
  <2>2. offset' \in [Handlers -> [Conns -> Int]]
    BY <1>3, <1>4, <1>1 DEF CTypeOK
  <2>3. [struct |-> cl, part |-> p, block |-> i] \in Blocks
    BY <1>2, <1>4 DEF Blocks, CTypeOK
  <2>4. blocks' \in [Handlers -> [Conns -> Blocks]]
    BY <1>3, <1>1, <2>3 DEF CTypeOK
  <2>5. QED
    BY <2>1, <2>2, <2>4, <1>1 DEF CTypeOK, Allocate
<1>8. \A k \in Conns : /\ Len(structs'[k]) = Len(structs[k])
                       /\ \A j \in 1..Len(structs[k]) :
                            structs'[k][j] = IF k = c /\ j = cl THEN t ELSE structs[k][j]
  BY <1>6, <1>2 DEF CTypeOK
<1>9. Known'
  BY <1>8 DEF Allocate, Known
<1>10. \A k \in Conns, h \in Handlers :
         ~(k = c /\ h = n) => blocks'[h][k] = blocks[h][k] /\ offset'[h][k] = offset[h][k]
  BY <1>1, <1>3 DEF CTypeOK
<1>11. ASSUME NEW k \in Conns, NEW h \in Handlers, Placed(k, h)', ~(k = c /\ h = n)
       PROVE  Placed(k, h)
  <2>1. CASE k = c
    <3>1. todo'[c] = Tail(todo[c])
      BY DEF Allocate, CTypeOK
    <3>2. \A j \in DOMAIN todo[c] : todo[c][j] # h
      BY <3>1, <2>1, <1>1, <1>11, <1>d, TailKeeps DEF Placed, Initialised, NextHandler
    <3>3. QED
      BY <3>2, <2>1, <1>10, <1>11 DEF Allocate, Placed, Initialised
  <2>2. CASE k # c
    BY <2>2, <1>10, <1>11 DEF Allocate, Placed, Initialised, CTypeOK
  <2>3. QED
    BY <2>1, <2>2
<1>12. /\ blocks'[n][c] = [struct |-> cl, part |-> p, block |-> i]
       /\ offset'[n][c] = Start(s, p) + i
  BY <1>1, <1>3 DEF CTypeOK
<1>13. Placing'
  <2>1. ASSUME NEW k \in Conns, NEW h \in Handlers, Placed(k, h)', ~(k = c /\ h = n)
        PROVE  Owns(k, h)' /\ AtHome(k, h)'
    <3>1. Owns(k, h) /\ AtHome(k, h)
      BY <1>11, <2>1 DEF Placing
    <3>2. AtHome(k, h)'
      BY <3>1, <1>10, <2>1 DEF AtHome, Allocate
    <3> DEFINE b == blocks[h][k]
    <3>3. b.struct \in 1..Len(structs[k]) /\ b.part \in Parts
      BY <3>1 DEF Owns
    <3>4. /\ structs'[k][b.struct].def = structs[k][b.struct].def
          /\ structs[k][b.struct].mask[b.part] \subseteq structs'[k][b.struct].mask[b.part]
      <4> HIDE DEF t
      <4>1. CASE k = c /\ b.struct = cl
        <5>1. structs'[k][b.struct] = t /\ structs[k][b.struct] = s
          BY <4>1, <3>3, <1>8
        <5> HIDE DEF s
        <5>2. s.mask[b.part] \subseteq t.mask[b.part] /\ t.def = s.def
          BY <3>3, <1>6
        <5>3. QED
          BY <5>1, <5>2
      <4>2. CASE ~(k = c /\ b.struct = cl)
        <5>1. structs'[k][b.struct] = structs[k][b.struct]
          BY <4>2, <3>3, <1>8
        <5>2. QED
          BY <5>1
      <4>3. QED
        BY <4>1, <4>2
    <3>a. blocks'[h][k] = b /\ offset'[h][k] = offset[h][k]
      BY <1>10, <2>1
    <3>b. Len(structs'[k]) = Len(structs[k])
      BY <1>8
    <3>c. /\ Size(structs'[k][b.struct], b.part) = Size(structs[k][b.struct], b.part)
          /\ Start(structs'[k][b.struct], b.part) = Start(structs[k][b.struct], b.part)
      BY <3>4 DEF Size, Start
    <3>5. Owns(k, h)'
      <4> HIDE DEF s, t
      <4>1. QED
        BY <3>1, <3>3, <3>4, <3>a, <3>b, <3>c DEF Owns
    <3>6. QED
      BY <3>2, <3>5
  <2>2. Owns(c, n)' /\ AtHome(c, n)'
    <3>1. structs'[c][cl] = t
      BY <1>8, <1>2
    <3> HIDE DEF s, t
    <3>a. blocks'[n][c].struct = cl /\ cl = byName[c][HandlerClass[n]]
      BY <1>12, <1>d DEF ClassOf
    <3>b. byName' = byName
      BY DEF Allocate
    <3>2. AtHome(c, n)'
      BY <3>a, <3>b DEF AtHome
    <3>3. Size(t, p) = Size(s, p) /\ Start(t, p) = Start(s, p) /\ Bits(i) \subseteq t.mask[p]
      BY <1>6, <1>2 DEF Size, Start
    <3>4. Owns(c, n)'
      BY <1>12, <3>1, <3>3, <1>2, <1>4, <1>8 DEF Owns, Size, Start
    <3>5. QED
      BY <3>2, <3>4
  <2>3. QED
    BY <2>1, <2>2 DEF Placing
<1>14. ASSUME NEW g \in Handlers, g # n, Placed(c, g), HandlerClass[g] = HandlerClass[n]
       PROVE  /\ blocks[g][c].struct = cl
              /\ blocks[g][c].part = p => blocks[g][c].block # i
  <2>1. Owns(c, g) /\ blocks[g][c].struct = cl
    BY <1>14, <1>1, <1>d DEF Placing, AtHome, ClassOf
  <2>2. ASSUME blocks[g][c].part = p PROVE blocks[g][c].block # i
    <3>1. Bits(blocks[g][c].block) \subseteq s.mask[p]
      BY <2>1, <2>2 DEF Owns
    <3>2. Bits(i) # {}
      BY <1>4, BitsNonEmpty
    <3>3. QED
      BY <3>1, <3>2, <1>4
  <2>3. QED
    BY <2>1, <2>2
<1>15. Parting'
  <2>1. ASSUME NEW k \in Conns, NEW g \in Handlers, NEW h \in Handlers,
               Placed(k, g)', Placed(k, h)', g # h, HandlerClass[g] = HandlerClass[h]
        PROVE  Apart(k, g, h)'
    <3>1. CASE k = c /\ h = n
      BY <3>1, <2>1, <1>10, <1>11, <1>12, <1>14 DEF Apart
    <3>2. CASE k = c /\ g = n
      BY <3>2, <2>1, <1>10, <1>11, <1>12, <1>14 DEF Apart
    <3>3. CASE ~(k = c /\ h = n) /\ ~(k = c /\ g = n)
      BY <3>3, <2>1, <1>10, <1>11 DEF Apart, Parting
    <3>4. QED
      BY <3>1, <3>2, <3>3
  <2>2. QED
    BY <2>1 DEF Parting
<1>16. QED
  BY <1>7, <1>9, <1>13, <1>15

LEMMA InitEstablishes == CInit => CInv
<1> SUFFICES ASSUME CInit PROVE CInv
  OBVIOUS
<1>1. CTypeOK
  BY DEF CInit, CTypeOK, None, Blocks
<1>2. Known
  BY DEF CInit, Known
<1>3. \A c \in Conns, h \in Handlers : ~Placed(c, h)
  BY DEF CInit, Placed, Initialised
<1>4. QED
  BY <1>1, <1>2, <1>3 DEF CInv, Placing, Parting

LEMMA StepKeeps == CInv /\ [CNext]_cvars => CInv'
<1> SUFFICES ASSUME CInv, [CNext]_cvars PROVE CInv'
  OBVIOUS
<1>1. CASE CNext
  <2>1. PICK c \in Conns :
          \/ \E d \in ClassDefs : DefineClass(c, d)
          \/ \E e \in EventDefs : DefineEvent(c, e)
          \/ Ready(c) \/ NoClass(c) \/ Allocate(c) \/ InitFails(c) \/ InitDone(c)
    BY <1>1 DEF CNext
  <2>2. CASE \E d \in ClassDefs : DefineClass(c, d)
    BY <2>2, DefineClassKeeps
  <2>3. CASE Allocate(c)
    BY <2>3, AllocateKeeps
  <2>4. CASE \/ \E e \in EventDefs : DefineEvent(c, e)
             \/ Ready(c) \/ InitDone(c) \/ NoClass(c) \/ InitFails(c)
    BY <2>4, StepsWithoutBlock
  <2>5. QED
    BY <2>1, <2>2, <2>3, <2>4
<1>2. CASE UNCHANGED cvars
  <2>1. UNCHANGED <<phase, structs, byName, offset, todo, blocks>>
    BY <1>2 DEF cvars
  <2>2. CTypeOK' /\ Known'
    BY <2>1 DEF CInv, CTypeOK, Known
  <2>3. ASSUME NEW k \in Conns, NEW h \in Handlers
        PROVE  /\ Placed(k, h)' <=> Placed(k, h)
               /\ Owns(k, h) => Owns(k, h)'
               /\ AtHome(k, h) => AtHome(k, h)'
    BY <2>1 DEF Placed, Initialised, Owns, AtHome, Size, Start
  <2>4. Placing' /\ Parting'
    BY <2>1, <2>3 DEF CInv, Placing, Parting, Apart
  <2>5. QED
    BY <2>2, <2>4 DEF CInv
<1>3. QED
  BY <1>1, <1>2

(* Words of two ranges that do not overlap differ. *)
LEMMA RangesApart ==
  ASSUME NEW a \in Nat, NEW b \in Nat, NEW m \in Nat, NEW n \in Nat,
         NEW i \in 0..(m - 1), NEW j \in 0..(n - 1),
         m = 0 \/ n = 0 \/ a + m <= b \/ b + n <= a
  PROVE  a + i # b + j
OBVIOUS

(* Blocks of different attributes do not meet either. *)
LEMMA InvariantImpliesDisjoint == CInv /\ (\A c \in Conns : phase[c] = "ready" => todo[c] = <<>>) => CinfoDisjoint
<1> SUFFICES ASSUME CInv, \A c \in Conns : phase[c] = "ready" => todo[c] = <<>>,
                    NEW c \in Conns, NEW g \in Handlers, NEW h \in Handlers,
                    g # h, HandlerClass[g] = HandlerClass[h], phase[c] = "ready",
                    offset[g][c] >= 0, offset[h][c] >= 0
             PROVE  offset[g][c] # offset[h][c]
  BY DEF CinfoDisjoint
<1>1. Placed(c, g) /\ Placed(c, h)
  BY DEF Placed, Initialised
<1>2. Owns(c, g) /\ Owns(c, h) /\ Apart(c, g, h)
  BY <1>1 DEF CInv, Placing, Parting
<1> DEFINE k == blocks[g][c].struct
           s == structs[c][k]
           bg == blocks[g][c]
           bh == blocks[h][c]
<1>3. s \in Structs /\ bh.struct = k
  <2>1. k \in 1..Len(structs[c])
    BY <1>2 DEF Owns
  <2>2. structs[c] \in Seq(Structs)
    BY DEF CInv, CTypeOK
  <2>3. bh.struct = k
    BY <1>2 DEF Apart
  <2>4. QED
    BY <2>1, <2>2, <2>3
<1>4. /\ bg.part \in Parts /\ bh.part \in Parts
      /\ bg.block \in 0..(Size(s, bg.part) - 1) /\ bh.block \in 0..(Size(s, bh.part) - 1)
      /\ offset[g][c] = Start(s, bg.part) + bg.block
      /\ offset[h][c] = Start(s, bh.part) + bh.block
  BY <1>2, <1>3 DEF Owns
<1>5. /\ Size(s, bg.part) \in Nat /\ Size(s, bh.part) \in Nat
      /\ Start(s, bg.part) \in Nat /\ Start(s, bh.part) \in Nat
  BY <1>3, <1>4, Attributes
<1>6. CASE bg.part = bh.part
  BY <1>6, <1>2, <1>4, <1>5 DEF Apart
<1>7. CASE bg.part # bh.part
  <2>1. \/ Size(s, bg.part) = 0 \/ Size(s, bh.part) = 0
        \/ Start(s, bg.part) + Size(s, bg.part) <= Start(s, bh.part)
        \/ Start(s, bh.part) + Size(s, bh.part) <= Start(s, bg.part)
    BY <1>3, <1>4, <1>7, DisjointAttributes DEF Structs, Parts, Size, Start
  <2>2. Start(s, bg.part) + bg.block # Start(s, bh.part) + bh.block
    <3>1. PICK a \in Nat, b \in Nat, m \in Nat, n \in Nat, i \in Int, j \in Int :
            /\ a = Start(s, bg.part) /\ b = Start(s, bh.part)
            /\ m = Size(s, bg.part) /\ n = Size(s, bh.part)
            /\ i = bg.block /\ j = bh.block
      <4> HIDE DEF k, s, bg, bh
      <4>1. bg.block \in Int /\ bh.block \in Int
        BY <1>4, <1>5
      <4>2. QED
        BY <4>1, <1>5
    <3>2. /\ i \in 0..(m - 1) /\ j \in 0..(n - 1)
          /\ m = 0 \/ n = 0 \/ a + m <= b \/ b + n <= a
      <4> HIDE DEF k, s, bg, bh
      <4>1. QED
        BY <3>1, <2>1, <1>4
    <3>3. a + i # b + j
      BY <3>2, RangesApart
    <3>4. QED
      <4> HIDE DEF k, s, bg, bh
      <4>1. QED
        BY <3>1, <3>3
  <2>3. QED
    BY <2>2, <1>4
<1>8. QED
  BY <1>6, <1>7

(* A connection is ready when no handler is left to be initialised. *)
AllDone == \A c \in Conns : phase[c] = "ready" => todo[c] = <<>>

LEMMA AllDoneKept == CTypeOK /\ AllDone /\ [CNext]_cvars => AllDone'
<1> SUFFICES ASSUME CTypeOK, AllDone, [CNext]_cvars, NEW k \in Conns, phase'[k] = "ready"
             PROVE  todo'[k] = <<>>
  BY DEF AllDone
<1>1. CASE UNCHANGED cvars
  BY <1>1 DEF cvars, AllDone
<1>2. ASSUME NEW c \in Conns, InitDone(c) PROVE todo'[k] = <<>>
  BY <1>2 DEF InitDone, AllDone, CTypeOK
<1>3. ASSUME NEW c \in Conns,
             \/ Ready(c) \/ NoClass(c) \/ Allocate(c) \/ InitFails(c)
      PROVE  todo'[k] = <<>>
  <2>1. k # c
    BY <1>3 DEF Ready, NoClass, Allocate, InitFails, Initialising, CTypeOK
  <2>2. todo'[k] = todo[k] /\ phase'[k] = phase[k]
    BY <1>3, <2>1 DEF Ready, NoClass, Allocate, InitFails, CTypeOK
  <2>3. QED
    BY <2>2 DEF AllDone
<1>4. ASSUME NEW c \in Conns,
             (\E d \in ClassDefs : DefineClass(c, d)) \/ (\E e \in EventDefs : DefineEvent(c, e))
      PROVE  todo'[k] = <<>>
  BY <1>4 DEF DefineClass, DefineEvent, AllDone
<1>5. QED
  BY <1>1, <1>2, <1>3, <1>4 DEF CNext

(* Whatever classes the kernel defines and redefines, and however many     *)
(* trees compete for their words, two class handlers of a class never keep *)
(* their nodes in the same word of an object (class_alloc_cinfo()).         *)
THEOREM CinfoNeverShared == CSpec => []CinfoDisjoint
<1>1. CInit => CInv /\ AllDone
  BY InitEstablishes DEF CInit, AllDone
<1>2. CInv /\ AllDone /\ [CNext]_cvars => (CInv /\ AllDone)'
  BY StepKeeps, AllDoneKept DEF CInv
<1>3. CInv /\ AllDone => CinfoDisjoint
  BY InvariantImpliesDisjoint DEF AllDone
<1>4. QED
  BY <1>1, <1>2, <1>3, PTL DEF CSpec

-----------------------------------------------------------------------------
(* Hierarchy *)

(* What a worker does for a request.                                       *)
LEMMA WorkKeepsLayout == ASSUME NEW b \in Buffers, Work(b) PROVE UNCHANGED cvars
<1>1. CASE Begin(b) \/ DecideParks(b) \/ DecideMissing(b) \/ ToNotify(b) \/ Notify(b)
  BY <1>1 DEF Begin, DecideParks, DecideMissing, ToNotify, Notify, Set
<1>2. CASE DecideFound(b)
  BY <1>2 DEF DecideFound, Set
<1>3. CASE UserSays(b) \/ UserEnters(b)
  BY <1>3 DEF UserSays, UserEnters, Set
<1>4. CASE Answer(b)
  BY <1>4 DEF Answer
<1>5. QED
  BY <1>1, <1>2, <1>3, <1>4 DEF Work

LEMMA RequestKeepsLayout ==
  ASSUME NEW b \in Buffers, NEW c \in Conns, NEW ev \in EventNames,
         NEW s \in Objects, NEW o \in Objects \cup {NoObject}, Request(b, c, ev, s, o)
  PROVE  UNCHANGED cvars
BY DEF Request

LEMMA StepOfClasses == [Next]_vars => [CNext]_cvars
<1>1. Next => CNext \/ UNCHANGED cvars
  BY WorkKeepsLayout, RequestKeepsLayout DEF Next
<1>2. UNCHANGED vars => UNCHANGED cvars
  BY DEF vars
<1>3. QED
  BY <1>1, <1>2

(* A kernel that is asked and answered, however many requests there are at *)
(* a time, is to its cinfo words one that only defines classes: every step *)
(* is one of Classes or leaves its variables alone.                        *)
THEOREM LayoutImplemented == Spec => CSpec
<1>1. Init => CInit
  BY DEF Init
<1>2. QED
  BY <1>1, StepOfClasses, PTL DEF Spec, CSpec

(* Trees of one class never share a word of an object, also while requests *)
(* write nodes into the words (class_alloc_cinfo(), generic.c).             *)
THEOREM WordsNeverShared == Spec => []CinfoDisjoint
BY LayoutImplemented, CinfoNeverShared

-----------------------------------------------------------------------------
(* What a connection's classes and access types are, as far as requests    *)
(* rely on it: a class is found under its name, the subject's class of an   *)
(* access type is the one the kernel named, and every handler of a known    *)
(* class has its word once class_comm_init() is past it.                   *)
Named == \A c \in Conns, n \in ClassNames :
           byName[c][n] # 0 => structs[c][byName[c][n]].def.name = n

SubjectFound(c, ev) ==
  LET e == events[c][ev] IN
  /\ e.def \in EventDefs /\ e.def.name = ev
  /\ e.op0 \in 1..Len(structs[c]) /\ structs[c][e.op0].def.id = e.def.op0

SubjectsFound ==
  /\ DOMAIN events = Conns
  /\ \A c \in Conns : DOMAIN events[c] = EventNames
  /\ \A c \in Conns, ev \in EventNames : events[c][ev].op0 # 0 => SubjectFound(c, ev)

Served == \A c \in Conns, h \in Handlers :
            Initialised(c, h) /\ ClassOf(c, h) # 0 => offset[h][c] >= 0

LInv == CInv /\ AllDone /\ Named /\ SubjectsFound /\ Served

(* A set of naturals that is not empty has a least member.                 *)
LEMMA LeastMember ==
  ASSUME NEW S, S \subseteq Nat, S # {}
  PROVE  \E x \in S : \A y \in S : x <= y
<1>1. \E x \in S : \A y \in S : ~(<<y, x>> \in OpToRel(<, Nat))
  BY NatLessThanWellFounded, WFMin
<1>2. \A x, y \in Nat : y < x => <<y, x>> \in OpToRel(<, Nat)
  BY DEF OpToRel
<1>3. \A x, y \in Nat : ~(y < x) => x <= y
  OBVIOUS
<1>4. QED
  BY <1>1, <1>2, <1>3

(* hash_find() returns an entry that has the key.                          *)
LEMMA ClassFound ==
  ASSUME CTypeOK, NEW c \in Conns, NEW id, FindClass(c, id) # 0
  PROVE  FindClass(c, id) \in 1..Len(structs[c]) /\ structs[c][FindClass(c, id)].def.id = id
<1> DEFINE found == {i \in DOMAIN structs[c] : structs[c][i].def.id = id}
           n == Len(structs[c])
           left == {n - i : i \in found}
<1>1. n \in Nat /\ DOMAIN structs[c] = 1..n
  BY DEF CTypeOK
<1>2. found # {}
  BY DEF FindClass
<1>3. left \subseteq Nat /\ left # {}
  <2>1. \A i \in found : n - i \in Nat
    BY <1>1
  <2> HIDE DEF found, n
  <2>2. QED
    BY <1>2, <2>1
<1>4. \E x \in left : \A y \in left : x <= y
  BY <1>3, LeastMember
<1>5. \E i \in found : \A j \in found : j <= i
  <2>1. PICK i \in found : \A y \in left : n - i <= y
    BY <1>4
  <2>2. \A j \in found : n - i <= n - j
    BY <2>1
  <2>3. \A j \in found : j <= i
    BY <2>1, <2>2, <1>1
  <2>4. QED
    BY <2>1, <2>3
<1>6. FindClass(c, id) \in found
  BY <1>2, <1>5 DEF FindClass
<1>7. QED
  BY <1>1, <1>6

(* A class stays what the kernel said it is; only its mask changes.        *)
LEMMA DefsKept ==
  ASSUME CInv, [CNext]_cvars, NEW c \in Conns, NEW i \in 1..Len(structs[c])
  PROVE  i \in 1..Len(structs'[c]) /\ structs'[c][i].def = structs[c][i].def
<1> USE DEF CInv, CTypeOK
<1>1. ASSUME NEW k \in Conns, NEW d \in ClassDefs, DefineClass(k, d)
      PROVE  i \in 1..Len(structs'[c]) /\ structs'[c][i].def = structs[c][i].def
  <2>1. ClassStruct(d) \in Structs
    BY DEF ClassStruct, Structs, Parts
  <2>2. QED
    BY <1>1, <2>1 DEF DefineClass
<1>2. ASSUME NEW k \in Conns, Allocate(k)
      PROVE  i \in 1..Len(structs'[c]) /\ structs'[c][i].def = structs[c][i].def
  <2>0. PICK cl, p : cl = ClassOf(k, NextHandler(k)) /\ p = PartsFor(k, NextHandler(k))
    OBVIOUS
  <2>1. PICK j : structs' = [structs EXCEPT ![k][cl].mask[p] = @ \cup Bits(j)]
    BY <1>2, <2>0 DEF Allocate
  <2> DEFINE s == structs[k]
             t == [s EXCEPT ![cl].mask[p] = @ \cup Bits(j)]
  <2>2. structs' = [structs EXCEPT ![k] = t]
    BY <2>1
  <2>3. structs'[c] = IF c = k THEN t ELSE structs[c]
    BY <2>2
  <2>4. Len(t) = Len(s) /\ \A m \in 1..Len(s) : t[m].def = s[m].def
    <3>1. s \in Seq(Structs)
      OBVIOUS
    <3>2. DOMAIN t = DOMAIN s
      OBVIOUS
    <3>3. \A m \in DOMAIN s : t[m].def = s[m].def
      <4>1. \A m \in DOMAIN s : m # cl => t[m] = s[m]
        OBVIOUS
      <4>2. cl \in DOMAIN s => t[cl] = [s[cl] EXCEPT !.mask[p] = @ \cup Bits(j)]
        OBVIOUS
      <4>3. cl \in DOMAIN s => s[cl] \in Structs
        BY <3>1
      <4>4. \A y \in Structs : [y EXCEPT !.mask[p] = @ \cup Bits(j)].def = y.def
        BY DEF Structs
      <4>5. QED
        BY <4>1, <4>2, <4>3, <4>4
    <3>4. QED
      BY <3>1, <3>2, <3>3
  <2>5. QED
    BY <2>3, <2>4
<1>3. CASE UNCHANGED structs
  BY <1>3
<1>4. QED
  BY <1>1, <1>2, <1>3
     DEF CNext, cvars, DefineEvent, Ready, NoClass, InitFails, InitDone

LEMMA NamedKept == ASSUME LInv, [CNext]_cvars PROVE Named'
<1> USE DEF LInv
<1>1. ASSUME UNCHANGED byName PROVE Named'
  <2>1. ASSUME NEW c \in Conns, NEW n \in ClassNames, byName[c][n] # 0
        PROVE  structs'[c][byName[c][n]].def = structs[c][byName[c][n]].def
    <3>1. byName[c][n] \in 1..Len(structs[c])
      <4>1. byName[c][n] \in Nat /\ Len(structs[c]) \in Nat /\ byName[c][n] <= Len(structs[c])
        BY DEF CInv, CTypeOK, Known
      <4>2. QED
        BY <4>1, <2>1
    <3>2. QED
      BY <3>1, DefsKept
  <2>2. QED
    BY <1>1, <2>1 DEF Named
<1>2. ASSUME NEW k \in Conns, NEW d \in ClassDefs, DefineClass(k, d) PROVE Named'
  <2>1. ASSUME NEW c \in Conns, NEW n \in ClassNames, byName'[c][n] # 0
        PROVE  structs'[c][byName'[c][n]].def.name = n
    <3>1. CASE c = k /\ n = d.name
      <4>1. byName'[c][n] = Len(structs[c]) + 1
        BY <1>2, <3>1 DEF DefineClass, CInv, CTypeOK
      <4>2. ClassStruct(d) \in Structs
        BY DEF ClassStruct, Structs, Parts
      <4>3. structs'[c] = Append(structs[c], ClassStruct(d)) /\ structs[c] \in Seq(Structs)
        BY <1>2, <3>1 DEF DefineClass, CInv, CTypeOK
      <4>4. structs'[c][Len(structs[c]) + 1] = ClassStruct(d)
        BY <4>2, <4>3
      <4>5. QED
        BY <4>1, <4>4, <3>1 DEF ClassStruct
    <3>2. CASE ~(c = k /\ n = d.name)
      <4>1. byName'[c][n] = byName[c][n]
        BY <1>2, <3>2 DEF DefineClass, CInv, CTypeOK
      <4>2. byName[c][n] \in 1..Len(structs[c])
        <5>1. byName[c][n] \in Nat /\ Len(structs[c]) \in Nat /\ byName[c][n] <= Len(structs[c])
          BY DEF CInv, CTypeOK, Known
        <5>2. QED
          BY <5>1, <2>1, <4>1
      <4>3. QED
        BY <2>1, <4>1, <4>2, DefsKept DEF Named
    <3>3. QED
      BY <3>1, <3>2
  <2>2. QED
    BY <2>1 DEF Named
<1>3. QED
  BY <1>1, <1>2
     DEF CNext, cvars, DefineEvent, Ready, NoClass, Allocate, InitFails, InitDone

LEMMA SubjectsKept == ASSUME LInv, [CNext]_cvars PROVE SubjectsFound'
<1> USE DEF LInv
<1>1. ASSUME NEW c \in Conns, NEW ev \in EventNames, events'[c][ev] = events[c][ev],
             events[c][ev].op0 # 0
      PROVE  SubjectFound(c, ev)'
  <2>1. SubjectFound(c, ev)
    BY <1>1 DEF SubjectsFound
  <2>2. /\ events[c][ev].op0 \in 1..Len(structs'[c])
        /\ structs'[c][events[c][ev].op0].def = structs[c][events[c][ev].op0].def
    BY <2>1, DefsKept DEF SubjectFound
  <2>3. QED
    BY <2>1, <2>2, <1>1 DEF SubjectFound
<1>2. CASE UNCHANGED events
  <2>1. ASSUME NEW c \in Conns, NEW ev \in EventNames, events'[c][ev].op0 # 0
        PROVE  SubjectFound(c, ev)'
    BY <2>1, <1>1, <1>2
  <2>2. QED
    BY <2>1, <1>2 DEF SubjectsFound
<1>3. ASSUME NEW k \in Conns, NEW e \in EventDefs, DefineEvent(k, e) PROVE SubjectsFound'
  <2>0. e.name \in EventNames
    BY ClassesAssumption DEF EventDef
  <2>1. PICK x : /\ x.def = e /\ x.op0 = FindClass(k, e.op0)
                 /\ events' = [events EXCEPT ![k][e.name] = x]
    <3>1. \E op1, m : events' = [events EXCEPT ![k][e.name] =
                        [def |-> e, op0 |-> FindClass(k, e.op0), op1 |-> op1, monitored |-> m]]
      BY <1>3 DEF DefineEvent
    <3>2. QED
      BY <3>1
  <2>2. DOMAIN events' = Conns /\ \A c \in Conns : DOMAIN events'[c] = EventNames
    BY <2>1 DEF SubjectsFound
  <2>3. \A c \in Conns, ev \in EventNames :
          events'[c][ev] = IF c = k /\ ev = e.name THEN x ELSE events[c][ev]
    BY <2>1, <2>0 DEF SubjectsFound
  <2>4. ASSUME NEW c \in Conns, NEW ev \in EventNames, events'[c][ev].op0 # 0
        PROVE  SubjectFound(c, ev)'
    <3>1. CASE c = k /\ ev = e.name
      <4>1. events'[c][ev] = x
        BY <2>3, <3>1
      <4>2. structs' = structs
        BY <1>3 DEF DefineEvent
      <4>3. x.op0 \in 1..Len(structs[c]) /\ structs[c][x.op0].def.id = e.op0
        BY <2>1, <2>4, <4>1, <3>1, ClassFound DEF CInv
      <4>4. QED
        BY <4>1, <4>2, <4>3, <2>1, <3>1 DEF SubjectFound
    <3>2. CASE ~(c = k /\ ev = e.name)
      BY <3>2, <2>3, <2>4, <1>1
    <3>3. QED
      BY <3>1, <3>2
  <2>5. QED
    BY <2>2, <2>4 DEF SubjectsFound
<1>4. QED
  BY <1>2, <1>3
     DEF CNext, cvars, DefineClass, Ready, NoClass, Allocate, InitFails, InitDone

(* Nobody redefines classes while the handlers are being initialised.      *)
LEMMA ServedKept == ASSUME ~LateDefinitions, LInv, [CNext]_cvars PROVE Served'
<1> USE DEF LInv, CInv
<1>1. ASSUME NEW c \in Conns, NEW h \in Handlers, Initialised(c, h), ClassOf(c, h)' # 0,
             ClassOf(c, h)' = ClassOf(c, h), offset'[h][c] = offset[h][c]
      PROVE  offset'[h][c] >= 0
  BY <1>1 DEF Served
<1>2. ASSUME NEW k \in Conns,
             (\E d \in ClassDefs : DefineClass(k, d)) \/ (\E e \in EventDefs : DefineEvent(k, e))
      PROVE  Served'
  <2>1. ASSUME NEW c \in Conns, NEW h \in Handlers, Initialised(c, h)'
        PROVE  Initialised(c, h) /\ ClassOf(c, h)' = ClassOf(c, h) /\ offset'[h][c] = offset[h][c]
    BY <1>2, <2>1, ClassesAssumption
       DEF DefineClass, DefineEvent, Listening, Initialised, ClassOf, CTypeOK
  <2>2. QED
    BY <2>1, <1>1 DEF Served
<1>3. ASSUME NEW k \in Conns, Ready(k) \/ InitFails(k) PROVE Served'
  <2>1. ASSUME NEW c \in Conns, NEW h \in Handlers, Initialised(c, h)' PROVE c # k
    <3>1. CASE Ready(k)
      <4>1. todo'[k] = HandlerOrder
        BY <3>1 DEF Ready, CTypeOK
      <4>2. QED
        BY <4>1, <2>1, ClassesAssumption DEF Initialised
    <3>2. CASE InitFails(k)
      BY <3>2, <2>1 DEF InitFails, Initialised, CTypeOK
    <3>3. QED
      BY <1>3, <3>1, <3>2
  <2>2. ASSUME NEW c \in Conns, NEW h \in Handlers, c # k, Initialised(c, h)'
        PROVE  Initialised(c, h) /\ ClassOf(c, h)' = ClassOf(c, h) /\ offset'[h][c] = offset[h][c]
    <3>1. CASE Ready(k)
      BY <3>1, <2>2 DEF Ready, Initialised, ClassOf, CTypeOK
    <3>2. CASE InitFails(k)
      <4>1. UNCHANGED <<todo, byName>> /\ phase'[c] = phase[c]
        BY <3>2, <2>2 DEF InitFails, CTypeOK
      <4>2. \E x : offset' = [offset EXCEPT ![NextHandler(k)][k] = x]
        BY <3>2 DEF InitFails
      <4>3. offset'[h][c] = offset[h][c]
        BY <4>2, <2>2 DEF CTypeOK
      <4>4. QED
        BY <4>1, <4>3, <2>2 DEF Initialised, ClassOf
    <3>3. QED
      BY <1>3, <3>1, <3>2
  <2>3. QED
    BY <2>1, <2>2, <1>1 DEF Served
<1>4. ASSUME NEW k \in Conns, InitDone(k) PROVE Served'
  <2>1. ASSUME NEW c \in Conns, NEW h \in Handlers, Initialised(c, h)'
        PROVE  Initialised(c, h) /\ ClassOf(c, h)' = ClassOf(c, h) /\ offset'[h][c] = offset[h][c]
    BY <1>4, <2>1 DEF InitDone, Initialised, ClassOf, CTypeOK
  <2>2. QED
    BY <2>1, <1>1 DEF Served
<1>5. ASSUME NEW k \in Conns, NoClass(k) \/ Allocate(k) PROVE Served'
  <2> DEFINE n == NextHandler(k)
  <2>1. n \in Handlers /\ todo[k] \in Seq(Handlers) /\ todo[k] # <<>> /\ UNCHANGED <<phase, byName>>
    BY <1>5, TailKeeps, SMTT(60) DEF NoClass, Allocate, Initialising, NextHandler, CTypeOK
  <2>2. todo' = [todo EXCEPT ![k] = Tail(@)]
    BY <1>5 DEF NoClass, Allocate
  <2>3. \E x : offset' = [offset EXCEPT ![n][k] = x]
    BY <1>5 DEF NoClass, Allocate
  <2>4. ASSUME NEW c \in Conns, NEW h \in Handlers, Initialised(c, h)', ~(c = k /\ h = n)
        PROVE  Initialised(c, h) /\ ClassOf(c, h)' = ClassOf(c, h) /\ offset'[h][c] = offset[h][c]
    <3>1. offset'[h][c] = offset[h][c]
      BY <2>3, <2>4 DEF CTypeOK
    <3>2. Initialised(c, h)
      <4>1. CASE c = k
        <5>1. todo'[k] = Tail(todo[k])
          BY <2>2 DEF CTypeOK
        <5>2. \A i \in DOMAIN todo[k] : todo[k][i] # h
          BY <5>1, <4>1, <2>1, <2>4, TailKeeps DEF Initialised, NextHandler
        <5>3. QED
          BY <5>2, <4>1, <2>1, <2>4 DEF Initialised
      <4>2. CASE c # k
        BY <4>2, <2>1, <2>2, <2>4 DEF Initialised, CTypeOK
      <4>3. QED
        BY <4>1, <4>2
    <3>3. QED
      BY <3>1, <3>2, <2>1 DEF ClassOf
  <2>5. ClassOf(k, n) # 0 => offset'[n][k] >= 0
    <3>1. CASE NoClass(k)
      BY <3>1 DEF NoClass
    <3>2. CASE Allocate(k)
      <4>1. PICK cl, p : cl = ClassOf(k, n) /\ p = PartsFor(k, n)
        OBVIOUS
      <4>2. PICK i \in Free(structs[k][cl], p) :
              offset' = [offset EXCEPT ![n][k] = Start(structs[k][cl], p) + i]
        BY <3>2, <4>1 DEF Allocate
      <4>3. cl \in 1..Len(structs[k]) /\ structs[k][cl] \in Structs /\ p \in Parts
        <5>1. cl \in Nat /\ cl # 0 /\ cl <= Len(structs[k]) /\ Len(structs[k]) \in Nat
          <6>1. cl # 0
            BY <3>2, <4>1 DEF Allocate
          <6>2. HandlerClass[n] \in ClassNames /\ cl = byName[k][HandlerClass[n]]
            BY <2>1, <4>1, ClassesAssumption DEF ClassOf
          <6> HIDE DEF n
          <6>3. cl \in Nat /\ cl <= Len(structs[k]) /\ Len(structs[k]) \in Nat
            BY <6>2 DEF CTypeOK, Known
          <6>4. QED
            BY <6>1, <6>3
        <5>2. cl \in 1..Len(structs[k])
          BY <5>1
        <5>3. p \in Parts
          BY <4>1 DEF PartsFor, Parts
        <5>4. QED
          BY <5>2, <5>3 DEF CTypeOK
      <4>4. Start(structs[k][cl], p) \in Nat /\ i \in Nat
        BY <4>2, <4>3, Attributes DEF Free
      <4>5. offset'[n][k] = Start(structs[k][cl], p) + i
        BY <4>2, <2>1 DEF CTypeOK
      <4>6. QED
        BY <4>4, <4>5
    <3>3. QED
      BY <1>5, <3>1, <3>2
  <2>6. QED
    BY <2>1, <2>4, <2>5, <1>1 DEF Served, ClassOf
<1>6. CASE UNCHANGED cvars
  BY <1>6 DEF cvars, Served, Initialised, ClassOf
<1>7. QED
  BY <1>2, <1>3, <1>4, <1>5, <1>6 DEF CNext

LEMMA LayoutInit == CInit => LInv
<1> SUFFICES ASSUME CInit PROVE LInv
  OBVIOUS
<1>1. CInv /\ AllDone
  BY InitEstablishes DEF CInit, AllDone
<1>2. Named
  BY DEF CInit, Named
<1>3. SubjectsFound
  BY DEF CInit, SubjectsFound, Undefined
<1>4. Served
  BY DEF CInit, Served, Initialised
<1>5. QED
  BY <1>1, <1>2, <1>3, <1>4 DEF LInv

LEMMA LayoutKept == ~LateDefinitions /\ LInv /\ [CNext]_cvars => LInv'
<1> SUFFICES ASSUME ~LateDefinitions, LInv, [CNext]_cvars PROVE LInv'
  OBVIOUS
<1>1. CInv' /\ AllDone'
  BY StepKeeps, AllDoneKept DEF LInv, CInv
<1>2. QED
  BY <1>1, NamedKept, SubjectsKept, ServedKept DEF LInv

(* Once the connection is ready nothing changes of it.                     *)
LEMMA ReadySettles ==
  ASSUME ~LateDefinitions, LInv, [CNext]_cvars, NEW c \in Conns, phase[c] = "ready"
  PROVE  /\ phase'[c] = "ready" /\ byName'[c] = byName[c] /\ events'[c] = events[c]
         /\ \A h \in Handlers : offset'[h][c] = offset[h][c]
<1> USE DEF LInv, CInv, CTypeOK
<1>1. ASSUME NEW k \in Conns, NEW d \in ClassDefs, DefineClass(k, d) PROVE k # c
  BY <1>1 DEF DefineClass, Listening
<1>2. ASSUME NEW k \in Conns, NEW e \in EventDefs, DefineEvent(k, e) PROVE k # c
  BY <1>2 DEF DefineEvent, Listening
<1>3. ASSUME NEW k \in Conns, Ready(k) \/ NoClass(k) \/ Allocate(k) \/ InitFails(k) \/ InitDone(k)
      PROVE  k # c
  BY <1>3 DEF Ready, NoClass, Allocate, InitFails, InitDone, Initialising
<1>4. ASSUME NEW k \in Conns, NEW d \in ClassDefs, DefineClass(k, d)
      PROVE  phase'[c] = "ready" /\ byName'[c] = byName[c] /\ UNCHANGED <<events, offset>>
  BY <1>4, <1>1 DEF DefineClass
<1>5. ASSUME NEW k \in Conns, NEW e \in EventDefs, DefineEvent(k, e)
      PROVE  phase'[c] = "ready" /\ events'[c] = events[c] /\ UNCHANGED <<byName, offset>>
  BY <1>5, <1>2 DEF DefineEvent, SubjectsFound
<1>6. ASSUME NEW k \in Conns, Ready(k) \/ InitDone(k)
      PROVE  phase'[c] = "ready" /\ UNCHANGED <<byName, events, offset>>
  BY <1>6, <1>3 DEF Ready, InitDone
<1>7. ASSUME NEW k \in Conns, NoClass(k) \/ Allocate(k) \/ InitFails(k)
      PROVE  /\ phase'[c] = "ready" /\ UNCHANGED <<byName, events>>
             /\ \A h \in Handlers : offset'[h][c] = offset[h][c]
  <2>1. \E x : offset' = [offset EXCEPT ![NextHandler(k)][k] = x]
    BY <1>7 DEF NoClass, Allocate, InitFails
  <2>2. phase'[c] = "ready" /\ UNCHANGED <<byName, events>>
    BY <1>7, <1>3 DEF NoClass, Allocate, InitFails
  <2>3. QED
    BY <2>1, <2>2, <1>7, <1>3
<1>8. CASE UNCHANGED cvars
  BY <1>8 DEF cvars
<1>9. QED
  BY <1>4, <1>5, <1>6, <1>7, <1>8 DEF CNext

-----------------------------------------------------------------------------
(* An object's data: its cinfo and the two sets computed from it.          *)
Spaces == UNION {IF VsAttr[k][a] = NoAttr THEN {} ELSE VsAttr[k][a] :
                   k \in ClassNames, a \in AccessTypes}
Watched == UNION {EventBits[k][p] : k \in ClassNames, p \in Parts}
Data == [cinfo : [Words -> Nodes \cup {NoNode}],
         vs : [AccessTypes -> SUBSET Spaces], act : [Parts -> SUBSET Watched]]

(* Objects the kernel may ask about. *)
Live == {o \in Objects : phase[ObjConn[o]] = "ready" /\ Struct(o) # 0}

InPlace(o, data) ==
  \A w \in Words : data.cinfo[w] # NoNode =>
    \E h \in HandlersOf(o) : Slot(o, h) = w /\ Owner[data.cinfo[w]] = h

SpacesMatch(o, data) ==
  \A a \in AccessTypes : VsAttr[ObjClass[o]][a] # NoAttr =>
    data.vs[a] = SpacesOf(o, data, a) \cap VsAttr[ObjClass[o]][a]

EventsMatch(o, data) ==
  \A p \in Parts : data.act[p] = EventsOf(o, data, p) \cap EventBits[ObjClass[o]][p]

(* The data an object may have: nodes in the words of their handlers, and  *)
(* the sets that belong to these nodes.                                    *)
Proper == [o \in Objects |->
             {d \in Data : InPlace(o, d) /\ SpacesMatch(o, d) /\ EventsMatch(o, d)}]

(* A live object has a word for every handler of its class, and no two     *)
(* handlers have the same.                                                 *)
LEMMA HasWord ==
  ASSUME LInv, NEW o \in Live, NEW h \in HandlersOf(o)
  PROVE  Slot(o, h) \in Words
<1> DEFINE c == ObjConn[o]
           b == blocks[h][c]
           s == structs[c][b.struct]
<1>1. c \in Conns /\ h \in Handlers /\ HandlerClass[h] = ObjClass[o] /\ phase[c] = "ready"
  BY HierarchyAssumption DEF Live, HandlersOf
<1>2. ClassOf(c, h) # 0 /\ Initialised(c, h)
  <2>1. todo[c] = <<>>
    BY <1>1 DEF LInv, AllDone
  <2>2. Initialised(c, h)
    BY <1>1, <2>1 DEF Initialised
  <2>3. QED
    BY <1>1, <2>2 DEF Live, Struct, ClassOf
<1>3. Placed(c, h)
  BY <1>1, <1>2 DEF LInv, Served, Placed
<1>4. Owns(c, h)
  BY <1>1, <1>3 DEF LInv, CInv, Placing
<1>5. /\ s \in Structs /\ b.part \in Parts
      /\ b.block \in 0..(Size(s, b.part) - 1) /\ offset[h][c] = Start(s, b.part) + b.block
  <2>1. b.struct \in 1..Len(structs[c])
    BY <1>4 DEF Owns
  <2>2. s \in Structs
    BY <1>1, <2>1 DEF LInv, CInv, CTypeOK
  <2>3. QED
    BY <1>4, <2>2 DEF Owns
<1> HIDE DEF b, s
<1>6. PICK d \in ClassDefs : d = s.def
  BY <1>5 DEF Structs
<1>7. /\ d.o_off \in Nat /\ d.o_size \in Nat /\ d.s_off \in Nat /\ d.s_size \in Nat
  BY ClassesAssumption DEF ClassDef
<1>8. Start(s, b.part)..(Start(s, b.part) + Size(s, b.part) - 1) \subseteq Words
  BY <1>5, <1>6, HierarchyAssumption DEF Start, Size, Parts
<1>9. Start(s, b.part) \in Nat /\ Size(s, b.part) \in Nat
  BY <1>5, Attributes
<1>10. offset[h][c] \in Start(s, b.part)..(Start(s, b.part) + Size(s, b.part) - 1)
  <2>1. PICK x \in Nat, z \in Nat, i \in Int :
          x = Start(s, b.part) /\ z = Size(s, b.part) /\ i = b.block
    BY <1>5, <1>9
  <2>2. i \in 0..(z - 1)
    BY <1>5, <2>1
  <2>3. x + i \in x..(x + z - 1)
    BY <2>2
  <2>4. QED
    BY <2>1, <2>3, <1>5
<1>11. QED
  BY <1>8, <1>10 DEF Slot

LEMMA OwnWord ==
  ASSUME LInv, NEW o \in Live, NEW g \in HandlersOf(o), NEW h \in HandlersOf(o),
         Slot(o, g) = Slot(o, h)
  PROVE  g = h
<1> DEFINE c == ObjConn[o]
<1>1. /\ c \in Conns /\ g \in Handlers /\ h \in Handlers /\ phase[c] = "ready"
      /\ HandlerClass[g] = HandlerClass[h]
  BY HierarchyAssumption DEF Live, HandlersOf
<1>2. CinfoDisjoint
  BY InvariantImpliesDisjoint DEF LInv, AllDone
<1>3. ASSUME NEW k \in HandlersOf(o) PROVE offset[k][c] >= 0
  <2>1. k \in Handlers /\ HandlerClass[k] = ObjClass[o]
    BY DEF HandlersOf
  <2>2. Initialised(c, k) /\ ClassOf(c, k) # 0
    BY <1>1, <2>1 DEF LInv, AllDone, Initialised, ClassOf, Live, Struct
  <2>3. QED
    BY <1>1, <2>1, <2>2 DEF LInv, Served
<1>4. QED
  BY <1>1, <1>2, <1>3 DEF CinfoDisjoint, Slot

(* The sets depend on the cinfo alone.                                     *)
LEMMA CinfoDecides ==
  ASSUME NEW o, NEW d, NEW e, d.cinfo = e.cinfo
  PROVE  /\ \A a : SpacesOf(o, d, a) = SpacesOf(o, e, a)
         /\ \A p : EventsOf(o, d, p) = EventsOf(o, e, p)
<1>1. \A h : Tied(o, d, h) = Tied(o, e, h)
  BY DEF Tied, Node
<1>2. TiedNodes(o, d) = TiedNodes(o, e)
  BY <1>1 DEF TiedNodes
<1>3. \A h : Inherits(o, d, h) <=> Inherits(o, e, h)
  BY <1>1 DEF Inherits
<1>4. QED
  BY <1>2, <1>3 DEF SpacesOf, EventsOf

LEMMA RefreshedProper ==
  ASSUME NEW o \in Objects, NEW d, d.cinfo \in [Words -> Nodes \cup {NoNode}], InPlace(o, d)
  PROVE  SetHandler(o, d) \in Proper[o]
<1> DEFINE e == SetHandler(o, d)
<1>1. /\ e.cinfo = d.cinfo
      /\ e.vs = [a \in AccessTypes |->
             IF VsAttr[ObjClass[o]][a] = NoAttr THEN {}
             ELSE SpacesOf(o, d, a) \cap VsAttr[ObjClass[o]][a]]
      /\ e.act = [p \in Parts |-> EventsOf(o, d, p) \cap EventBits[ObjClass[o]][p]]
      /\ e = [cinfo |-> e.cinfo, vs |-> e.vs, act |-> e.act]
  BY DEF SetHandler
<1> HIDE DEF e
<1>2. ObjClass[o] \in ClassNames
  BY HierarchyAssumption
<1>3. e.vs \in [AccessTypes -> SUBSET Spaces]
  BY <1>1, <1>2 DEF Spaces
<1>4. e.act \in [Parts -> SUBSET Watched]
  BY <1>1, <1>2 DEF Watched
<1>5. e \in Data
  BY <1>1, <1>3, <1>4 DEF Data
<1>6. InPlace(o, e)
  BY <1>1 DEF InPlace
<1>7. SpacesMatch(o, e) /\ EventsMatch(o, e)
  BY <1>1, CinfoDecides DEF SpacesMatch, EventsMatch
<1>8. QED
  BY <1>5, <1>6, <1>7 DEF Proper, e

(* A handler's own node goes into the handler's own word.                  *)
LEMMA PutProper ==
  ASSUME LInv, NEW o \in Live, NEW d \in Proper[o], NEW h \in HandlersOf(o),
         NEW n \in Nodes \cup {NoNode}, n # NoNode => Owner[n] = h
  PROVE  /\ SetHandler(o, Put(o, d, h, n)) \in Proper[o]
         /\ \A k \in HandlersOf(o) :
              Node(o, SetHandler(o, Put(o, d, h, n)), k) = IF k = h THEN n ELSE Node(o, d, k)
<1> DEFINE e == Put(o, d, h, n)
<1>1. o \in Objects /\ d \in Data /\ InPlace(o, d)
  BY DEF Live, Proper
<1>2. d.cinfo \in [Words -> Nodes \cup {NoNode}] /\ Slot(o, h) \in Words
  BY <1>1, HasWord DEF Data
<1>3. /\ e.cinfo \in [Words -> Nodes \cup {NoNode}]
      /\ \A w \in Words : e.cinfo[w] = IF w = Slot(o, h) THEN n ELSE d.cinfo[w]
  BY <1>2 DEF Put
<1> HIDE DEF e
<1>4. InPlace(o, e)
  BY <1>1, <1>3 DEF InPlace
<1>5. SetHandler(o, e) \in Proper[o] /\ SetHandler(o, e).cinfo = e.cinfo
  BY <1>1, <1>3, <1>4, RefreshedProper DEF SetHandler
<1>6. \A k \in HandlersOf(o) : e.cinfo[Slot(o, k)] = IF k = h THEN n ELSE d.cinfo[Slot(o, k)]
  BY <1>3, HasWord, OwnWord
<1>7. QED
  BY <1>5, <1>6 DEF Node, e

LEMMA NodeInTree ==
  ASSUME LInv, NEW o \in Live, NEW d \in Proper[o], NEW h \in HandlersOf(o)
  PROVE  /\ Node(o, d, h) \in Nodes \cup {NoNode}
         /\ Node(o, d, h) # NoNode => Owner[Node(o, d, h)] = h
<1>1. d \in Data /\ InPlace(o, d) /\ Slot(o, h) \in Words
  BY HasWord DEF Live, Proper
<1>2. Node(o, d, h) \in Nodes \cup {NoNode}
  BY <1>1 DEF Data, Node
<1>3. ASSUME Node(o, d, h) # NoNode PROVE Owner[Node(o, d, h)] = h
  <2>1. PICK g \in HandlersOf(o) : Slot(o, g) = Slot(o, h) /\ Owner[Node(o, d, h)] = g
    BY <1>1, <1>3 DEF InPlace, Node
  <2>2. QED
    BY <2>1, OwnWord
<1>4. QED
  BY <1>2, <1>3

(* What an object may have does not depend on what else the kernel says.   *)
LEMMA ProperKept ==
  ASSUME NEW o \in Objects, byName'[ObjConn[o]] = byName[ObjConn[o]],
         events'[ObjConn[o]] = events[ObjConn[o]],
         \A h \in Handlers : offset'[h][ObjConn[o]] = offset[h][ObjConn[o]]
  PROVE  Proper'[o] = Proper[o]
<1>1. \A h \in HandlersOf(o) : Slot(o, h)' = Slot(o, h)
  BY DEF HandlersOf, Slot
<1>2. Struct(o)' = Struct(o) /\ \A h : Event(ObjConn[o], h)' = Event(ObjConn[o], h)
  BY DEF Struct, Event
<1>3. ASSUME NEW d PROVE InPlace(o, d)' <=> InPlace(o, d)
  BY <1>1 DEF InPlace
<1>4. ASSUME NEW d, NEW h \in HandlersOf(o) PROVE Tied(o, d, h)' = Tied(o, d, h)
  BY <1>1 DEF Tied, Node
<1>5. ASSUME NEW d PROVE TiedNodes(o, d)' = TiedNodes(o, d)
  BY <1>4 DEF TiedNodes
<1>6. ASSUME NEW d, NEW a PROVE SpacesOf(o, d, a)' = SpacesOf(o, d, a)
  BY <1>5 DEF SpacesOf
<1>7. ASSUME NEW d, NEW h \in HandlersOf(o) PROVE Inherits(o, d, h)' <=> Inherits(o, d, h)
  BY <1>2, <1>4 DEF Inherits
<1>8. \A h, p : Mask(o, h, p)' = Mask(o, h, p)
  BY <1>2 DEF Mask
<1>9. ASSUME NEW d, NEW p PROVE EventsOf(o, d, p)' = EventsOf(o, d, p)
  BY <1>5, <1>7, <1>8 DEF EventsOf
<1>10. ASSUME NEW d
       PROVE  /\ SpacesMatch(o, d)' <=> SpacesMatch(o, d)
              /\ EventsMatch(o, d)' <=> EventsMatch(o, d)
  BY <1>6, <1>9 DEF SpacesMatch, EventsMatch
<1>11. QED
  BY <1>3, <1>10 DEF Proper

-----------------------------------------------------------------------------
(* What is read of a request: every copy of data is proper, the trees of    *)
(* its access type are trees of its subject's class, and the node a hook    *)
(* found is one of its own tree.                                            *)
Requested ==
  [event : EventNames, subject : Objects, object : Objects \cup {NoObject},
   start : Data, s : Data, o : Data, list : Lists, pos : Nat, result : Results,
   allowed : BOOLEAN, var : [Handlers -> Nodes \cup {NoNode}], enters : Nat]

Sound ==
  {r \in Requested :
     /\ r.subject \in Live /\ r.s \in Proper[r.subject]
     /\ r.object # NoObject =>
          /\ r.object \in Live /\ ObjConn[r.object] = ObjConn[r.subject]
          /\ r.o \in Proper[r.object]
     /\ \A h \in Handlers : HandlerEvent[h] = r.event => h \in HandlersOf(r.subject)
     /\ \A h \in Handlers : r.var[h] # NoNode => Owner[r.var[h]] = h}

KernelSound == \A o \in Objects : kernel[o] = Fresh \/ (o \in Live /\ kernel[o] \in Proper[o])

HInv ==
  /\ DOMAIN kernel = Objects /\ KernelSound
  /\ DOMAIN bufs = Buffers /\ \A b \in Buffers : Busy(b) => bufs[b] \in Sound

(* Where the way of a request's subject starts in the tree of h, and where  *)
(* it may get from there.                                                   *)
StartOf(r, h) ==
  LET clone == IF /\ "clone" \in Flags[h] /\ r.object # NoObject
                  /\ Struct(r.object) = Struct(r.subject)
               THEN Node(r.object, r.o, h) ELSE NoNode
  IN  IF clone = NoNode THEN Root[h] ELSE clone

Begins(r, h) ==
  IF Node(r.subject, r.start, h) # NoNode THEN {Node(r.subject, r.start, h)}
  ELSE {NoNode, Root[h], StartOf(r, h)}
Below(r, h) == UNION {Children[n] : n \in Begins(r, h) \ {NoNode}}

Met(r, h) == HandlerEvent[h] = r.event /\
  \/ r.list = "NOTIFY_ALLOW"
  \/ r.list = "VS_ALLOW" /\ \E i \in DOMAIN HandlerOrder : i < r.pos /\ HandlerOrder[i] = h

(* A subject is at its beginning until it is moved, what a hook found is in *)
(* reach of the beginning, and only an allowed request gets to the move.    *)
Stepping(r, h) ==
  /\ \/ Node(r.subject, r.s, h) \in Begins(r, h)
     \/ r.list = "NOTIFY_ALLOW" /\ HandlerEvent[h] = r.event /\ Node(r.subject, r.s, h) \in Below(r, h)
  /\ Met(r, h) => r.var[h] \in (Begins(r, h) \ {NoNode}) \cup Below(r, h)

Tracked == {r \in Sound : /\ r.list \in {"VS_ALLOW"} \cup NotifyLists
                          /\ r.list = "NOTIFY_ALLOW" => r.allowed
                          /\ r.enters = 0 => \A h \in HandlersOf(r.subject) : Stepping(r, h)}

SInv == \A b \in Buffers : Busy(b) => bufs[b] \in Tracked


LEMMA FreshProper == ASSUME LInv, NEW o \in Live PROVE Fresh \in Proper[o]
<1>1. Fresh \in Data /\ o \in Objects
  BY DEF Fresh, Data, Live
<1>2. \A h \in HandlersOf(o) : Tied(o, Fresh, h) = {}
  BY HasWord DEF Tied, Node, Fresh
<1>3. TiedNodes(o, Fresh) = {} /\ \A h \in HandlersOf(o) : ~Inherits(o, Fresh, h)
  BY <1>2 DEF TiedNodes, Inherits
<1>4. \A a : SpacesOf(o, Fresh, a) = {}
  BY <1>3 DEF SpacesOf
<1>5. \A p : EventsOf(o, Fresh, p) = {}
  BY <1>3 DEF EventsOf
<1>6. InPlace(o, Fresh)
  BY DEF InPlace, Fresh
<1>7. SpacesMatch(o, Fresh) /\ EventsMatch(o, Fresh)
  BY <1>4, <1>5 DEF SpacesMatch, EventsMatch, Fresh
<1>8. QED
  BY <1>1, <1>6, <1>7 DEF Proper

LEMMA SoundSame == ASSUME UNCHANGED cvars
                   PROVE  Live' = Live /\ Sound' = Sound /\ \A o \in Objects : Proper'[o] = Proper[o]
<1>1. Live' = Live
  BY DEF cvars, Live, Struct
<1>2. ASSUME NEW o \in Objects PROVE Proper'[o] = Proper[o]
  BY ProperKept DEF cvars
<1>3. Sound' = Sound
  <2>1. \A o \in Live : o \in Objects
    BY DEF Live
  <2>2. QED
    BY <1>1, <1>2, <2>1 DEF Sound, HandlersOf
<1>4. QED
  BY <1>1, <1>2, <1>3

(* A kernel still defining its classes disturbs no request: no request is   *)
(* about an object of its.                                                  *)
LEMMA LiveSettled ==
  ASSUME ~LateDefinitions, LInv, [CNext]_cvars, NEW o \in Live
  PROVE  /\ o \in Live' /\ Proper'[o] = Proper[o] /\ Struct(o)' = Struct(o)
         /\ \A h \in HandlersOf(o) : Slot(o, h)' = Slot(o, h)
<1>1. o \in Objects /\ ObjConn[o] \in Conns /\ phase[ObjConn[o]] = "ready"
  BY HierarchyAssumption DEF Live
<1>2. /\ phase'[ObjConn[o]] = "ready" /\ byName'[ObjConn[o]] = byName[ObjConn[o]]
      /\ events'[ObjConn[o]] = events[ObjConn[o]]
      /\ \A h \in Handlers : offset'[h][ObjConn[o]] = offset[h][ObjConn[o]]
  BY <1>1, ReadySettles
<1>3. Struct(o)' = Struct(o) /\ \A h \in HandlersOf(o) : Slot(o, h)' = Slot(o, h)
  BY <1>2 DEF Struct, Slot, HandlersOf
<1>4. o \in Live'
  BY <1>1, <1>2, <1>3 DEF Live
<1>5. QED
  BY <1>1, <1>2, <1>3, <1>4, ProperKept

LEMMA SoundSettled == ASSUME ~LateDefinitions, LInv, [CNext]_cvars PROVE Sound \subseteq Sound'
<1>1. ASSUME NEW r \in Sound PROVE r \in Sound'
  <2>1. r \in Requested /\ r.subject \in Live /\ r.s \in Proper[r.subject]
    BY DEF Sound
  <2>2. r.subject \in Live' /\ r.s \in Proper'[r.subject]
    BY <2>1, LiveSettled
  <2>3. ASSUME r.object # NoObject
        PROVE  /\ r.object \in Live' /\ ObjConn[r.object] = ObjConn[r.subject]
               /\ r.o \in Proper'[r.object]
    BY <2>3, LiveSettled DEF Sound
  <2>4. /\ \A h \in Handlers : HandlerEvent[h] = r.event => h \in HandlersOf(r.subject)
        /\ \A h \in Handlers : r.var[h] # NoNode => Owner[r.var[h]] = h
    BY DEF Sound
  <2>5. QED
    BY <2>1, <2>2, <2>3, <2>4 DEF Sound, HandlersOf
<1>2. QED
  BY <1>1

LEMMA ClassesKeep == ASSUME ~LateDefinitions, LInv, HInv, [CNext]_cvars, UNCHANGED hvars PROVE HInv'
<1>1. KernelSound'
  <2>1. ASSUME NEW o \in Objects, o \in Live, kernel[o] \in Proper[o]
        PROVE  o \in Live' /\ kernel'[o] \in Proper'[o]
    BY <2>1, LiveSettled DEF hvars
  <2>2. QED
    BY <2>1 DEF HInv, KernelSound, hvars, Fresh
<1>2. QED
  BY <1>1, SoundSettled DEF HInv, hvars, Busy

(* One request goes on, the others and the kernel stay as they are.         *)
LEMMA SetKeeps == ASSUME HInv, NEW b \in Buffers, NEW q \in Sound, Set(b, q) PROVE HInv'
<1>1. UNCHANGED <<cvars, kernel>> /\ bufs' = [bufs EXCEPT ![b] = q]
  BY DEF Set
<1>2. KernelSound'
  BY <1>1, SoundSame DEF HInv, KernelSound, Fresh
<1>3. QED
  BY <1>1, <1>2, SoundSame DEF HInv, Busy

(* The subject's class of an access type is the class of the subjects that  *)
(* do it, and of the trees that are asked about it.                         *)
LEMMA TreesOfSubject ==
  ASSUME LInv, NEW c \in Conns, NEW ev \in EventNames, NEW s \in Objects, ObjConn[s] = c,
         events[c][ev].op0 # 0, Struct(s) = events[c][ev].op0,
         NEW h \in Handlers, HandlerEvent[h] = ev
  PROVE  h \in HandlersOf(s)
<1> DEFINE e == events[c][ev]
<1>1. e.def \in EventDefs /\ e.def.name = ev /\ e.op0 \in 1..Len(structs[c])
      /\ structs[c][e.op0].def.id = e.def.op0
  BY DEF LInv, SubjectsFound, SubjectFound
<1>2. structs[c][e.op0] \in Structs
  BY <1>1 DEF LInv, CInv, CTypeOK
<1>3. structs[c][e.op0].def \in ClassDefs
  BY <1>2 DEF Structs
<1>4. structs[c][e.op0].def.name = ObjClass[s]
  BY HierarchyAssumption DEF LInv, Named, Struct
<1>5. QED
  BY <1>1, <1>3, <1>4, TreesFitEvents DEF HandlersOf

LEMMA RequestSound ==
  ASSUME LInv, HInv, NEW b \in Buffers, NEW c \in Conns, NEW ev \in EventNames,
         NEW s \in Objects, NEW o \in Objects \cup {NoObject}, Request(b, c, ev, s, o)
  PROVE  bufs'[b] \in Sound
<1> DEFINE r == [event |-> ev, subject |-> s, object |-> o, start |-> kernel[s], s |-> kernel[s],
                 o |-> IF o = NoObject THEN Fresh ELSE kernel[o], list |-> "VS_ALLOW", pos |-> 0,
                 result |-> RESULT_ERR, allowed |-> FALSE,
                 var |-> [h \in Handlers |-> NoNode], enters |-> 0]
<1>1. ASSUME NEW x \in Live PROVE kernel[x] \in Proper[x] /\ kernel[x] \in Data
  BY FreshProper DEF HInv, KernelSound, Live, Proper
<1>2. s \in Live
  BY DEF Request, Live
<1>3. o # NoObject => o \in Live /\ ObjConn[o] = ObjConn[s]
  BY DEF Request, Live
<1>4. r \in Requested
  <2>1. r.o \in Data
    <3>1. Fresh \in Data
      BY DEF Fresh, Data
    <3>2. QED
      BY <1>1, <1>3, <3>1
  <2>2. r.var \in [Handlers -> Nodes \cup {NoNode}]
    OBVIOUS
  <2>3. RESULT_ERR \in Results /\ "VS_ALLOW" \in Lists
    BY DEF Results, Lists, VSLists
  <2>4. QED
    BY <1>1, <1>2, <2>1, <2>2, <2>3 DEF Requested
<1>5. \A h \in Handlers : HandlerEvent[h] = ev => h \in HandlersOf(s)
  BY TreesOfSubject DEF Request
<1>6. r \in Sound
  BY <1>1, <1>2, <1>3, <1>4, <1>5 DEF Sound
<1>7. bufs' = [bufs EXCEPT ![b] = r]
  BY DEF Request
<1> HIDE DEF r
<1>8. QED
  BY <1>6, <1>7 DEF HInv

LEMMA RequestKeeps ==
  ASSUME LInv, HInv, NEW b \in Buffers, NEW c \in Conns, NEW ev \in EventNames,
         NEW s \in Objects, NEW o \in Objects \cup {NoObject}, Request(b, c, ev, s, o)
  PROVE  HInv'
<1>1. UNCHANGED <<cvars, kernel>> /\ \E r : bufs' = [bufs EXCEPT ![b] = r]
  BY DEF Request
<1>2. KernelSound'
  BY <1>1, SoundSame DEF HInv, KernelSound, Fresh
<1>3. QED
  BY <1>1, <1>2, RequestSound, SoundSame DEF HInv, Busy

LEMMA EvaluateGives == ASSUME NEW old \in Results, NEW new PROVE evaluate_result(old, new) \in Results
BY DEF evaluate_result, Verdict, Verdicts, Results

(* The first hook still to come.                                            *)
LEMMA NextHook ==
  ASSUME NEW b, bufs[b].pos \in Nat, AtHook(b)
  PROVE  /\ HookPos(b) \in DOMAIN HandlerOrder /\ HookPos(b) \in Nat /\ HookPos(b) >= bufs[b].pos
         /\ \A j \in ToCome(b) : HookPos(b) <= j
         /\ Hook(b) \in Handlers /\ HandlerEvent[Hook(b)] = bufs[b].event
<1>1. ToCome(b) # {} /\ ToCome(b) \subseteq Nat
  BY ClassesAssumption DEF AtHook, ToCome
<1>2. \E x \in ToCome(b) : \A y \in ToCome(b) : x <= y
  BY <1>1, LeastMember
<1>3. HookPos(b) \in ToCome(b) /\ \A j \in ToCome(b) : HookPos(b) <= j
  BY <1>2 DEF HookPos
<1>4. HookPos(b) \in DOMAIN HandlerOrder /\ HandlerEvent[Hook(b)] = bufs[b].event
  BY <1>3 DEF ToCome, Hook
<1>5. Hook(b) \in Handlers
  BY <1>4, ClassesAssumption DEF Hook
<1>6. HookPos(b) \in Nat /\ HookPos(b) >= bufs[b].pos
  BY <1>1, <1>3 DEF ToCome
<1>7. QED
  BY <1>3, <1>4, <1>5, <1>6

(* A request that differs in what the hooks may change is as sound.         *)
LEMMA StillSound ==
  ASSUME NEW r \in Sound, NEW q \in Requested,
         q.event = r.event, q.subject = r.subject, q.object = r.object,
         q.s \in Proper[r.subject],
         q.o = r.o \/ (r.object # NoObject /\ q.o \in Proper[r.object]),
         \A h \in Handlers : q.var[h] = r.var[h] \/ q.var[h] = NoNode \/ Owner[q.var[h]] = h
  PROVE  q \in Sound
BY DEF Sound

(* The subject's node is where its way starts unless it has one.            *)
LEMMA LocatedSound ==
  ASSUME LInv, NEW b, bufs[b] \in Sound, NEW h \in Handlers, HandlerEvent[h] = bufs[b].event
  PROVE  LET r == bufs[b]
             n == Node(r.subject, r.s, h)
             l == Located(b, h)
         IN  /\ l \in Sound /\ l = [r EXCEPT !.s = l.s]
             /\ h \in HandlersOf(r.subject)
             /\ StartNode(b, h) = StartOf(r, h) /\ StartNode(b, h) \in Nodes
             /\ Node(r.subject, l.s, h) \in Nodes /\ Owner[Node(r.subject, l.s, h)] = h
             /\ \A k \in HandlersOf(r.subject) :
                  Node(r.subject, l.s, k) =
                    IF k = h /\ n = NoNode THEN StartOf(r, h) ELSE Node(r.subject, r.s, k)
<1> DEFINE r == bufs[b]
           n == Node(r.subject, r.s, h)
           l == Located(b, h)
           d == SetHandler(r.subject, Put(r.subject, r.s, h, StartNode(b, h)))
<1>1. /\ r \in Requested /\ r.subject \in Live /\ r.s \in Proper[r.subject]
      /\ h \in HandlersOf(r.subject)
  BY DEF Sound
<1>2. StartNode(b, h) = StartOf(r, h)
  BY DEF StartNode, StartOf
<1>3. StartOf(r, h) \in Nodes /\ Owner[StartOf(r, h)] = h
  <2>1. Root[h] \in Nodes /\ Owner[Root[h]] = h
    BY HierarchyAssumption
  <2>2. ASSUME r.object # NoObject, Struct(r.object) = Struct(r.subject),
               Node(r.object, r.o, h) # NoNode
        PROVE  Node(r.object, r.o, h) \in Nodes /\ Owner[Node(r.object, r.o, h)] = h
    <3>1. /\ r.object \in Live /\ r.o \in Proper[r.object]
          /\ ObjConn[r.object] = ObjConn[r.subject]
      BY <2>2 DEF Sound
    <3>2. ASSUME NEW x \in Live
          PROVE  /\ ObjConn[x] \in Conns /\ ObjClass[x] \in ClassNames
                 /\ structs[ObjConn[x]][Struct(x)].def.name = ObjClass[x]
      BY HierarchyAssumption DEF LInv, Named, Live, Struct
    <3>3. ObjClass[r.object] = ObjClass[r.subject]
      BY <1>1, <2>2, <3>1, <3>2
    <3>4. h \in HandlersOf(r.object)
      BY <1>1, <3>3 DEF HandlersOf
    <3>5. QED
      BY <2>2, <3>1, <3>4, NodeInTree
  <2>3. QED
    BY <2>1, <2>2 DEF StartOf
<1>4. n \in Nodes \cup {NoNode} /\ (n # NoNode => Owner[n] = h)
  BY <1>1, NodeInTree
<1>5. /\ d \in Proper[r.subject]
      /\ \A k \in HandlersOf(r.subject) :
           Node(r.subject, d, k) = IF k = h THEN StartOf(r, h) ELSE Node(r.subject, r.s, k)
  BY <1>1, <1>2, <1>3, PutProper
<1>6. l = IF n = NoNode THEN [r EXCEPT !.s = d] ELSE r
  BY DEF Located
<1>7. CASE n = NoNode
  <2>1. l = [r EXCEPT !.s = d] /\ d \in Data
    BY <1>1, <1>5, <1>6, <1>7 DEF Proper, Live
  <2> HIDE DEF l, d
  <2>2. l \in Requested /\ l.s = d
    BY <1>1, <2>1 DEF Requested
  <2>3. l \in Sound
    <3>1. /\ l.event = r.event /\ l.subject = r.subject /\ l.object = r.object
          /\ l.o = r.o /\ l.var = r.var
      BY <1>1, <2>1 DEF Requested
    <3>2. QED
      BY <1>5, <2>2, <3>1, StillSound
  <2>4. Node(r.subject, d, h) \in Nodes /\ Owner[Node(r.subject, d, h)] = h
    BY <1>1, <1>3, <1>5
  <2>5. QED
    BY <1>1, <1>2, <1>3, <1>5, <1>7, <2>1, <2>2, <2>3, <2>4 DEF l
<1>8. CASE n # NoNode
  <2>1. l = r
    BY <1>6, <1>8
  <2>2. r = [r EXCEPT !.s = r.s]
    BY <1>1 DEF Requested
  <2>3. QED
    BY <1>1, <1>2, <1>3, <1>4, <1>8, <2>1, <2>2
<1>9. QED
  BY <1>7, <1>8

(* What no worker changes of a request; what a hook that calls no enter()   *)
(* does not change either.                                                  *)
SameRequest(r, q) ==
  q.event = r.event /\ q.subject = r.subject /\ q.object = r.object /\ q.start = r.start
NoEnter(r, q) == SameRequest(r, q) /\ q.o = r.o /\ q.enters = r.enters
SameNodes(r, q) == \A k \in HandlersOf(r.subject) : Node(r.subject, q.s, k) = Node(r.subject, r.s, k)

LEMMA BusyRequest ==
  ASSUME HInv, NEW b \in Buffers, Busy(b), NEW q, Set(b, q)
  PROVE  /\ bufs[b] \in Sound /\ bufs[b] \in Requested /\ bufs'[b] = q /\ Set(b, bufs'[b])
         /\ bufs[b].subject \in Objects /\ bufs[b].subject \in Live
         /\ bufs[b].s \in Proper[bufs[b].subject]
<1>1. bufs[b] \in Sound /\ bufs'[b] = q
  BY DEF HInv, Set
<1>2. QED
  BY <1>1 DEF Sound, Live

LEMMA BeginStep ==
  ASSUME LInv, HInv, NEW b \in Buffers, Begin(b)
  PROVE  LET r == bufs[b]  q == bufs'[b] IN
         /\ Set(b, q) /\ q \in Sound /\ NoEnter(r, q) /\ SameNodes(r, q)
         /\ q.list = r.list /\ q.var = r.var /\ q.allowed = r.allowed /\ r.pos = 0 /\ q.pos = 1
<1> DEFINE r == bufs[b]
           d == IF IsInvalid(r.subject, r.s) THEN SetHandler(r.subject, r.s) ELSE r.s
           q == [r EXCEPT !.pos = 1, !.s = d]
<1>1. Busy(b) /\ r.pos = 0 /\ Set(b, q)
  BY DEF Begin
<1>2. /\ r \in Sound /\ r \in Requested /\ bufs'[b] = q /\ Set(b, bufs'[b])
      /\ r.subject \in Objects /\ r.s \in Proper[r.subject]
  BY <1>1, BusyRequest
<1>3. d \in Proper[r.subject] /\ d.cinfo = r.s.cinfo
  <2>1. r.s \in Data /\ InPlace(r.subject, r.s)
    BY <1>2 DEF Proper
  <2>2. SetHandler(r.subject, r.s) \in Proper[r.subject]
    BY <1>2, <2>1, RefreshedProper DEF Data
  <2>3. SetHandler(r.subject, r.s).cinfo = r.s.cinfo
    BY DEF SetHandler
  <2>4. QED
    BY <1>2, <2>2, <2>3
<1>4. d \in Data
  BY <1>2, <1>3 DEF Proper
<1> HIDE DEF d
<1>5. /\ q \in Requested /\ NoEnter(r, q) /\ q.s = d
      /\ q.list = r.list /\ q.var = r.var /\ q.allowed = r.allowed /\ q.pos = 1
  BY <1>2, <1>4 DEF Requested, NoEnter, SameRequest
<1> HIDE DEF q
<1>6. SameNodes(r, q)
  BY <1>3, <1>5 DEF SameNodes, Node
<1>7. q \in Sound
  BY <1>2, <1>3, <1>5, StillSound DEF NoEnter, SameRequest
<1>8. QED
  BY <1>1, <1>2, <1>5, <1>6, <1>7

(* What the first half of a tree's hook does to the nodes of the subject.   *)
HookLocates(b, q) ==
  LET r == bufs[b]  h == Hook(b) IN
  /\ h \in HandlersOf(r.subject) /\ HandlerEvent[h] = r.event
  /\ \A k \in HandlersOf(r.subject) :
       Node(r.subject, q.s, k) =
         IF k = h /\ Node(r.subject, r.s, h) = NoNode THEN StartOf(r, h) ELSE Node(r.subject, r.s, k)
  /\ Node(r.subject, q.s, h) \in Nodes

LEMMA ParksStep ==
  ASSUME LInv, HInv, NEW b \in Buffers, DecideParks(b)
  PROVE  LET r == bufs[b]  q == bufs'[b] IN
         /\ Set(b, q) /\ q \in Sound /\ NoEnter(r, q) /\ HookLocates(b, q)
         /\ q.list = r.list /\ q.var = r.var /\ q.allowed = r.allowed /\ q.pos = r.pos
<1> DEFINE r == bufs[b]
           h == Hook(b)
           q == Located(b, h)
<1>1. Busy(b) /\ AtHook(b) /\ Set(b, q)
  BY DEF DecideParks, Deciding, Walking
<1>2. r \in Sound /\ r \in Requested /\ bufs'[b] = q /\ Set(b, bufs'[b])
  BY <1>1, BusyRequest
<1>3. h \in Handlers /\ HandlerEvent[h] = r.event
  BY <1>1, <1>2, NextHook DEF Requested
<1> HIDE DEF h, q
<1>4. /\ q \in Sound /\ q = [r EXCEPT !.s = q.s] /\ h \in HandlersOf(r.subject)
      /\ Node(r.subject, q.s, h) \in Nodes
      /\ \A k \in HandlersOf(r.subject) :
           Node(r.subject, q.s, k) =
             IF k = h /\ Node(r.subject, r.s, h) = NoNode THEN StartOf(r, h) ELSE Node(r.subject, r.s, k)
  BY <1>2, <1>3, LocatedSound DEF q
<1>5. /\ NoEnter(r, q)
      /\ q.list = r.list /\ q.var = r.var /\ q.allowed = r.allowed /\ q.pos = r.pos
  BY <1>2, <1>4 DEF Requested, NoEnter, SameRequest
<1>6. HookLocates(b, q)
  BY <1>3, <1>4 DEF HookLocates, h
<1>7. QED
  BY <1>2, <1>4, <1>5, <1>6

(* The second half: the hook goes on with a node n of its own tree, the one *)
(* where the subject is or one below it.                                    *)
LEMMA HookGoesOn ==
  ASSUME LInv, HInv, NEW b \in Buffers, Deciding(b), NEW n \in Nodes, NEW v \in Results,
         Owner[n] = Hook(b),
         Set(b, [Located(b, Hook(b)) EXCEPT !.var[Hook(b)] = n, !.result = v, !.pos = HookPos(b) + 1])
  PROVE  LET r == bufs[b]  q == bufs'[b] IN
         /\ Set(b, q) /\ q \in Sound /\ NoEnter(r, q) /\ HookLocates(b, q)
         /\ q.s = Located(b, Hook(b)).s
         /\ q.list = r.list /\ q.allowed = r.allowed /\ q.pos = HookPos(b) + 1
         /\ \A k \in Handlers : q.var[k] = IF k = Hook(b) THEN n ELSE r.var[k]
<1> DEFINE r == bufs[b]
           h == Hook(b)
           l == Located(b, h)
           q == [l EXCEPT !.var[h] = n, !.result = v, !.pos = HookPos(b) + 1]
<1>1. Busy(b) /\ AtHook(b) /\ Set(b, q)
  BY DEF Deciding, Walking
<1>2. r \in Sound /\ r \in Requested /\ bufs'[b] = q /\ Set(b, bufs'[b])
  BY <1>1, BusyRequest
<1>3. h \in Handlers /\ HandlerEvent[h] = r.event /\ HookPos(b) \in Nat
  BY <1>1, <1>2, NextHook DEF Requested
<1> HIDE DEF h, l
<1>4. /\ l \in Sound /\ l = [r EXCEPT !.s = l.s] /\ h \in HandlersOf(r.subject)
      /\ Node(r.subject, l.s, h) \in Nodes
      /\ \A k \in HandlersOf(r.subject) :
           Node(r.subject, l.s, k) =
             IF k = h /\ Node(r.subject, r.s, h) = NoNode THEN StartOf(r, h) ELSE Node(r.subject, r.s, k)
  BY <1>2, <1>3, LocatedSound DEF l
<1>5. /\ NoEnter(r, l) /\ l \in Requested
      /\ l.list = r.list /\ l.var = r.var /\ l.allowed = r.allowed
  BY <1>2, <1>4 DEF Requested, NoEnter, SameRequest, Sound
<1>6. q \in Requested
  <2>1. PICK w, p : w = [l.var EXCEPT ![h] = n] /\ p = HookPos(b) + 1
    OBVIOUS
  <2>2. w \in [Handlers -> Nodes \cup {NoNode}] /\ p \in Nat
    BY <1>3, <1>5, <2>1 DEF Requested
  <2>3. q = [l EXCEPT !.var = w, !.result = v, !.pos = p]
    BY <2>1
  <2> HIDE DEF q
  <2>4. QED
    BY <1>5, <2>2, <2>3 DEF Requested
<1>7. /\ NoEnter(r, q) /\ q.s = l.s /\ q.list = r.list /\ q.allowed = r.allowed
      /\ q.pos = HookPos(b) + 1
      /\ \A k \in Handlers : q.var[k] = IF k = h THEN n ELSE r.var[k]
  BY <1>3, <1>5 DEF Requested, NoEnter, SameRequest
<1> HIDE DEF q
<1>8. q \in Sound
  <2>1. q.s \in Proper[l.subject] /\ l.subject = r.subject
    BY <1>4, <1>5, <1>7 DEF Sound, NoEnter, SameRequest
  <2>2. \A k \in Handlers : q.var[k] = r.var[k] \/ Owner[q.var[k]] = k
    BY <1>7 DEF h
  <2>3. QED
    BY <1>2, <1>6, <1>7, <2>1, <2>2, StillSound DEF NoEnter, SameRequest
<1>9. HookLocates(b, q)
  BY <1>3, <1>4, <1>7 DEF HookLocates, h
<1>10. QED
  BY <1>2, <1>7, <1>8, <1>9 DEF h, l

LEMMA FoundStep ==
  ASSUME LInv, HInv, NEW b \in Buffers, DecideFound(b)
  PROVE  LET r == bufs[b]  q == bufs'[b]  h == Hook(b) IN
         /\ Set(b, q) /\ q \in Sound /\ NoEnter(r, q) /\ HookLocates(b, q)
         /\ q.list = r.list /\ q.allowed = r.allowed /\ q.pos = HookPos(b) + 1
         /\ \E n : n \in Children[Node(r.subject, q.s, h)] \cup {Node(r.subject, q.s, h)}
                   /\ \A k \in Handlers : q.var[k] = IF k = h THEN n ELSE r.var[k]
<1> DEFINE r == bufs[b]
           h == Hook(b)
           l == Located(b, h)
           here == Node(r.subject, l.s, h)
<1>1. r \in Sound /\ r \in Requested /\ h \in Handlers /\ HandlerEvent[h] = r.event
  <2>1. Busy(b) /\ AtHook(b) /\ r \in Sound
    BY DEF DecideFound, Deciding, Walking, HInv
  <2>2. r \in Requested
    BY <2>1 DEF Sound
  <2>3. QED
    BY <2>1, <2>2, NextHook DEF Requested
<1>2. /\ l \in Sound /\ l = [r EXCEPT !.s = l.s] /\ here \in Nodes /\ Owner[here] = h
  BY <1>1, LocatedSound
<1>3. l.subject = r.subject /\ l.result \in Results
  BY <1>1, <1>2 DEF Requested, Sound
<1>4. PICK n, may : n \in FindOne(here) /\
        Set(b, [l EXCEPT !.var[h] = IF may THEN n ELSE here,
                         !.result = evaluate_result(l.result, IF may THEN RESULT_ALLOW ELSE RESULT_DENY),
                         !.pos = HookPos(b) + 1])
  BY <1>3 DEF DecideFound
<1>5. PICK m : m = IF may THEN n ELSE here
  OBVIOUS
<1>6. PICK v : v = evaluate_result(l.result, IF may THEN RESULT_ALLOW ELSE RESULT_DENY)
  OBVIOUS
<1>7. m \in Children[here] \cup {here} /\ m \in Nodes /\ Owner[m] = h
  BY <1>2, <1>4, <1>5, HierarchyAssumption DEF FindOne
<1>8. v \in Results
  BY <1>3, <1>6, EvaluateGives
<1>9. Set(b, [l EXCEPT !.var[h] = m, !.result = v, !.pos = HookPos(b) + 1])
  BY <1>4, <1>5, <1>6
<1>10. Deciding(b)
  BY DEF DecideFound
<1> HIDE DEF h, l
<1>11. /\ Set(b, bufs'[b]) /\ bufs'[b] \in Sound /\ NoEnter(r, bufs'[b])
       /\ HookLocates(b, bufs'[b]) /\ bufs'[b].s = l.s
       /\ bufs'[b].list = r.list /\ bufs'[b].allowed = r.allowed /\ bufs'[b].pos = HookPos(b) + 1
       /\ \A k \in Handlers : bufs'[b].var[k] = IF k = h THEN m ELSE r.var[k]
  BY <1>7, <1>8, <1>9, <1>10, HookGoesOn DEF h, l
<1>12. QED
  BY <1>7, <1>11 DEF h

LEMMA MissingStep ==
  ASSUME LInv, HInv, NEW b \in Buffers, DecideMissing(b)
  PROVE  LET r == bufs[b]  q == bufs'[b]  h == Hook(b) IN
         /\ Set(b, q) /\ q \in Sound /\ NoEnter(r, q) /\ HookLocates(b, q)
         /\ q.list = r.list /\ q.allowed = r.allowed /\ q.pos = HookPos(b) + 1
         /\ \A k \in Handlers : q.var[k] = IF k = h THEN Node(r.subject, q.s, h) ELSE r.var[k]
<1> DEFINE r == bufs[b]
           h == Hook(b)
           l == Located(b, h)
           here == Node(r.subject, l.s, h)
<1>1. r \in Sound /\ r \in Requested /\ h \in Handlers /\ HandlerEvent[h] = r.event
  <2>1. Busy(b) /\ AtHook(b) /\ r \in Sound
    BY DEF DecideMissing, Deciding, Walking, HInv
  <2>2. r \in Requested
    BY <2>1 DEF Sound
  <2>3. QED
    BY <2>1, <2>2, NextHook DEF Requested
<1>2. /\ l \in Sound /\ l = [r EXCEPT !.s = l.s] /\ here \in Nodes /\ Owner[here] = h
  BY <1>1, LocatedSound
<1>3. l.subject = r.subject /\ l \in Requested /\ l.result \in Results
  BY <1>1, <1>2 DEF Requested, Sound
<1>4. Set(b, [l EXCEPT !.var[h] = here, !.pos = HookPos(b) + 1]) /\ Deciding(b)
  BY <1>3 DEF DecideMissing
<1>5. [l EXCEPT !.var[h] = here, !.pos = HookPos(b) + 1]
        = [l EXCEPT !.var[h] = here, !.result = l.result, !.pos = HookPos(b) + 1]
  BY <1>3 DEF Requested
<1>6. Set(b, [l EXCEPT !.var[h] = here, !.result = l.result, !.pos = HookPos(b) + 1])
  BY <1>4, <1>5
<1> HIDE DEF h, l, here
<1>7. /\ Set(b, bufs'[b]) /\ bufs'[b] \in Sound /\ NoEnter(r, bufs'[b])
      /\ HookLocates(b, bufs'[b]) /\ bufs'[b].s = l.s
      /\ bufs'[b].list = r.list /\ bufs'[b].allowed = r.allowed /\ bufs'[b].pos = HookPos(b) + 1
      /\ \A k \in Handlers : bufs'[b].var[k] = IF k = h THEN here ELSE r.var[k]
  BY <1>2, <1>3, <1>4, <1>6, HookGoesOn DEF h, l
<1>8. QED
  BY <1>7 DEF h, here

LEMMA NotifyListGives ==
  ASSUME NEW v
  PROVE  /\ NotifyList("VS_ALLOW", v) \in NotifyLists
         /\ NotifyList("VS_ALLOW", v) = "NOTIFY_ALLOW" => v \notin {RESULT_DENY, RESULT_FAKE_ALLOW}
BY DEF NotifyList, NotifyLists

LEMMA ToNotifyStep ==
  ASSUME LInv, HInv, NEW b \in Buffers, ToNotify(b)
  PROVE  LET r == bufs[b]  q == bufs'[b] IN
         /\ Set(b, q) /\ q \in Sound /\ NoEnter(r, q) /\ SameNodes(r, q) /\ q.var = r.var
         /\ r.list = "VS_ALLOW" /\ ~AtHook(b)
         /\ q.list \in NotifyLists /\ (q.list = "NOTIFY_ALLOW" => q.allowed)
<1> DEFINE r == bufs[b]
           list == NotifyList("VS_ALLOW", r.result)
           q == [r EXCEPT !.list = list, !.pos = 1, !.allowed = Allowed(r)]
<1>1. Busy(b) /\ Set(b, q) /\ r.list = "VS_ALLOW" /\ ~AtHook(b)
  BY DEF ToNotify, Walking
<1>2. r \in Sound /\ r \in Requested /\ bufs'[b] = q /\ Set(b, bufs'[b]) /\ r.s \in Proper[r.subject]
  BY <1>1, BusyRequest
<1>3. list \in NotifyLists /\ list \in Lists /\ (list = "NOTIFY_ALLOW" => Allowed(r))
  BY NotifyListGives DEF Lists, Allowed
<1>4. Allowed(r) \in BOOLEAN
  BY DEF Allowed
<1> HIDE DEF list
<1>5. q \in Requested /\ NoEnter(r, q) /\ q.s = r.s /\ q.var = r.var
      /\ q.list = list /\ (q.allowed <=> Allowed(r))
  BY <1>2, <1>3, <1>4 DEF Requested, NoEnter, SameRequest
<1> HIDE DEF q
<1>6. q \in Sound /\ SameNodes(r, q)
  BY <1>2, <1>5, StillSound DEF NoEnter, SameRequest, SameNodes
<1>7. QED
  BY <1>1, <1>2, <1>3, <1>5, <1>6

LEMMA NotifyStep ==
  ASSUME LInv, HInv, NEW b \in Buffers, Notify(b)
  PROVE  LET r == bufs[b]  q == bufs'[b]  h == Hook(b) IN
         /\ Set(b, q) /\ q \in Sound /\ NoEnter(r, q) /\ q.var = r.var
         /\ q.list = r.list /\ r.list = "NOTIFY_ALLOW" /\ q.allowed = r.allowed
         /\ h \in HandlersOf(r.subject) /\ HandlerEvent[h] = r.event
         /\ \A k \in HandlersOf(r.subject) :
              Node(r.subject, q.s, k) = IF k = h THEN r.var[h] ELSE Node(r.subject, r.s, k)
<1> DEFINE r == bufs[b]
           h == Hook(b)
           d == SetHandler(r.subject, Put(r.subject, r.s, h, r.var[h]))
           v == evaluate_result(r.result, r.result)
           p == HookPos(b) + 1
           q == [r EXCEPT !.s = d, !.result = v, !.pos = p]
<1>1. Busy(b) /\ AtHook(b) /\ Set(b, q) /\ r.list = "NOTIFY_ALLOW"
  BY DEF Notify, Walking
<1>2. /\ r \in Sound /\ r \in Requested /\ bufs'[b] = q /\ Set(b, bufs'[b])
      /\ r.subject \in Live /\ r.s \in Proper[r.subject]
  BY <1>1, BusyRequest
<1>3. h \in Handlers /\ HandlerEvent[h] = r.event /\ p \in Nat
  BY <1>1, <1>2, NextHook DEF Requested
<1>4. h \in HandlersOf(r.subject) /\ r.var[h] \in Nodes \cup {NoNode}
      /\ (r.var[h] # NoNode => Owner[r.var[h]] = h) /\ v \in Results
  BY <1>2, <1>3, EvaluateGives DEF Sound, Requested
<1>5. /\ d \in Proper[r.subject]
      /\ \A k \in HandlersOf(r.subject) :
           Node(r.subject, d, k) = IF k = h THEN r.var[h] ELSE Node(r.subject, r.s, k)
  BY <1>2, <1>4, PutProper
<1>6. d \in Data
  BY <1>2, <1>5 DEF Proper, Live
<1> HIDE DEF h, d, v, p
<1>7. /\ q \in Requested /\ NoEnter(r, q) /\ q.s = d /\ q.var = r.var
      /\ q.list = r.list /\ q.allowed = r.allowed
  BY <1>2, <1>3, <1>4, <1>6 DEF Requested, NoEnter, SameRequest
<1> HIDE DEF q
<1>8. q \in Sound
  BY <1>2, <1>5, <1>7, StillSound DEF NoEnter, SameRequest
<1>9. QED
  BY <1>1, <1>2, <1>3, <1>4, <1>5, <1>7, <1>8 DEF h

LEMMA SaysStep ==
  ASSUME LInv, HInv, NEW b \in Buffers, UserSays(b)
  PROVE  LET r == bufs[b]  q == bufs'[b] IN
         /\ Set(b, q) /\ q \in Sound /\ NoEnter(r, q) /\ SameNodes(r, q) /\ q.var = r.var
         /\ q.list = r.list /\ q.allowed = r.allowed /\ q.pos = r.pos
<1> DEFINE r == bufs[b]
<1>1. PICK said : Set(b, [r EXCEPT !.result = evaluate_result(r.result, said)])
  BY DEF UserSays
<1>2. PICK v : v = evaluate_result(r.result, said)
  OBVIOUS
<1> DEFINE q == [r EXCEPT !.result = v]
<1>3. Busy(b) /\ Set(b, q)
  BY <1>1, <1>2 DEF UserSays, Walking
<1>4. r \in Sound /\ r \in Requested /\ bufs'[b] = q /\ Set(b, bufs'[b]) /\ r.s \in Proper[r.subject]
  BY <1>3, BusyRequest
<1>5. v \in Results
  BY <1>2, <1>4, EvaluateGives DEF Requested
<1>6. /\ q \in Requested /\ NoEnter(r, q) /\ q.s = r.s /\ q.var = r.var
      /\ q.list = r.list /\ q.allowed = r.allowed /\ q.pos = r.pos
  BY <1>4, <1>5 DEF Requested, NoEnter, SameRequest
<1> HIDE DEF q
<1>7. q \in Sound /\ SameNodes(r, q)
  BY <1>4, <1>6, StillSound DEF NoEnter, SameRequest, SameNodes
<1>8. QED
  BY <1>4, <1>6, <1>7

LEMMA EntersStep ==
  ASSUME LInv, HInv, NEW b \in Buffers, UserEnters(b)
  PROVE  LET r == bufs[b]  q == bufs'[b] IN
         /\ Set(b, q) /\ q \in Sound /\ q.enters > 0
         /\ q.list = r.list /\ q.allowed = r.allowed
<1> DEFINE r == bufs[b]
<1>1. Busy(b)
  BY DEF UserEnters, Walking
<1>2. PICK n \in Nodes :
        \/ /\ Enterable(r.subject, r.s, Owner[n], n)
           /\ Set(b, [r EXCEPT !.s = SetHandler(r.subject, Put(r.subject, r.s, Owner[n], n)),
                               !.enters = r.enters + 1])
        \/ /\ r.object # NoObject /\ Enterable(r.object, r.o, Owner[n], n)
           /\ Set(b, [r EXCEPT !.o = SetHandler(r.object, Put(r.object, r.o, Owner[n], n)),
                               !.enters = r.enters + 1])
  BY DEF UserEnters
<1>3. /\ r \in Sound /\ r \in Requested /\ bufs' = [bufs EXCEPT ![b] = bufs'[b]]
      /\ r.subject \in Live /\ r.s \in Proper[r.subject]
  BY <1>1, <1>2, BusyRequest DEF Set
<1>4. PICK h, e : h = Owner[n] /\ e = r.enters + 1
  OBVIOUS
<1>5. h \in Handlers /\ e \in Nat /\ e > 0
  BY <1>3, <1>4, HierarchyAssumption DEF Requested
<1>6. ASSUME Enterable(r.subject, r.s, h, n),
             Set(b, [r EXCEPT !.s = SetHandler(r.subject, Put(r.subject, r.s, h, n)), !.enters = e])
      PROVE  /\ Set(b, bufs'[b]) /\ bufs'[b] \in Sound /\ bufs'[b].enters > 0
             /\ bufs'[b].list = r.list /\ bufs'[b].allowed = r.allowed
  <2> DEFINE d == SetHandler(r.subject, Put(r.subject, r.s, h, n))
             q == [r EXCEPT !.s = d, !.enters = e]
  <2>1. bufs'[b] = q /\ Set(b, bufs'[b])
    BY <1>1, <1>6, BusyRequest
  <2>2. d \in Proper[r.subject]
    BY <1>3, <1>4, <1>5, <1>6, PutProper DEF Enterable, HandlersOf
  <2>3. d \in Data
    BY <1>3, <2>2 DEF Proper, Live
  <2> HIDE DEF d
  <2>4. /\ q \in Requested /\ SameRequest(r, q) /\ q.s = d /\ q.o = r.o /\ q.var = r.var
        /\ q.list = r.list /\ q.allowed = r.allowed /\ q.enters = e
    BY <1>3, <1>5, <2>3 DEF Requested, SameRequest
  <2> HIDE DEF q
  <2>5. q \in Sound
    BY <1>3, <2>2, <2>4, StillSound DEF SameRequest
  <2>6. QED
    BY <1>5, <2>1, <2>4, <2>5
<1>7. ASSUME r.object # NoObject, Enterable(r.object, r.o, h, n),
             Set(b, [r EXCEPT !.o = SetHandler(r.object, Put(r.object, r.o, h, n)), !.enters = e])
      PROVE  /\ Set(b, bufs'[b]) /\ bufs'[b] \in Sound /\ bufs'[b].enters > 0
             /\ bufs'[b].list = r.list /\ bufs'[b].allowed = r.allowed
  <2> DEFINE d == SetHandler(r.object, Put(r.object, r.o, h, n))
             q == [r EXCEPT !.o = d, !.enters = e]
  <2>1. bufs'[b] = q /\ Set(b, bufs'[b])
    BY <1>1, <1>7, BusyRequest
  <2>2. d \in Proper[r.object]
    BY <1>3, <1>4, <1>5, <1>7, PutProper DEF Enterable, HandlersOf, Sound
  <2>3. d \in Data
    BY <1>3, <1>7, <2>2 DEF Proper, Live, Sound
  <2> HIDE DEF d
  <2>4. /\ q \in Requested /\ SameRequest(r, q) /\ q.s = r.s /\ q.o = d /\ q.var = r.var
        /\ q.list = r.list /\ q.allowed = r.allowed /\ q.enters = e
    BY <1>3, <1>5, <2>3 DEF Requested, SameRequest
  <2> HIDE DEF q
  <2>5. q \in Sound
    BY <1>3, <1>7, <2>2, <2>4, StillSound DEF SameRequest
  <2>6. QED
    BY <1>5, <2>1, <2>4, <2>5
<1>8. QED
  BY <1>2, <1>4, <1>6, <1>7

LEMMA AnswerKeeps == ASSUME LInv, HInv, NEW b \in Buffers, Answer(b) PROVE HInv'
<1>1. Busy(b) /\ UNCHANGED cvars /\ bufs' = [bufs EXCEPT ![b] = Idle]
  BY DEF Answer, Walking
<1>2. bufs[b].subject \in Live /\ bufs[b].s \in Proper[bufs[b].subject]
  BY <1>1 DEF HInv, Sound
<1>3. DOMAIN kernel' = Objects /\ KernelSound'
  BY <1>1, <1>2, SoundSame DEF Answer, HInv, KernelSound, Fresh
<1>4. QED
  BY <1>1, <1>3, SoundSame DEF HInv, Busy

LEMMA SoundInit == Init => HInv
<1> SUFFICES ASSUME Init PROVE HInv
  OBVIOUS
<1>1. DOMAIN kernel = Objects /\ \A o \in Objects : kernel[o] = Fresh
  BY DEF Init
<1>2. DOMAIN bufs = Buffers /\ \A b \in Buffers : ~Busy(b)
  BY DEF Init, Busy
<1>3. QED
  BY <1>1, <1>2 DEF HInv, KernelSound

LEMMA SoundKept == ~LateDefinitions /\ LInv /\ HInv /\ [Next]_vars => HInv'
<1> SUFFICES ASSUME ~LateDefinitions, LInv, HInv, [Next]_vars PROVE HInv'
  OBVIOUS
<1>1. CASE CNext /\ UNCHANGED hvars
  BY <1>1, ClassesKeep
<1>2. ASSUME NEW b \in Buffers, NEW c \in Conns, NEW ev \in EventNames,
             NEW s \in Objects, NEW o \in Objects \cup {NoObject}, Request(b, c, ev, s, o)
      PROVE  HInv'
  BY <1>2, RequestKeeps
<1>3. ASSUME NEW b \in Buffers, Work(b) PROVE HInv'
  <2>1. CASE Begin(b)
    BY <2>1, BeginStep, SetKeeps
  <2>2. CASE DecideParks(b)
    BY <2>2, ParksStep, SetKeeps
  <2>3. CASE DecideFound(b)
    BY <2>3, FoundStep, SetKeeps
  <2>4. CASE DecideMissing(b)
    BY <2>4, MissingStep, SetKeeps
  <2>5. CASE ToNotify(b)
    BY <2>5, ToNotifyStep, SetKeeps
  <2>6. CASE Notify(b)
    BY <2>6, NotifyStep, SetKeeps
  <2>7. CASE UserSays(b)
    BY <2>7, SaysStep, SetKeeps
  <2>8. CASE UserEnters(b)
    BY <2>8, EntersStep, SetKeeps
  <2>9. CASE Answer(b)
    BY <2>9, AnswerKeeps
  <2>10. QED
    BY <1>3, <2>1, <2>2, <2>3, <2>4, <2>5, <2>6, <2>7, <2>8, <2>9 DEF Work
<1>4. CASE UNCHANGED vars
  <2>1. UNCHANGED cvars /\ UNCHANGED <<kernel, bufs>>
    BY <1>4 DEF vars, hvars
  <2>2. QED
    BY <2>1, SoundSame DEF HInv, KernelSound, Fresh, Busy
<1>5. QED
  BY <1>1, <1>2, <1>3, <1>4 DEF Next

(* With classes that are settled before READY, every copy of an object's    *)
(* data is proper.                                                          *)
LEMMA AlwaysSound == ~LateDefinitions => (Spec => [](LInv /\ HInv))
<1> SUFFICES ASSUME ~LateDefinitions PROVE Spec => [](LInv /\ HInv)
  OBVIOUS
<1>1. Init => LInv /\ HInv
  BY SoundInit, LayoutInit DEF Init
<1>2. LInv /\ HInv /\ [Next]_vars => (LInv /\ HInv)'
  BY LayoutKept, SoundKept, StepOfClasses
<1>3. QED
  BY <1>1, <1>2, PTL DEF Spec

LEMMA CopiesProper ==
  ASSUME LInv, HInv, NEW x \in Copies PROVE x[1] \in Objects /\ x[2] \in Proper[x[1]]
<1>1. ASSUME NEW o \in Objects, o \in Live PROVE kernel[o] \in Proper[o]
  BY <1>1, FreshProper DEF HInv, KernelSound
<1>2. ASSUME NEW b \in Buffers, Busy(b)
      PROVE  /\ bufs[b].subject \in Objects /\ bufs[b].s \in Proper[bufs[b].subject]
             /\ bufs[b].object # NoObject =>
                  bufs[b].object \in Objects /\ bufs[b].o \in Proper[bufs[b].object]
  BY <1>2 DEF HInv, Sound, Live
<1>3. QED
  BY <1>1, <1>2 DEF Copies, Live

(* A word of an object's cinfo never holds another handler's pointer        *)
(* (PCINFO() of generic.c follows it without a check): requests find, clone *)
(* and enter nodes only where the word is their tree's own.                 *)
THEOREM PointersStayHome == ~LateDefinitions => (Spec => []NodesInPlace)
<1> SUFFICES ASSUME ~LateDefinitions PROVE Spec => []NodesInPlace
  OBVIOUS
<1>1. LInv /\ HInv => NodesInPlace
  BY CopiesProper DEF NodesInPlace, Proper, InPlace
<1>2. QED
  BY <1>1, AlwaysSound, PTL

(* Whoever reads an object's spaces or watched events reads those of its    *)
(* nodes: object_do_sethandler() follows every change of the cinfo.         *)
THEOREM SetsFollowNodes == ~LateDefinitions => (Spec => []SetsMatchNodes)
<1> SUFFICES ASSUME ~LateDefinitions PROVE Spec => []SetsMatchNodes
  OBVIOUS
<1>1. LInv /\ HInv => SetsMatchNodes
  BY CopiesProper DEF SetsMatchNodes, Proper, SpacesMatch, EventsMatch
<1>2. QED
  BY <1>1, AlwaysSound, PTL

-----------------------------------------------------------------------------
(* Where a request is on its way depends only on the words of its own       *)
(* objects.                                                                 *)
LEMMA SameWay ==
  ASSUME NEW r \in Sound, NEW h \in HandlersOf(r.subject),
         Slot(r.subject, h)' = Slot(r.subject, h), Struct(r.subject)' = Struct(r.subject),
         r.object # NoObject => Struct(r.object)' = Struct(r.object),
         r.object # NoObject /\ Struct(r.object) = Struct(r.subject) =>
           Slot(r.object, h)' = Slot(r.object, h)
  PROVE  Stepping(r, h)' <=> Stepping(r, h)
<1>1. /\ Node(r.subject, r.s, h)' = Node(r.subject, r.s, h)
      /\ Node(r.subject, r.start, h)' = Node(r.subject, r.start, h)
  BY DEF Node
<1>2. StartOf(r, h)' = StartOf(r, h)
  BY DEF StartOf, Node
<1>3. Begins(r, h)' = Begins(r, h)
  BY <1>1, <1>2 DEF Begins
<1>4. Below(r, h)' = Below(r, h)
  BY <1>3 DEF Below
<1>5. Met(r, h)' <=> Met(r, h)
  BY DEF Met
<1>6. QED
  BY <1>1, <1>3, <1>4, <1>5 DEF Stepping

LEMMA TrackedSame == ASSUME UNCHANGED cvars PROVE Tracked' = Tracked
<1>1. Sound' = Sound
  BY SoundSame
<1>2. ASSUME NEW r \in Sound, NEW h \in HandlersOf(r.subject)
      PROVE  Stepping(r, h)' <=> Stepping(r, h)
  BY SameWay DEF cvars, Slot, Struct
<1>3. QED
  BY <1>1, <1>2 DEF Tracked, HandlersOf

LEMMA TrackedSettled ==
  ASSUME ~LateDefinitions, LInv, [CNext]_cvars PROVE Tracked \subseteq Tracked'
<1>1. ASSUME NEW r \in Tracked, NEW h \in HandlersOf(r.subject)
      PROVE  Stepping(r, h)' <=> Stepping(r, h)
  <2>1. r \in Sound /\ r.subject \in Live /\ (r.object # NoObject => r.object \in Live)
    BY DEF Tracked, Sound
  <2>2. /\ Slot(r.subject, h)' = Slot(r.subject, h) /\ Struct(r.subject)' = Struct(r.subject)
        /\ r.object # NoObject => Struct(r.object)' = Struct(r.object)
    BY <2>1, LiveSettled
  <2>3. ASSUME r.object # NoObject, Struct(r.object) = Struct(r.subject)
        PROVE  Slot(r.object, h)' = Slot(r.object, h)
    <3>1. ASSUME NEW x \in Live
          PROVE  /\ ObjConn[x] \in Conns /\ ObjClass[x] \in ClassNames
                 /\ structs[ObjConn[x]][Struct(x)].def.name = ObjClass[x]
      BY HierarchyAssumption DEF LInv, Named, Live, Struct
    <3>2. ObjClass[r.object] = ObjClass[r.subject]
      BY <2>1, <2>3, <3>1 DEF Sound
    <3>3. h \in HandlersOf(r.object)
      BY <3>2 DEF HandlersOf
    <3>4. QED
      BY <2>1, <2>3, <3>3, LiveSettled
  <2>4. QED
    BY <2>1, <2>2, <2>3, SameWay
<1>2. QED
  BY <1>1, SoundSettled DEF Tracked, HandlersOf

LEMMA WayKept == ASSUME NEW r, NEW q, NoEnter(r, q), NEW h
                 PROVE  Begins(q, h) = Begins(r, h) /\ Below(q, h) = Below(r, h)
<1>1. StartOf(q, h) = StartOf(r, h)
  BY DEF NoEnter, SameRequest, StartOf
<1>2. Begins(q, h) = Begins(r, h)
  BY <1>1 DEF NoEnter, SameRequest, Begins
<1>3. QED
  BY <1>2 DEF Below

LEMMA StillTracked ==
  ASSUME NEW r \in Tracked, NEW q \in Sound, NoEnter(r, q),
         q.list \in {"VS_ALLOW"} \cup NotifyLists, q.list = "NOTIFY_ALLOW" => q.allowed,
         \A h \in HandlersOf(r.subject) : Stepping(r, h) => Stepping(q, h)
  PROVE  q \in Tracked
BY DEF Tracked, NoEnter, SameRequest

LEMMA SameWayOn ==
  ASSUME NEW r, NEW q, NoEnter(r, q), SameNodes(r, q), q.var = r.var, q.list = r.list,
         NEW h \in HandlersOf(r.subject), Stepping(r, h), Met(q, h) => Met(r, h)
  PROVE  Stepping(q, h)
<1>1. Begins(q, h) = Begins(r, h) /\ Below(q, h) = Below(r, h)
  BY WayKept
<1>2. q.subject = r.subject /\ q.event = r.event /\ Node(r.subject, q.s, h) = Node(r.subject, r.s, h)
  BY DEF NoEnter, SameRequest, SameNodes
<1>3. QED
  BY <1>1, <1>2 DEF Stepping

LEMMA BeginTracked ==
  ASSUME LInv, HInv, NEW b \in Buffers, bufs[b] \in Tracked, Begin(b) PROVE bufs'[b] \in Tracked
<1> DEFINE r == bufs[b]
           q == bufs'[b]
<1>1. /\ q \in Sound /\ NoEnter(r, q) /\ SameNodes(r, q)
      /\ q.list = r.list /\ q.var = r.var /\ q.allowed = r.allowed /\ r.pos = 0 /\ q.pos = 1
  BY BeginStep
<1>2. ASSUME NEW h PROVE Met(q, h) => Met(r, h)
  <2>1. ~\E i \in DOMAIN HandlerOrder : i < q.pos
    BY <1>1, ClassesAssumption
  <2>2. QED
    BY <1>1, <2>1 DEF Met, NoEnter, SameRequest
<1>3. QED
  BY <1>1, <1>2, SameWayOn, StillTracked DEF Tracked

(* A hook that finds the subject without a node puts it where its way       *)
(* begins.                                                                  *)
LEMMA LocatedWay ==
  ASSUME NEW b, NEW q, bufs[b].list = "VS_ALLOW", NoEnter(bufs[b], q), HookLocates(b, q),
         NEW k \in HandlersOf(bufs[b].subject), Stepping(bufs[b], k)
  PROVE  /\ Node(q.subject, q.s, k) \in Begins(q, k)
         /\ k = Hook(b) => Node(q.subject, q.s, k) \in Begins(q, k) \ {NoNode}
<1> DEFINE r == bufs[b]
<1>1. Begins(q, k) = Begins(r, k) /\ q.subject = r.subject
  BY WayKept DEF NoEnter, SameRequest
<1>2. Node(r.subject, r.s, k) \in Begins(r, k)
  BY DEF Stepping
<1>3. Node(r.subject, r.s, k) = NoNode => StartOf(r, k) \in Begins(r, k)
  BY <1>2 DEF Begins
<1>4. Node(r.subject, q.s, k) \in Begins(r, k)
  BY <1>2, <1>3 DEF HookLocates
<1>5. k = Hook(b) => Node(r.subject, q.s, k) # NoNode
  BY HierarchyAssumption DEF HookLocates
<1>6. QED
  BY <1>1, <1>4, <1>5

LEMMA ParksTracked ==
  ASSUME LInv, HInv, NEW b \in Buffers, bufs[b] \in Tracked, DecideParks(b)
  PROVE  bufs'[b] \in Tracked
<1> DEFINE r == bufs[b]
           q == bufs'[b]
<1>1. /\ q \in Sound /\ NoEnter(r, q) /\ HookLocates(b, q)
      /\ q.list = r.list /\ q.var = r.var /\ q.allowed = r.allowed /\ q.pos = r.pos
      /\ r.list = "VS_ALLOW"
  BY ParksStep DEF DecideParks, Deciding
<1>2. ASSUME NEW h \in HandlersOf(r.subject), Stepping(r, h) PROVE Stepping(q, h)
  <2>1. Node(q.subject, q.s, h) \in Begins(q, h)
    BY <1>1, <1>2, LocatedWay
  <2>2. Begins(q, h) = Begins(r, h) /\ Below(q, h) = Below(r, h)
    BY <1>1, WayKept
  <2>3. Met(q, h) => Met(r, h)
    BY <1>1 DEF Met, NoEnter, SameRequest
  <2>4. QED
    BY <1>1, <1>2, <2>1, <2>2, <2>3 DEF Stepping
<1>3. QED
  BY <1>1, <1>2, StillTracked DEF Tracked

(* The node a hook settled on is in reach; the hooks between the last one   *)
(* and this are of other access types.                                      *)
LEMMA DecidedTracked ==
  ASSUME LInv, HInv, NEW b \in Buffers, bufs[b] \in Tracked, Deciding(b), NEW q \in Sound,
         NoEnter(bufs[b], q), HookLocates(b, q),
         q.list = bufs[b].list, q.allowed = bufs[b].allowed, q.pos = HookPos(b) + 1,
         NEW n, n \in Children[Node(q.subject, q.s, Hook(b))] \cup {Node(q.subject, q.s, Hook(b))},
         \A k \in Handlers : q.var[k] = IF k = Hook(b) THEN n ELSE bufs[b].var[k]
  PROVE  q \in Tracked
<1> DEFINE r == bufs[b]
<1>1. r.list = "VS_ALLOW" /\ r.pos \in Nat /\ AtHook(b)
  BY DEF Deciding, Tracked, Sound, Requested
<1>2. HookPos(b) \in Nat /\ \A j \in ToCome(b) : HookPos(b) <= j
  BY <1>1, NextHook
<1>3. ASSUME NEW h \in HandlersOf(r.subject), Stepping(r, h) PROVE Stepping(q, h)
  <2>1. /\ Node(q.subject, q.s, h) \in Begins(q, h)
        /\ h = Hook(b) => Node(q.subject, q.s, h) \in Begins(q, h) \ {NoNode}
    BY <1>1, <1>3, LocatedWay
  <2>2. Begins(q, h) = Begins(r, h) /\ Below(q, h) = Below(r, h)
    BY WayKept
  <2>3. CASE h = Hook(b)
    <3>1. q.var[h] = n
      BY <2>3 DEF HandlersOf
    <3>2. n \in (Begins(q, h) \ {NoNode}) \cup Below(q, h)
      BY <2>1, <2>3 DEF Below
    <3>3. QED
      BY <2>1, <3>1, <3>2 DEF Stepping
  <2>4. CASE h # Hook(b)
    <3>1. q.var[h] = r.var[h]
      BY <2>4 DEF HandlersOf
    <3>2. ASSUME Met(q, h) PROVE Met(r, h)
      <4>1. HandlerEvent[h] = r.event
        BY <3>2 DEF Met, NoEnter, SameRequest
      <4>2. PICK i \in DOMAIN HandlerOrder : i < HookPos(b) + 1 /\ HandlerOrder[i] = h
        BY <1>1, <3>2 DEF Met
      <4>3. i \in Nat /\ i # HookPos(b)
        BY <2>4, <4>2, ClassesAssumption DEF Hook
      <4>4. ~(HookPos(b) <= i)
        BY <1>2, <4>2, <4>3
      <4>5. i \notin ToCome(b)
        BY <1>2, <4>4
      <4>6. ~(i >= r.pos)
        BY <4>1, <4>2, <4>5 DEF ToCome
      <4>7. i < r.pos
        BY <1>1, <4>3, <4>6
      <4>8. QED
        BY <1>1, <4>1, <4>2, <4>7 DEF Met
    <3>3. QED
      BY <1>3, <2>1, <2>2, <3>1, <3>2 DEF Stepping
  <2>5. QED
    BY <2>3, <2>4
<1>4. QED
  BY <1>1, <1>3, StillTracked DEF Tracked

LEMMA FoundTracked ==
  ASSUME LInv, HInv, NEW b \in Buffers, bufs[b] \in Tracked, DecideFound(b)
  PROVE  bufs'[b] \in Tracked
<1>1. Deciding(b)
  BY DEF DecideFound
<1>2. QED
  BY <1>1, FoundStep, DecidedTracked DEF NoEnter, SameRequest

LEMMA MissingTracked ==
  ASSUME LInv, HInv, NEW b \in Buffers, bufs[b] \in Tracked, DecideMissing(b)
  PROVE  bufs'[b] \in Tracked
<1>1. Deciding(b)
  BY DEF DecideMissing
<1>2. QED
  BY <1>1, MissingStep, DecidedTracked DEF NoEnter, SameRequest

(* Once no hook of the access type is left all its trees have settled on a  *)
(* node.                                                                    *)
LEMMA ToNotifyTracked ==
  ASSUME LInv, HInv, NEW b \in Buffers, bufs[b] \in Tracked, ToNotify(b)
  PROVE  bufs'[b] \in Tracked
<1> DEFINE r == bufs[b]
           q == bufs'[b]
<1>1. /\ q \in Sound /\ NoEnter(r, q) /\ SameNodes(r, q) /\ q.var = r.var
      /\ r.list = "VS_ALLOW" /\ ~AtHook(b)
      /\ q.list \in NotifyLists /\ (q.list = "NOTIFY_ALLOW" => q.allowed)
  BY ToNotifyStep
<1>2. r.pos \in Nat
  BY DEF Tracked, Sound, Requested
<1>3. ASSUME NEW h \in HandlersOf(r.subject), Stepping(r, h) PROVE Stepping(q, h)
  <2>1. Begins(q, h) = Begins(r, h) /\ Below(q, h) = Below(r, h)
    BY <1>1, WayKept
  <2>2. Node(q.subject, q.s, h) \in Begins(q, h)
    BY <1>1, <1>3, <2>1 DEF Stepping, SameNodes, NoEnter, SameRequest
  <2>3. ASSUME Met(q, h) PROVE Met(r, h)
    <3>1. HandlerEvent[h] = r.event
      BY <1>1, <2>3 DEF Met, NoEnter, SameRequest
    <3>2. PICK i \in DOMAIN HandlerOrder : HandlerOrder[i] = h
      BY ClassesAssumption DEF HandlersOf
    <3>3. ~(i >= r.pos)
      BY <1>1, <3>1, <3>2 DEF AtHook, ToCome
    <3>4. i < r.pos
      BY <1>2, <3>2, <3>3, ClassesAssumption
    <3>5. QED
      BY <1>1, <3>1, <3>2, <3>4 DEF Met
  <2>4. QED
    BY <1>1, <1>3, <2>1, <2>2, <2>3 DEF Stepping
<1>4. QED
  BY <1>1, <1>3, StillTracked

LEMMA NotifyTracked ==
  ASSUME LInv, HInv, NEW b \in Buffers, bufs[b] \in Tracked, Notify(b)
  PROVE  bufs'[b] \in Tracked
<1> DEFINE r == bufs[b]
           q == bufs'[b]
<1>1. /\ q \in Sound /\ NoEnter(r, q) /\ q.var = r.var
      /\ q.list = r.list /\ r.list = "NOTIFY_ALLOW" /\ q.allowed = r.allowed
      /\ HandlerEvent[Hook(b)] = r.event
      /\ \A k \in HandlersOf(r.subject) :
           Node(r.subject, q.s, k) = IF k = Hook(b) THEN r.var[k] ELSE Node(r.subject, r.s, k)
  BY NotifyStep
<1>2. ASSUME NEW h \in HandlersOf(r.subject), Stepping(r, h) PROVE Stepping(q, h)
  <2>1. /\ Begins(q, h) = Begins(r, h) /\ Below(q, h) = Below(r, h)
        /\ q.subject = r.subject /\ q.event = r.event
    BY <1>1, WayKept DEF NoEnter, SameRequest
  <2>2. Met(q, h) <=> Met(r, h)
    BY <1>1, <2>1 DEF Met
  <2>3. CASE h = Hook(b)
    <3>1. r.var[h] \in (Begins(r, h) \ {NoNode}) \cup Below(r, h)
      BY <1>1, <1>2, <2>3 DEF Stepping, Met
    <3>2. QED
      BY <1>1, <2>1, <2>3, <3>1 DEF Stepping
  <2>4. CASE h # Hook(b)
    BY <1>1, <1>2, <2>1, <2>2, <2>4 DEF Stepping
  <2>5. QED
    BY <2>3, <2>4
<1>3. QED
  BY <1>1, <1>2, StillTracked DEF Tracked

LEMMA SaysTracked ==
  ASSUME LInv, HInv, NEW b \in Buffers, bufs[b] \in Tracked, UserSays(b)
  PROVE  bufs'[b] \in Tracked
<1> DEFINE r == bufs[b]
           q == bufs'[b]
<1>1. /\ q \in Sound /\ NoEnter(r, q) /\ SameNodes(r, q) /\ q.var = r.var
      /\ q.list = r.list /\ q.allowed = r.allowed /\ q.pos = r.pos
  BY SaysStep
<1>2. ASSUME NEW h PROVE Met(q, h) => Met(r, h)
  BY <1>1 DEF Met, NoEnter, SameRequest
<1>3. QED
  BY <1>1, <1>2, SameWayOn, StillTracked DEF Tracked

LEMMA EntersTracked ==
  ASSUME LInv, HInv, NEW b \in Buffers, bufs[b] \in Tracked, UserEnters(b)
  PROVE  bufs'[b] \in Tracked
<1>1. bufs'[b] \in Sound /\ bufs'[b].enters # 0
      /\ bufs'[b].list = bufs[b].list /\ bufs'[b].allowed = bufs[b].allowed
  <2>1. bufs'[b] \in Sound /\ bufs'[b].enters > 0
        /\ bufs'[b].list = bufs[b].list /\ bufs'[b].allowed = bufs[b].allowed
    BY EntersStep
  <2>2. QED
    BY <2>1
<1>2. QED
  BY <1>1 DEF Tracked

LEMMA RequestTracked ==
  ASSUME LInv, HInv, NEW b \in Buffers, NEW c \in Conns, NEW ev \in EventNames,
         NEW s \in Objects, NEW o \in Objects \cup {NoObject}, Request(b, c, ev, s, o)
  PROVE  bufs'[b] \in Tracked /\ \A d \in Buffers : d # b => bufs'[d] = bufs[d]
<1> DEFINE q == bufs'[b]
<1>1. /\ q.subject = s /\ q.s = q.start /\ q.list = "VS_ALLOW" /\ q.pos = 0
      /\ \A d \in Buffers : d # b => bufs'[d] = bufs[d]
  BY DEF Request, HInv
<1>2. q \in Sound
  BY RequestSound
<1>3. ASSUME NEW h PROVE Stepping(q, h)
  <2>1. ~\E i \in DOMAIN HandlerOrder : i < q.pos
    BY <1>1, ClassesAssumption
  <2>2. ~Met(q, h)
    BY <1>1, <2>1 DEF Met
  <2>3. Node(q.subject, q.s, h) \in Begins(q, h)
    BY <1>1 DEF Begins
  <2>4. QED
    BY <2>2, <2>3 DEF Stepping
<1>4. QED
  BY <1>1, <1>2, <1>3 DEF Tracked

LEMMA TrackedInit == Init => SInv
BY DEF Init, SInv, Busy

LEMMA TrackedKept == ~LateDefinitions /\ LInv /\ HInv /\ SInv /\ [Next]_vars => SInv'
<1> SUFFICES ASSUME ~LateDefinitions, LInv, HInv, SInv, [Next]_vars PROVE SInv'
  OBVIOUS
<1>1. CASE CNext /\ UNCHANGED hvars
  <2>1. UNCHANGED bufs
    BY <1>1 DEF hvars
  <2>2. QED
    BY <1>1, <2>1, TrackedSettled DEF SInv, Busy
<1>2. ASSUME NEW b \in Buffers, NEW c \in Conns, NEW ev \in EventNames,
             NEW s \in Objects, NEW o \in Objects \cup {NoObject}, Request(b, c, ev, s, o)
      PROVE  SInv'
  <2>1. bufs'[b] \in Tracked /\ \A d \in Buffers : d # b => bufs'[d] = bufs[d]
    BY <1>2, RequestTracked
  <2>2. UNCHANGED cvars
    BY <1>2 DEF Request
  <2>3. QED
    BY <2>1, <2>2, TrackedSame DEF SInv, Busy
<1>3. ASSUME NEW b \in Buffers, Work(b) PROVE SInv'
  <2>1. Busy(b) /\ bufs[b] \in Tracked
    BY <1>3 DEF Work, Begin, DecideParks, DecideFound, DecideMissing, Deciding, ToNotify, Notify,
                UserSays, UserEnters, Answer, Walking, SInv
  <2>2. bufs'[b] = Idle \/ bufs'[b] \in Tracked
    <3>1. CASE Answer(b)
      BY <3>1 DEF Answer, HInv
    <3>2. CASE ~Answer(b)
      BY <1>3, <2>1, <3>2, BeginTracked, ParksTracked, FoundTracked, MissingTracked,
         ToNotifyTracked, NotifyTracked, SaysTracked, EntersTracked DEF Work
    <3>3. QED
      BY <3>1, <3>2
  <2>3. \A d \in Buffers : d # b => bufs'[d] = bufs[d]
    <3>1. CASE Answer(b)
      BY <3>1 DEF Answer, HInv
    <3>2. CASE ~Answer(b)
      <4>1. Set(b, bufs'[b])
        BY <1>3, <3>2, BeginStep, ParksStep, FoundStep, MissingStep,
           ToNotifyStep, NotifyStep, SaysStep, EntersStep DEF Work
      <4>2. QED
        BY <4>1 DEF Set, HInv
    <3>3. QED
      BY <3>1, <3>2
  <2>4. Tracked' = Tracked
    BY <1>3, WorkKeepsLayout, TrackedSame
  <2>5. QED
    BY <2>2, <2>3, <2>4 DEF SInv, Busy
<1>4. CASE UNCHANGED vars
  <2>1. UNCHANGED cvars /\ UNCHANGED bufs
    BY <1>4 DEF vars, hvars
  <2>2. QED
    BY <2>1, TrackedSame DEF SInv, Busy
<1>5. QED
  BY <1>1, <1>2, <1>3, <1>4 DEF Next

LEMMA TrackedStepsDown == LInv /\ HInv /\ SInv => StepsDown
<1> SUFFICES ASSUME SInv, NEW b \in Buffers, Busy(b), bufs[b].enters = 0,
                    NEW h \in HandlersOf(bufs[b].subject)
             PROVE  LET r == bufs[b]
                        old == Node(r.subject, r.start, h)
                        begin == IF old # NoNode THEN {old} ELSE {NoNode, Root[h], StartNode(b, h)}
                    IN  \/ Node(r.subject, r.s, h) \in begin
                        \/ /\ r.allowed /\ HandlerEvent[h] = r.event
                           /\ \E n \in begin \ {NoNode} : Node(r.subject, r.s, h) \in Children[n]
  BY DEF StepsDown
<1> DEFINE r == bufs[b]
<1>1. Stepping(r, h) /\ (r.list = "NOTIFY_ALLOW" => r.allowed)
  BY DEF SInv, Tracked
<1>2. StartNode(b, h) = StartOf(r, h)
  BY DEF StartNode, StartOf
<1>3. QED
  BY <1>1, <1>2 DEF Stepping, Begins, Below

(* The walk over the trees never takes a subject further than its request   *)
(* was allowed to: one step down in the trees of the access type, and no    *)
(* step when it was denied (generic_hierarchy_handler_decide() and          *)
(* _notify(), do_event()).                                                  *)
THEOREM OneStepAtATime == ~LateDefinitions => (Spec => []StepsDown)
<1> SUFFICES ASSUME ~LateDefinitions PROVE Spec => []StepsDown
  OBVIOUS
<1>1. Spec => [](LInv /\ HInv)
  BY AlwaysSound
<1>2. Init => SInv
  BY TrackedInit
<1>3. LInv /\ HInv /\ SInv /\ [Next]_vars => SInv'
  BY TrackedKept
<1>4. LInv /\ HInv /\ SInv => StepsDown
  BY TrackedStepsDown
<1>5. QED
  BY <1>1, <1>2, <1>3, <1>4, PTL DEF Spec

=============================================================================
