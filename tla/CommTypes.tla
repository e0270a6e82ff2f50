----------------------------- MODULE CommTypes ------------------------------
(***************************************************************************)
(* What the variables of Comm hold, and that every action keeps to it, for *)
(* any number of connections, workers, requests and buffers, and kernels   *)
(* that break the protocol or hang up.  A worker asks a kernel only for a  *)
(* buffer of some connection: that a buffer a worker has is never one that *)
(* was given back is shown in CommOwnership.                               *)
(***************************************************************************)
EXTENDS Comm, SequenceTheorems, FiniteSetTheorems, WellFoundedInduction, TLAPS

-----------------------------------------------------------------------------
(* What the variables hold. *)

Ops == [comm : Conns, kind : Kinds, seq : Nat]

Messages ==
  {None} \cup Ops \cup [kind : {"ready"}]
    \cup [kind : {"answer"}, req : Requests \cup {None},
          verdict : Verdicts \cup {None}]

(* do_phase while a handler runs or the subject is sent back; and always.  *)
Resumes == {1, 1003}
Phases  == {0, 1000} \cup Resumes

Contents ==
  [comm : Conns \cup {None}, open : Int, phase : Phases,
   init : BOOLEAN, req : Requests \cup {None}, verdict : Verdicts \cup {None},
   to_wake : Seq(Buffers), ops : Nat,
   waiting : [to : Kinds \cup {None}, seq : Nat], op : Ops \cup {None},
   user_data : {"error", "ok", None}, lock : Workers \cup {None},
   room : BOOLEAN, msg : Messages]

Memory == [slot0 : Seq(Buffers), slot1 : Seq(Buffers), heap : SUBSET Buffers]

Connections ==
  [state : {0, 1}, init_buffer : Buffers \cup {None}, fd : BOOLEAN, open : Int,
   version : Nat, function_init : BOOLEAN]

Answers == [op : Messages, outcome : {"ok", "error"}]

ReaderPcs ==
  Owning \cup {"get", "check", "close again", "closing again", "dead"}

WorkerPcs == {"idle", "got", "free", "initfree", "initclear", "send", "park"}

WriterPcs == {"wait", "take", "free", "close", "closing", "dead"}

Readers ==
  [pc : ReaderPcs, b : Buffers \cup {None}, p : Buffers \cup {None},
   msg : {None} \cup Requests \cup Answers]

WorkersAt ==
  [pc : WorkerPcs, b : Buffers \cup {None}, r : Buffers \cup {None},
   phase : {0} \cup Resumes]

Queues == [Conns -> Seq(Buffers)]

BufOK    == buf \in [Buffers -> Contents]
MemOK    == mem \in Memory
TodoOK   == todo \in Seq(Buffers)
ConnOK   == conn \in [Conns -> Connections]
OutputOK == output \in Queues
SemOK    == output_sem \in [Conns -> Int]
WaitOK   == wait \in Queues
IdsOK    == ids \in [Kinds -> Nat]
LockOK   == state_lock \in [Conns -> Conns \cup Workers \cup {None}]
AskedOK  == asked \subseteq Messages

ReaderOK ==
  /\ reader \in [Conns -> Readers]
  /\ \A c \in Conns :
       /\ reader[c].pc \in Owning => reader[c].b \in Buffers
       /\ reader[c].pc = "body" => reader[c].p \in Buffers
       /\ reader[c].pc = "query" => reader[c].msg \in Requests
       /\ reader[c].pc = "answer" => reader[c].msg \in Answers

WorkerOK ==
  /\ worker \in [Workers -> WorkersAt]
  /\ \A w \in Workers :
       /\ worker[w].pc \in {"got", "free", "initfree", "send", "park"}
            => worker[w].b \in Buffers
       /\ worker[w].pc = "send" => worker[w].r \in Buffers
       /\ worker[w].pc \in {"send", "park"} => worker[w].phase \in Resumes

WriterOK ==
  /\ writer \in [Conns -> [pc : WriterPcs, b : Buffers \cup {None}]]
  /\ \A c \in Conns : writer[c].pc = "free" => writer[c].b \in Buffers

(* Type correctness. *)
TypeOK ==
  /\ BufOK /\ MemOK /\ TodoOK /\ ConnOK /\ LockOK
  /\ OutputOK /\ SemOK /\ WaitOK /\ IdsOK /\ AskedOK
  /\ ReaderOK /\ WorkerOK /\ WriterOK

-----------------------------------------------------------------------------
(* The operators on buffers keep to these types. *)

LEMMA BlankOK == Blank \in Contents
<1>1. <<>> \in Seq(Buffers)
  OBVIOUS
<1>2. QED
  BY <1>1 DEF Blank, Contents, Messages, Phases

LEMMA ForOK == ASSUME ConnOK, NEW c \in Conns PROVE For(c) \in Contents
<1>1. conn[c].open \in Int
  BY DEF ConnOK, Connections
<1>2. <<>> \in Seq(Buffers)
  OBVIOUS
<1>3. QED
  BY <1>1, <1>2 DEF For, Blank, Contents, Messages, Phases

(* One field changes. *)
LEMMA PhaseSet ==
  ASSUME NEW x \in Contents, NEW y \in Phases
  PROVE  [x EXCEPT !.phase = y] \in Contents
BY DEF Contents

LEMMA InitSet ==
  ASSUME NEW x \in Contents, NEW y \in BOOLEAN
  PROVE  [x EXCEPT !.init = y] \in Contents
BY DEF Contents

LEMMA ReqSet ==
  ASSUME NEW x \in Contents, NEW y \in Requests \cup {None}
  PROVE  [x EXCEPT !.req = y] \in Contents
BY DEF Contents

LEMMA VerdictSet ==
  ASSUME NEW x \in Contents, NEW y \in Verdicts \cup {None}
  PROVE  [x EXCEPT !.verdict = y] \in Contents
BY DEF Contents

LEMMA ToWakeSet ==
  ASSUME NEW x \in Contents, NEW y \in Seq(Buffers)
  PROVE  [x EXCEPT !.to_wake = y] \in Contents
BY DEF Contents

LEMMA OpsSet ==
  ASSUME NEW x \in Contents, NEW y \in Nat
  PROVE  [x EXCEPT !.ops = y] \in Contents
BY DEF Contents

LEMMA WaitingSet ==
  ASSUME NEW x \in Contents, NEW y \in [to : Kinds \cup {None}, seq : Nat]
  PROVE  [x EXCEPT !.waiting = y] \in Contents
BY DEF Contents

LEMMA OpSet ==
  ASSUME NEW x \in Contents, NEW y \in Ops \cup {None}
  PROVE  [x EXCEPT !.op = y] \in Contents
BY DEF Contents

LEMMA UserDataSet ==
  ASSUME NEW x \in Contents, NEW y \in {"error", "ok", None}
  PROVE  [x EXCEPT !.user_data = y] \in Contents
BY DEF Contents

LEMMA LockSet ==
  ASSUME NEW x \in Contents, NEW y \in Workers \cup {None}
  PROVE  [x EXCEPT !.lock = y] \in Contents
BY DEF Contents

LEMMA RoomSet ==
  ASSUME NEW x \in Contents, NEW y \in BOOLEAN
  PROVE  [x EXCEPT !.room = y] \in Contents
BY DEF Contents

LEMMA MsgSet ==
  ASSUME NEW x \in Contents, NEW y \in Messages
  PROVE  [x EXCEPT !.msg = y] \in Contents
BY DEF Contents

LEMMA OutgoingOK ==
  ASSUME ConnOK, NEW c \in Conns, NEW m \in Messages PROVE Outgoing(c, m) \in Contents
BY ForOK, MsgSet DEF Outgoing

LEMMA TakenOK ==
  ASSUME NEW m \in Memory, Available(m)
  PROVE  Fresh(m) \in Buffers /\ Taken(m) \in Memory
<1>0. ASSUME NEW q \in Seq(Buffers), q # <<>>
      PROVE  Head(q) \in Buffers /\ Tail(q) \in Seq(Buffers)
  BY <1>0
<1>1. CASE m.slot0 # <<>>
  BY <1>0, <1>1 DEF Fresh, Taken, Memory
<1>2. CASE m.slot0 = <<>> /\ m.slot1 # <<>>
  BY <1>0, <1>2 DEF Fresh, Taken, Memory
<1>3. CASE m.slot0 = <<>> /\ m.slot1 = <<>> /\ m.heap # {}
  BY <1>3 DEF Fresh, Taken, Memory
<1>4. QED
  BY <1>1, <1>2, <1>3 DEF Available

LEMMA EnqueuedOK ==
  ASSUME NEW q \in Queues, NEW c, NEW b \in Buffers
  PROVE  [q EXCEPT ![c] = comm_buf_to_queue(@, b)] \in Queues
<1>1. \A x \in Conns : Append(q[x], b) \in Seq(Buffers)
  BY DEF Queues
<1>2. QED
  BY <1>1 DEF Queues, comm_buf_to_queue

LEMMA DequeuedOK ==
  ASSUME NEW q \in Queues, NEW c \in Conns, q[c] # <<>>
  PROVE  /\ Head(q[c]) \in Buffers
         /\ [q EXCEPT ![c] = comm_buf_from_queue(@)] \in Queues
<1>1. q[c] \in Seq(Buffers)
  BY DEF Queues
<1>2. Head(q[c]) \in Buffers /\ Tail(q[c]) \in Seq(Buffers)
  BY <1>1
<1>3. QED
  BY <1>2 DEF Queues, comm_buf_from_queue

LEMMA PutOK ==
  ASSUME NEW m \in Memory, NEW b \in Buffers PROVE Put(m, b) \in Memory
<1>1. <<b>> \o m.slot0 \in Seq(Buffers) /\ <<b>> \o m.slot1 \in Seq(Buffers)
  BY DEF Memory
<1>2. QED
  BY <1>1 DEF Put, Memory

(* comm_buf_free() *)
LEMMA FreeOK ==
  ASSUME NEW b \in Buffers, NEW bufs \in [Buffers -> Contents], NEW m \in Memory,
         NEW out \in Queues, Free(b, bufs, m, out), TypeOK,
         bufs[b].comm = buf[b].comm
  PROVE  TodoOK' /\ MemOK' /\ BufOK' /\ OutputOK' /\ SemOK'
<1>1. bufs[b].to_wake \in Seq(Buffers) /\ bufs[b].comm \in Conns \cup {None}
  BY DEF Contents
<1>2. TodoOK'
  BY <1>1 DEF Free, TodoOK, TypeOK
<1>3. CASE SendsReady(b)
  <2> DEFINE c == bufs[b].comm
             r == Fresh(m)
             o == Outgoing(c, [kind |-> "ready"])
  <2>1. r \in Buffers /\ Taken(m) \in Memory
    BY <1>3, TakenOK DEF Free
  <2>2. MemOK'
    BY <2>1, <1>3, PutOK DEF Free, MemOK
  <2>3. o \in Contents
    <3>1. c \in Conns
      BY <1>1, <1>3 DEF SendsReady
    <3>2. [kind |-> "ready"] \in Messages
      BY DEF Messages
    <3>3. QED
      BY <3>1, <3>2, OutgoingOK DEF TypeOK
  <2>4. BufOK'
    BY <2>1, <2>3, <1>3, BlankOK DEF Free, BufOK
  <2>5. OutputOK'
    <3>1. output' = [out EXCEPT ![c] = comm_buf_to_queue(@, r)]
      BY <1>3 DEF Free
    <3>2. QED
      BY <2>1, <3>1, EnqueuedOK DEF OutputOK
  <2>6. SemOK'
    BY <1>3 DEF Free, SemOK, TypeOK
  <2>7. QED
    BY <1>2, <2>2, <2>4, <2>5, <2>6
<1>4. CASE ~SendsReady(b)
  <2>1. MemOK'
    BY <1>4, PutOK DEF Free, MemOK
  <2>2. BufOK'
    BY <1>4, BlankOK DEF Free, BufOK
  <2>3. OutputOK' /\ SemOK'
    BY <1>4 DEF Free, OutputOK, SemOK, TypeOK
  <2>4. QED
    BY <1>2, <2>1, <2>2, <2>3
<1>5. QED
  BY <1>3, <1>4

-----------------------------------------------------------------------------
(* Every action keeps to the types.                                        *)

LEMMA Kept ==
  /\ BufOK /\ UNCHANGED buf => BufOK'
  /\ MemOK /\ UNCHANGED mem => MemOK'
  /\ TodoOK /\ UNCHANGED todo => TodoOK'
  /\ ConnOK /\ UNCHANGED conn => ConnOK'
  /\ LockOK /\ UNCHANGED state_lock => LockOK'
  /\ OutputOK /\ UNCHANGED output => OutputOK'
  /\ SemOK /\ UNCHANGED output_sem => SemOK'
  /\ WaitOK /\ UNCHANGED wait => WaitOK'
  /\ IdsOK /\ UNCHANGED ids => IdsOK'
  /\ AskedOK /\ UNCHANGED asked => AskedOK'
  /\ ReaderOK /\ UNCHANGED reader => ReaderOK'
  /\ WorkerOK /\ UNCHANGED worker => WorkerOK'
  /\ WriterOK /\ UNCHANGED writer => WriterOK'
BY DEF BufOK, MemOK, TodoOK, ConnOK, LockOK, OutputOK, SemOK, WaitOK, IdsOK, AskedOK,
       ReaderOK, WorkerOK, WriterOK

(* A thread goes on.                                                       *)
ReaderFine(x) ==
  /\ x \in Readers
  /\ x.pc \in Owning => x.b \in Buffers
  /\ x.pc = "body" => x.p \in Buffers
  /\ x.pc = "query" => x.msg \in Requests
  /\ x.pc = "answer" => x.msg \in Answers

LEMMA ReaderSet ==
  ASSUME ReaderOK, NEW c \in Conns, NEW x, ReaderFine(x),
         reader' = [reader EXCEPT ![c] = x]
  PROVE  ReaderOK'
BY DEF ReaderOK, ReaderFine

(* It keeps its buffer, and goes where it needs no more than that.         *)
LEMMA ReaderMoves ==
  ASSUME ReaderOK, NEW c \in Conns, NEW pc \in ReaderPcs,
         pc \notin {"body", "query", "answer"},
         pc \in Owning => reader[c].pc \in Owning,
         reader' = [reader EXCEPT ![c].pc = pc]
  PROVE  ReaderOK'
<1> DEFINE x == [reader[c] EXCEPT !.pc = pc]
<1>1. ReaderFine(x)
  BY DEF ReaderOK, Readers, ReaderFine
<1>2. reader' = [reader EXCEPT ![c] = x]
  OBVIOUS
<1>3. QED
  BY <1>1, <1>2, ReaderSet

LEMMA ReadsTypes ==
  ASSUME TypeOK, NEW c \in Conns, ReaderAt(c, "recv"), NEW pc \in {"ready", "query", "answer"},
         NEW msg \in {None} \cup Requests \cup Answers,
         pc = "query" => msg \in Requests, pc = "answer" => msg \in Answers,
         Reads(c, pc, msg)
  PROVE  ReaderOK'
<1> DEFINE x == [reader[c] EXCEPT !.pc = pc, !.msg = msg]
<1>1. reader[c] \in Readers /\ reader[c].b \in Buffers
  BY DEF TypeOK, ReaderOK, ReaderAt, Owning
<1> HIDE DEF x
<1>a. x \in Readers /\ x.pc = pc /\ x.b = reader[c].b /\ x.msg = msg
  BY <1>1 DEF Readers, ReaderPcs, Owning, x
<1>b. ReaderFine(x)
  BY <1>1, <1>a DEF ReaderFine
<1>2. reader' = [reader EXCEPT ![c] = x]
  BY DEF Reads, x
<1>3. QED
  BY <1>b, <1>2, ReaderSet DEF TypeOK

LEMMA KernelTypes ==
  ASSUME TypeOK, NEW c \in Conns, KernelMoves(c) \/ ReadsAnswer(c)
  PROVE  TypeOK'
<1>1. CASE ReadsReadyRequest(c)
  <2>1. ReaderOK'
    BY <1>1, ReadsTypes DEF ReadsReadyRequest
  <2>2. QED
    BY <1>1, <2>1, Kept DEF ReadsReadyRequest, Reads, TypeOK, shared, kernel
<1>2. CASE ReadsQuery(c)
  <2>1. PICK r \in Requests : Reads(c, "query", r)
    BY <1>2 DEF ReadsQuery
  <2>2. ReaderOK'
    BY <1>2, <2>1, ReadsTypes DEF ReadsQuery
  <2>3. QED
    BY <1>2, <2>1, <2>2, Kept DEF ReadsQuery, Reads, TypeOK, shared
<1>3. CASE ReadsAnswer(c)
  <2>1. PICK o \in asked, out \in {"ok", "error"} :
          /\ asked' = asked \ {o}
          /\ Reads(c, "answer", [op |-> o, outcome |-> out])
    BY <1>3 DEF ReadsAnswer
  <2>2. AskedOK' /\ [op |-> o, outcome |-> out] \in Answers
    BY <2>1 DEF Answers, TypeOK, AskedOK
  <2>3. ReaderOK'
    BY <1>3, <2>1, <2>2, ReadsTypes DEF ReadsAnswer
  <2>4. QED
    BY <2>1, <2>2, <2>3, Kept DEF Reads, TypeOK, shared
<1>4. CASE ReadsStrayAnswer(c)
  <2>1. PICK k \in Kinds :
          Reads(c, "answer", [op |-> [comm |-> c, kind |-> k, seq |-> 1],
                              outcome |-> "ok"])
    BY <1>4 DEF ReadsStrayAnswer
  <2>2. [op |-> [comm |-> c, kind |-> k, seq |-> 1], outcome |-> "ok"] \in Answers
    BY DEF Answers, Messages, Ops
  <2>3. ReaderOK'
    BY <1>4, <2>1, <2>2, ReadsTypes DEF ReadsStrayAnswer
  <2>4. QED
    BY <1>4, <2>1, <2>3, Kept DEF ReadsStrayAnswer, Reads, TypeOK, shared, kernel
<1>5. CASE ReadFails(c)
  <2>1. reader' = [reader EXCEPT ![c].pc = "close"] /\ reader[c].pc \in Owning
    BY <1>5 DEF ReadFails, ReaderAt, Owning
  <2>2. ReaderOK'
    <3>1. "close" \in ReaderPcs /\ "close" \notin {"body", "query", "answer"}
      BY DEF ReaderPcs, Owning
    <3>2. QED
      BY <2>1, <3>1, ReaderMoves DEF TypeOK
  <2>3. ConnOK'
    BY <1>5 DEF ReadFails, Connections, ConnOK, TypeOK
  <2>4. QED
    BY <1>5, <2>2, <2>3, Kept DEF ReadFails, TypeOK, kernel
<1>6. QED
  BY <1>1, <1>2, <1>3, <1>4, <1>5 DEF KernelMoves

LEMMA EndsTypes ==
  ASSUME TypeOK, NEW how, Ends(how)
  PROVE  TypeOK'
BY Kept DEF Ends, TypeOK, shared, kernel

(* The first match is a match.                                             *)
LEMMA MatchFound ==
  ASSUME WaitOK, NEW c \in Conns, NEW op, Waiters(c, op) # {}
  PROVE  Match(c, op) \in Waiters(c, op)
<1>1. Waiters(c, op) \subseteq Nat
  <2>1. DOMAIN wait[c] = 1..Len(wait[c]) /\ Len(wait[c]) \in Nat
    BY LenProperties DEF WaitOK, Queues
  <2>2. QED
    BY <2>1 DEF Waiters
<1>2. \E x \in Waiters(c, op) : \A y \in Waiters(c, op) : ~(<<y, x>> \in OpToRel(<, Nat))
  BY <1>1, NatLessThanWellFounded, WFMin
<1>3. \E x \in Waiters(c, op) : \A y \in Waiters(c, op) : x <= y
  <2>1. \A x, y \in Nat : y < x => <<y, x>> \in OpToRel(<, Nat)
    BY DEF OpToRel
  <2>2. \A x, y \in Nat : ~(y < x) => x <= y
    OBVIOUS
  <2>3. QED
    BY <1>1, <1>2, <2>1, <2>2
<1>4. QED
  BY <1>3 DEF Match

LEMMA WithoutOK ==
  ASSUME NEW q \in Seq(Buffers), NEW i \in DOMAIN q
  PROVE  Without(q, i) \in Seq(Buffers) /\ Len(Without(q, i)) = Len(q) - 1
<1>1. Len(q) \in Nat /\ DOMAIN q = 1..Len(q)
  BY LenProperties
<1>2. Len(q) - 1 \in Nat
  BY <1>1
<1>3. \A j \in 1..(Len(q) - 1) : q[j] \in Buffers /\ q[j + 1] \in Buffers
  BY <1>1, ElementOfSeq
<1>4. QED
  BY <1>2, <1>3 DEF Without

LEMMA WaiterOK ==
  ASSUME WaitOK, NEW c \in Conns, NEW op, Waiters(c, op) # {}
  PROVE  /\ Waiter(c, op) \in Buffers
         /\ Match(c, op) \in DOMAIN wait[c]
         /\ NoLongerWaits(c, op) => WaitOK'
<1>1. Match(c, op) \in DOMAIN wait[c] /\ wait[c] \in Seq(Buffers)
  BY MatchFound DEF Waiters, WaitOK, Queues
<1>2. Waiter(c, op) \in Buffers
  BY <1>1, LenProperties, ElementOfSeq DEF Waiter
<1>3. Without(wait[c], Match(c, op)) \in Seq(Buffers)
  BY <1>1, WithoutOK
<1>4. NoLongerWaits(c, op) => WaitOK'
  BY <1>3 DEF NoLongerWaits, WaitOK, Queues
<1>5. QED
  BY <1>1, <1>2, <1>4

LEMMA WakeOK ==
  ASSUME TypeOK, NEW p \in Buffers, NEW out \in {"error", "ok"}, Wake(p, out)
  PROVE  BufOK' /\ TodoOK'
<1>1. TodoOK'
  BY DEF Wake, TodoOK, TypeOK, comm_buf_to_queue
<1> DEFINE q == [buf[p].waiting EXCEPT !.to = None]
<1>2. q \in [to : Kinds \cup {None}, seq : Nat] /\ buf[p] \in Contents
  <2>1. buf[p] \in Contents
    BY DEF TypeOK, BufOK
  <2>2. buf[p].waiting \in [to : Kinds \cup {None}, seq : Nat]
    BY <2>1 DEF Contents
  <2>3. QED
    BY <2>1, <2>2
<1>3. buf' = [buf EXCEPT ![p] = [buf[p] EXCEPT !.user_data = out, !.waiting = q]]
  BY DEF Wake
<1> HIDE DEF q
<1>4. [buf[p] EXCEPT !.user_data = out, !.waiting = q] \in Contents
  BY <1>2, UserDataSet, WaitingSet
<1>5. QED
  BY <1>1, <1>3, <1>4 DEF TypeOK, BufOK

(* A buffer is taken out of the pools and filled.                          *)
LEMMA FillOK ==
  ASSUME TypeOK, Available(mem), NEW x \in Contents,
         mem' = Taken(mem), buf' = [buf EXCEPT ![Fresh(mem)] = x]
  PROVE  MemOK' /\ BufOK'
<1>1. Fresh(mem) \in Buffers /\ Taken(mem) \in Memory
  BY TakenOK DEF TypeOK, MemOK
<1>2. QED
  BY <1>1 DEF TypeOK, MemOK, BufOK

(* A semaphore is posted.                                                  *)
LEMMA PostOK ==
  ASSUME TypeOK, NEW c \in Conns \cup {None},
         output_sem' = [output_sem EXCEPT ![c] = @ + 1]
  PROVE  SemOK'
<1>1. output_sem \in [Conns -> Int] /\ \A x \in Conns : output_sem[x] + 1 \in Int
  BY DEF TypeOK, SemOK
<1>2. QED
  BY <1>1 DEF SemOK

LEMMA ConnInitOK ==
  ASSUME TypeOK, NEW c \in Conns, ConnInit(c, buf)
  PROVE  BufOK' /\ MemOK' /\ ConnOK' /\ TodoOK'
<1>1. CASE conn[c].function_init
  <2> DEFINE p == Fresh(mem)
  <2>1. /\ Available(mem) /\ mem' = Taken(mem)
        /\ conn' = [conn EXCEPT ![c].state = 1, ![c].init_buffer = p]
        /\ todo' = comm_buf_to_queue(todo, p)
        /\ buf' = [buf EXCEPT ![p] = InitBuffer(c, p)]
    BY <1>1 DEF ConnInit
  <2>2. p \in Buffers
    BY <2>1, TakenOK DEF TypeOK, MemOK
  <2>3. InitBuffer(c, p) \in Contents
    <3>1. For(c) \in Contents
      BY ForOK DEF TypeOK
    <3>2. [For(c) EXCEPT !.init = TRUE] \in Contents
      BY <3>1, InitSet
    <3>3. (p \notin Heap) \in BOOLEAN
      OBVIOUS
    <3>4. [[For(c) EXCEPT !.init = TRUE] EXCEPT !.room = (p \notin Heap)] \in Contents
      BY <3>2, <3>3, RoomSet
    <3>5. QED
      BY <3>4 DEF InitBuffer
  <2>4. BufOK' /\ MemOK'
    BY <2>1, <2>3, FillOK
  <2> HIDE DEF p
  <2>5. TodoOK'
    BY <2>1, <2>2 DEF comm_buf_to_queue, TypeOK, TodoOK
  <2>6. ConnOK'
    BY <2>1, <2>2 DEF TypeOK, ConnOK, Connections
  <2>7. QED
    BY <2>4, <2>5, <2>6
<1>2. CASE ~conn[c].function_init
  <2>1. ConnOK'
    BY <1>2 DEF ConnInit, TypeOK, ConnOK, Connections
  <2>2. QED
    BY <1>2, <2>1, Kept DEF ConnInit, TypeOK
<1>3. QED
  BY <1>1, <1>2

LEMMA ReaderQueryTypes ==
  ASSUME TypeOK, NEW c \in Conns,
         \/ ReaderGets(c) \/ ReadyRequest(c) \/ ReadyAnswer(c) \/ QueryInits(c)
         \/ QueryRefused(c) \/ InitRefused(c)
  PROVE  TypeOK'
<1>1. CASE ReaderGets(c)
  <2> DEFINE b == Fresh(mem)
             x == [reader[c] EXCEPT !.pc = "recv", !.b = b]
  <2>1. MemOK' /\ BufOK'
    BY <1>1, ForOK, FillOK DEF ReaderGets, TypeOK
  <2>2. b \in Buffers
    BY <1>1, TakenOK DEF ReaderGets, TypeOK, MemOK
  <2>3. reader' = [reader EXCEPT ![c] = x]
    BY <1>1 DEF ReaderGets
  <2> HIDE DEF b
  <2>4. ReaderFine(x)
    BY <2>2 DEF TypeOK, ReaderOK, ReaderFine, Readers, ReaderPcs, Owning
  <2>5. ReaderOK'
    BY <2>3, <2>4, ReaderSet DEF TypeOK
  <2>6. QED
    BY <1>1, <2>1, <2>5, Kept DEF ReaderGets, TypeOK, kernel
<1>2. CASE ReadyRequest(c)
  <2>1. ReaderOK'
    <3> DEFINE pc == IF conn[c].function_init THEN "free" ELSE "readyanswer"
    <3>1. /\ pc \in ReaderPcs /\ pc \notin {"body", "query", "answer"}
          /\ reader[c].pc \in Owning
      BY <1>2 DEF ReadyRequest, ReaderAt, ReaderPcs, Owning
    <3>2. reader' = [reader EXCEPT ![c].pc = pc]
      BY <1>2 DEF ReadyRequest
    <3>3. QED
      BY <3>1, <3>2, ReaderMoves DEF TypeOK
  <2>2. BufOK' /\ MemOK' /\ ConnOK' /\ TodoOK'
    BY <1>2, ConnInitOK DEF ReadyRequest
  <2>3. QED
    BY <1>2, <2>1, <2>2, Kept DEF ReadyRequest, TypeOK, kernel
<1>3. CASE ReadyAnswer(c)
  <2>1. reader' = [reader EXCEPT ![c].pc = "free"] /\ reader[c].pc \in Owning
    BY <1>3 DEF ReadyAnswer, ReaderAt, Owning
  <2>2. ReaderOK'
    <3>1. "free" \in ReaderPcs /\ "free" \notin {"body", "query", "answer"}
      BY DEF ReaderPcs, Owning
    <3>2. QED
      BY <2>1, <3>1, ReaderMoves DEF TypeOK
  <2>3. Outgoing(c, [kind |-> "ready"]) \in Contents
    BY OutgoingOK DEF Messages, TypeOK
  <2>4. MemOK' /\ BufOK'
    BY <1>3, <2>3, FillOK DEF ReadyAnswer
  <2>5. OutputOK' /\ SemOK'
    <3>1. Fresh(mem) \in Buffers
      BY <1>3, TakenOK DEF ReadyAnswer, TypeOK, MemOK
    <3>2. /\ output' = [output EXCEPT ![c] = comm_buf_to_queue(@, Fresh(mem))]
          /\ output_sem' = [output_sem EXCEPT ![c] = @ + 1]
      BY <1>3 DEF ReadyAnswer
    <3>3. QED
      BY <3>1, <3>2, EnqueuedOK, PostOK DEF TypeOK, OutputOK
  <2>6. QED
    BY <1>3, <2>2, <2>4, <2>5, Kept DEF ReadyAnswer, TypeOK, kernel
<1>4. CASE QueryInits(c)
  <2>1. BufOK' /\ MemOK' /\ ConnOK' /\ TodoOK'
    BY <1>4, ConnInitOK DEF QueryInits
  <2>2. LockOK'
    BY <1>4 DEF QueryInits, TypeOK, LockOK
  <2>3. QED
    BY <1>4, <2>1, <2>2, Kept DEF QueryInits, TypeOK, kernel
<1>5. CASE QueryRefused(c)
  <2>1. reader' = [reader EXCEPT ![c].pc = "close"] /\ reader[c].pc \in Owning
    BY <1>5 DEF QueryRefused, ReaderAt, Owning
  <2>2. ReaderOK'
    <3>1. "close" \in ReaderPcs /\ "close" \notin {"body", "query", "answer"}
      BY DEF ReaderPcs, Owning
    <3>2. QED
      BY <2>1, <3>1, ReaderMoves DEF TypeOK
  <2>3. ConnOK'
    <3>1. conn' = [conn EXCEPT ![c].fd = FALSE]
      BY <1>5 DEF QueryRefused
    <3>2. QED
      BY <3>1 DEF Connections, ConnOK, TypeOK
  <2>4. QED
    BY <1>5, <2>2, <2>3, Kept DEF QueryRefused, TypeOK, kernel
<1>6. CASE InitRefused(c)
  <2>1. reader' = [reader EXCEPT ![c].pc = "close"] /\ reader[c].pc \in Owning
    BY <1>6 DEF InitRefused, ReaderAt, Owning
  <2>2. ReaderOK'
    <3>1. "close" \in ReaderPcs /\ "close" \notin {"body", "query", "answer"}
      BY DEF ReaderPcs, Owning
    <3>2. QED
      BY <2>1, <3>1, ReaderMoves DEF TypeOK
  <2>3. ConnOK'
    <3>1. conn' = [conn EXCEPT ![c].fd = FALSE]
      BY <1>6 DEF InitRefused
    <3>2. QED
      BY <3>1 DEF Connections, ConnOK, TypeOK
  <2>4. QED
    BY <1>6, <2>2, <2>3, Kept DEF InitRefused, TypeOK, kernel
<1>7. QED
  BY <1>1, <1>2, <1>3, <1>4, <1>5, <1>6

LEMMA ReaderQueuesTypes ==
  ASSUME TypeOK, NEW c \in Conns,
         \/ QueryWaits(c) \/ QueryPasses(c) \/ QueryQueued(c) \/ ReaderChecks(c)
  PROVE  TypeOK'
<1> DEFINE b == reader[c].b
<1>1. ASSUME ReaderAt(c, "query")
      PROVE  /\ b \in Buffers /\ reader[c].msg \in Requests
             /\ reader[c].pc \in Owning
             /\ [buf[b] EXCEPT !.req = reader[c].msg] \in Contents
  <2>1. b \in Buffers /\ reader[c].msg \in Requests /\ reader[c].pc \in Owning
    BY <1>1 DEF TypeOK, ReaderOK, ReaderAt, Owning
  <2>2. buf[b] \in Contents
    BY <2>1 DEF TypeOK, BufOK
  <2>3. QED
    BY <2>1, <2>2, ReqSet
<1>2. "check" \in ReaderPcs /\ "check" \notin Owning /\ "check" \notin {"body", "query", "answer"}
  BY DEF ReaderPcs, Owning
<1>3. CASE QueryWaits(c)
  <2> DEFINE i == conn[c].init_buffer
             x == [buf[b] EXCEPT !.req = reader[c].msg]
             step == [buf EXCEPT ![b] = x]
  <2>1. i \in Buffers
    BY <1>3 DEF QueryWaits, TypeOK, ConnOK, Connections
  <2>2. x \in Contents /\ b \in Buffers
    BY <1>1, <1>3 DEF QueryWaits
  <2>3. buf' = [step EXCEPT ![i].to_wake = comm_buf_to_queue(@, b)]
    BY <1>3 DEF QueryWaits
  <2> HIDE DEF x
  <2>4. step \in [Buffers -> Contents]
    BY <2>2 DEF TypeOK, BufOK
  <2> HIDE DEF step, i, b
  <2>5. [step[i] EXCEPT !.to_wake = comm_buf_to_queue(@, b)] \in Contents
    <3>1. step[i] \in Contents /\ step[i].to_wake \in Seq(Buffers)
      BY <2>1, <2>4 DEF Contents
    <3>2. comm_buf_to_queue(step[i].to_wake, b) \in Seq(Buffers)
      BY <2>2, <3>1 DEF comm_buf_to_queue
    <3>3. QED
      BY <3>1, <3>2, ToWakeSet
  <2>6. BufOK'
    BY <2>3, <2>4, <2>5 DEF BufOK
  <2>7. reader' = [reader EXCEPT ![c].pc = "check"]
    BY <1>3 DEF QueryWaits
  <2>8. ReaderOK'
    BY <1>2, <2>7, ReaderMoves DEF TypeOK
  <2>9. LockOK'
    BY <1>3 DEF QueryWaits, TypeOK, LockOK
  <2>10. QED
    BY <1>3, <2>6, <2>8, <2>9, Kept DEF QueryWaits, TypeOK, kernel
<1>4. CASE QueryPasses(c)
  <2>1. /\ buf' = [buf EXCEPT ![b].req = reader[c].msg]
        /\ reader' = [reader EXCEPT ![c].pc = "todo"]
    BY <1>4 DEF QueryPasses
  <2>2. BufOK'
    BY <1>1, <1>4, <2>1 DEF QueryPasses, TypeOK, BufOK
  <2>3. "todo" \in ReaderPcs /\ "todo" \notin {"body", "query", "answer"}
    BY DEF ReaderPcs, Owning
  <2>4. ReaderOK'
    BY <1>1, <1>4, <2>1, <2>3, ReaderMoves DEF QueryPasses, TypeOK
  <2>5. LockOK'
    BY <1>4 DEF QueryPasses, TypeOK, LockOK
  <2>6. QED
    BY <1>4, <2>2, <2>4, <2>5, Kept DEF QueryPasses, TypeOK, kernel
<1>5. CASE QueryQueued(c)
  <2>1. b \in Buffers
    BY <1>5 DEF QueryQueued, TypeOK, ReaderOK, ReaderAt, Owning
  <2>2. TodoOK'
    BY <1>5, <2>1 DEF QueryQueued, TypeOK, TodoOK, comm_buf_to_queue
  <2>3. reader' = [reader EXCEPT ![c].pc = "check"]
    BY <1>5 DEF QueryQueued
  <2>4. ReaderOK'
    BY <1>2, <2>3, ReaderMoves DEF TypeOK
  <2>5. QED
    BY <1>5, <2>2, <2>4, Kept DEF QueryQueued, TypeOK, kernel
<1>6. CASE ReaderChecks(c)
  <2>1. CASE Ends("undefined")
    BY <2>1, EndsTypes
  <2>2. CASE /\ reader' = [reader EXCEPT ![c] = ReaderIdle]
             /\ UNCHANGED <<shared, worker, writer, status, kernel, told, history>>
    <3>1. ReaderFine(ReaderIdle)
      BY DEF ReaderFine, ReaderIdle, Readers, ReaderPcs, Owning
    <3>2. ReaderOK'
      BY <2>2, <3>1, ReaderSet DEF TypeOK
    <3>3. QED
      BY <2>2, <3>2, Kept DEF TypeOK, shared, kernel
  <2>3. QED
    BY <1>6, <2>1, <2>2 DEF ReaderChecks
<1>7. QED
  BY <1>3, <1>4, <1>5, <1>6

LEMMA ReaderAnswersTypes ==
  ASSUME TypeOK, NEW c \in Conns,
         \/ UpdateAnswered(c) \/ FetchFailed(c) \/ FetchAnswered(c) \/ FetchDone(c)
  PROVE  TypeOK'
<1> DEFINE op == reader[c].msg.op
           p == Waiter(c, op)
<1>1. reader[c].pc = "answer" => reader[c].msg.outcome \in {"ok", "error"}
  BY DEF TypeOK, ReaderOK, Answers
<1>2. "free" \in ReaderPcs /\ "free" \notin {"body", "query", "answer"}
  BY DEF ReaderPcs, Owning
<1>3. Waiters(c, op) # {} => p \in Buffers /\ (NoLongerWaits(c, op) => WaitOK')
  BY WaiterOK DEF TypeOK
<1>4. {"answer", "body"} \subseteq Owning
  BY DEF Owning
<1> HIDE DEF op, p
<1>5. CASE UpdateAnswered(c)
  <2>1. /\ reader[c].pc = "answer" /\ Waiters(c, op) # {} /\ NoLongerWaits(c, op)
        /\ Wake(p, reader[c].msg.outcome)
        /\ reader' = [reader EXCEPT ![c].pc = "free"]
    BY <1>5 DEF UpdateAnswered, AnswerRead, ReaderAt, op, p
  <2>2. BufOK' /\ TodoOK' /\ WaitOK'
    BY <1>1, <1>3, <2>1, WakeOK
  <2>3. ReaderOK'
    BY <1>2, <1>4, <2>1, ReaderMoves DEF TypeOK
  <2>4. QED
    BY <1>5, <2>2, <2>3, Kept DEF UpdateAnswered, TypeOK, kernel
<1>6. CASE FetchFailed(c)
  <2>1. /\ reader[c].pc = "answer"
        /\ reader' = [reader EXCEPT ![c].pc = "free"]
    BY <1>6 DEF FetchFailed, AnswerRead, ReaderAt
  <2>2. ReaderOK'
    BY <1>2, <1>4, <2>1, ReaderMoves DEF TypeOK
  <2>3. TodoOK' /\ WaitOK'
    <3>1. CASE Waiters(c, op) # {}
      <4>1. NoLongerWaits(c, op) /\ todo' = comm_buf_to_queue(todo, p)
        BY <1>6, <3>1 DEF FetchFailed, op, p
      <4>2. QED
        BY <1>3, <3>1, <4>1 DEF comm_buf_to_queue, TypeOK, TodoOK
    <3>2. CASE ~(Waiters(c, op) # {})
      BY <1>6, <3>2, Kept DEF FetchFailed, op, TypeOK
    <3>3. QED
      BY <3>1, <3>2
  <2>4. QED
    BY <1>6, <2>2, <2>3, Kept DEF FetchFailed, TypeOK, kernel
<1>7. CASE FetchAnswered(c)
  <2> DEFINE x == [reader[c] EXCEPT !.pc = "body", !.p = p]
  <2>1. /\ reader[c].pc = "answer" /\ Waiters(c, op) # {} /\ NoLongerWaits(c, op)
        /\ reader' = [reader EXCEPT ![c] = x]
    BY <1>7 DEF FetchAnswered, AnswerRead, ReaderAt, op, p
  <2>2. reader[c] \in Readers /\ reader[c].b \in Buffers /\ p \in Buffers
    BY <1>3, <1>4, <2>1 DEF TypeOK, ReaderOK
  <2>3. ReaderFine(x)
    BY <2>2 DEF ReaderFine, Readers, ReaderPcs, Owning
  <2>4. ReaderOK' /\ WaitOK'
    BY <1>3, <2>1, <2>3, ReaderSet DEF TypeOK
  <2>5. QED
    BY <1>7, <2>4, Kept DEF FetchAnswered, TypeOK, kernel
<1>8. CASE FetchDone(c)
  <2> DEFINE x == [reader[c] EXCEPT !.pc = "free", !.p = None]
  <2>1. /\ reader[c].pc = "body" /\ Wake(reader[c].p, "ok")
        /\ reader' = [reader EXCEPT ![c] = x]
    BY <1>8 DEF FetchDone, ReaderAt
  <2>2. reader[c] \in Readers /\ reader[c].b \in Buffers /\ reader[c].p \in Buffers
    BY <1>4, <2>1 DEF TypeOK, ReaderOK
  <2>3. ReaderFine(x)
    BY <2>2 DEF ReaderFine, Readers, ReaderPcs, Owning
  <2>4. ReaderOK'
    BY <2>1, <2>3, ReaderSet DEF TypeOK
  <2>5. BufOK' /\ TodoOK'
    BY <2>1, <2>2, WakeOK
  <2>6. QED
    BY <1>8, <2>4, <2>5, Kept DEF FetchDone, TypeOK, kernel
<1>9. QED
  BY <1>5, <1>6, <1>7, <1>8

LEMMA ReaderFreesTypes ==
  ASSUME TypeOK, NEW c \in Conns, ReaderFrees(c) \/ ReaderFails(c)
  PROVE  TypeOK'
<1>1. reader[c].b \in Buffers
  BY DEF ReaderFrees, ReaderFails, ReaderAt, TypeOK, ReaderOK, Owning
<1>2. Free(reader[c].b, buf, mem, output)
  BY DEF ReaderFrees, ReaderFails
<1>3. TodoOK' /\ MemOK' /\ BufOK' /\ OutputOK' /\ SemOK'
  BY <1>1, <1>2, FreeOK DEF TypeOK, BufOK, MemOK, OutputOK
<1>4. ReaderOK'
  <2>1. PICK x \in {ReaderIdle, [ReaderIdle EXCEPT !.pc = "close again"]} :
          reader' = [reader EXCEPT ![c] = x]
    BY DEF ReaderFrees, ReaderFails
  <2>2. ReaderFine(ReaderIdle)
    BY DEF ReaderFine, ReaderIdle, Readers, ReaderPcs, Owning
  <2>3. ReaderFine([ReaderIdle EXCEPT !.pc = "close again"])
    BY DEF ReaderFine, ReaderIdle, Readers, ReaderPcs, Owning
  <2>4. QED
    BY <2>1, <2>2, <2>3, ReaderSet DEF TypeOK
<1>5. QED
  BY <1>3, <1>4, Kept DEF ReaderFrees, ReaderFails, TypeOK, kernel

LEMMA CloseTypes ==
  ASSUME TypeOK, NEW c \in Conns, CloseStep(c)
  PROVE  TypeOK'
<1>1. CASE CloseOutput(c)
  <2> DEFINE out == [output EXCEPT ![c] = comm_buf_from_queue(@)]
  <2>1. Head(output[c]) \in Buffers /\ out \in Queues
    BY <1>1, DequeuedOK DEF CloseOutput, TypeOK, OutputOK
  <2>2. Free(Head(output[c]), buf, mem, out)
    BY <1>1 DEF CloseOutput
  <2> HIDE DEF out
  <2>3. TodoOK' /\ MemOK' /\ BufOK' /\ OutputOK' /\ SemOK'
    BY <2>1, <2>2, FreeOK DEF TypeOK, BufOK, MemOK
  <2>4. QED
    BY <1>1, <2>3, Kept DEF CloseOutput, TypeOK, kernel
<1>2. CASE CloseRelocks(c)
  BY <1>2, EndsTypes DEF CloseRelocks
<1>3. CASE CloseWait(c)
  <2>1. /\ Head(wait[c]) \in Buffers
        /\ [wait EXCEPT ![c] = comm_buf_from_queue(@)] \in Queues
    BY <1>3, DequeuedOK DEF CloseWait, TypeOK, WaitOK
  <2>2. Free(Head(wait[c]), buf, mem, output)
    BY <1>3 DEF CloseWait
  <2>3. TodoOK' /\ MemOK' /\ BufOK' /\ OutputOK' /\ SemOK'
    BY <2>1, <2>2, FreeOK DEF TypeOK, BufOK, MemOK, OutputOK
  <2>4. WaitOK'
    BY <1>3, <2>1 DEF CloseWait, WaitOK
  <2>5. QED
    BY <1>3, <2>3, <2>4, Kept DEF CloseWait, TypeOK, kernel
<1>4. ASSUME NEW pc \in {"closing", "closing again", "dead"},
             reader' = [reader EXCEPT ![c].pc = pc], pc = "closing" => reader[c].pc = "close"
      PROVE  ReaderOK'
  <2>1. /\ pc \in ReaderPcs /\ pc \notin {"body", "query", "answer"}
        /\ pc \in Owning => reader[c].pc \in Owning
    BY <1>4 DEF ReaderPcs, Owning
  <2>2. QED
    BY <1>4, <2>1, ReaderMoves DEF TypeOK
<1>5. ASSUME NEW pc \in {"closing", "dead"}, writer' = [writer EXCEPT ![c].pc = pc]
      PROVE  WriterOK'
  BY <1>5 DEF TypeOK, WriterOK, WriterPcs
<1>6. CASE Drained(c)
  <2>1. ReaderOK' /\ WriterOK'
    BY <1>4, <1>5, <1>6, Kept DEF Drained, ReaderAt, TypeOK
  <2>2. QED
    BY <1>6, <2>1, Kept DEF Drained, TypeOK, shared, kernel
<1>7. CASE Closed(c)
  <2>1. ReaderAt(c, "closing") /\ reader' = [reader EXCEPT ![c].pc = "fail"] => ReaderOK'
    <3>1. /\ "fail" \in ReaderPcs /\ "fail" \notin {"body", "query", "answer"}
          /\ "closing" \in Owning
      BY DEF ReaderPcs, Owning
    <3>2. QED
      BY <3>1, ReaderMoves DEF TypeOK, ReaderAt
  <2>2. ReaderOK' /\ WriterOK'
    BY <1>4, <1>5, <1>7, <2>1, Kept DEF Closed, TypeOK
  <2>3. ConnOK'
    <3>1. conn' = [conn EXCEPT ![c].open = @ - 1]
      BY <1>7 DEF Closed
    <3>2. QED
      BY <3>1 DEF Connections, ConnOK, TypeOK
  <2>4. QED
    BY <1>7, <2>2, <2>3, Kept DEF Closed, TypeOK, kernel
<1>8. QED
  BY <1>1, <1>2, <1>3, <1>6, <1>7 DEF CloseStep

LEMMA ReaderTypes ==
  ASSUME TypeOK, NEW c \in Conns, ReaderStep(c)
  PROVE  TypeOK'
<1>1. CASE QueryDangles(c) \/ AnswerUnexpected(c)
  BY <1>1, EndsTypes DEF QueryDangles, AnswerUnexpected
<1>2. QED
  BY <1>1, ReaderQueryTypes, ReaderQueuesTypes, ReaderAnswersTypes, ReaderFreesTypes
     DEF ReaderStep

(* The same for a worker.                                                  *)
WorkerFine(x) ==
  /\ x \in WorkersAt
  /\ x.pc \in {"got", "free", "initfree", "send", "park"} => x.b \in Buffers
  /\ x.pc = "send" => x.r \in Buffers
  /\ x.pc \in {"send", "park"} => x.phase \in Resumes

LEMMA WorkerSet ==
  ASSUME WorkerOK, NEW w \in Workers, NEW x, WorkerFine(x),
         worker' = [worker EXCEPT ![w] = x]
  PROVE  WorkerOK'
BY DEF WorkerOK, WorkerFine

LEMMA IdleFine ==
  WorkerFine(WorkerIdle) /\ WorkerFine([WorkerIdle EXCEPT !.pc = "initclear"])
<1>1. WorkerFine(WorkerIdle)
  BY DEF WorkerIdle, WorkerFine, WorkersAt, WorkerPcs
<1>2. WorkerFine([WorkerIdle EXCEPT !.pc = "initclear"])
  BY DEF WorkerIdle, WorkerFine, WorkersAt, WorkerPcs
<1>3. QED
  BY <1>1, <1>2

(* It keeps its buffer.                                                    *)
LEMMA WorkerMoves ==
  ASSUME WorkerOK, NEW w \in Workers, NEW pc \in {"free", "initfree"},
         worker[w].b \in Buffers, worker' = [worker EXCEPT ![w].pc = pc]
  PROVE  WorkerOK'
<1> DEFINE x == [worker[w] EXCEPT !.pc = pc]
<1>1. WorkerFine(x)
  BY DEF WorkerOK, WorkersAt, WorkerPcs, WorkerFine
<1>2. worker' = [worker EXCEPT ![w] = x]
  OBVIOUS
<1>3. QED
  BY <1>1, <1>2, WorkerSet

LEMMA WaitsOK ==
  ASSUME TypeOK, NEW c, NEW b \in Buffers,
         wait' = [wait EXCEPT ![c] = comm_buf_to_queue(@, b)]
  PROVE  WaitOK'
BY EnqueuedOK DEF TypeOK, WaitOK

LEMMA AsksTypes ==
  ASSUME TypeOK, NEW w \in Workers, NEW b \in Buffers, NEW k \in Kinds,
         NEW d \in Conns, NEW phase \in Resumes, buf[b].comm \in Conns, Asks(w, b, d, k, phase)
  PROVE  TypeOK'
<1> DEFINE r == Fresh(mem)
           op == [comm |-> d, kind |-> k, seq |-> ids[k]]
           waits == [to |-> k, seq |-> op.seq]
           x == [buf[b] EXCEPT !.lock = w, !.user_data = "error", !.op = op,
                               !.ops = @ + 1, !.waiting = waits]
           y == Outgoing(d, op)
           at == [pc |-> "send", b |-> b, r |-> r, phase |-> phase]
<1>1. /\ Available(mem) /\ mem' = Taken(mem)
      /\ ids' = [ids EXCEPT ![k] = @ + 1]
      /\ wait' = [wait EXCEPT ![buf[b].comm] = comm_buf_to_queue(@, b)]
  BY DEF Asks
<1>2. worker' = [worker EXCEPT ![w] = at]
  BY DEF Asks
<1>3. buf' = [buf EXCEPT ![b] = x, ![r] = y]
  BY DEF Asks
<1> HIDE DEF at, x, y, waits, op, r
<1>4. r \in Buffers /\ MemOK'
  BY <1>1, TakenOK DEF TypeOK, MemOK, r
<1>5. ids[k] \in Nat /\ IdsOK'
  BY <1>1 DEF TypeOK, IdsOK
<1>6. op \in Ops
  BY <1>5 DEF Ops, op
<1>7. WaitOK'
  BY <1>1, WaitsOK
<1>8. BufOK'
  <2>1. buf[b] \in Contents /\ buf[b].ops \in Nat
    <3>1. buf[b] \in Contents
      BY DEF TypeOK, BufOK
    <3>2. QED
      BY <3>1 DEF Contents
  <2>2. waits \in [to : Kinds \cup {None}, seq : Nat]
    BY <1>5 DEF waits, op
  <2>3. y \in Contents
    <3>1. op \in Messages
      BY <1>6 DEF Messages, Ops
    <3>2. QED
      BY <3>1, OutgoingOK DEF TypeOK, y
  <2>4. x \in Contents
    <3> DEFINE n == buf[b].ops + 1
    <3>1. n \in Nat
      BY <2>1
    <3>2. x = [[[[[buf[b] EXCEPT !.lock = w] EXCEPT !.user_data = "error"]
                   EXCEPT !.op = op] EXCEPT !.ops = n] EXCEPT !.waiting = waits]
      BY DEF x
    <3> HIDE DEF n
    <3>3. [buf[b] EXCEPT !.lock = w] \in Contents
      BY <2>1, LockSet
    <3>4. [[buf[b] EXCEPT !.lock = w] EXCEPT !.user_data = "error"] \in Contents
      BY <3>3, UserDataSet
    <3>5. [[[buf[b] EXCEPT !.lock = w] EXCEPT !.user_data = "error"]
             EXCEPT !.op = op] \in Contents
      BY <1>6, <3>4, OpSet
    <3>6. [[[[buf[b] EXCEPT !.lock = w] EXCEPT !.user_data = "error"]
             EXCEPT !.op = op] EXCEPT !.ops = n] \in Contents
      BY <3>1, <3>5, OpsSet
    <3>7. QED
      BY <2>2, <3>2, <3>6, WaitingSet
  <2>5. QED
    BY <1>3, <1>4, <2>3, <2>4 DEF TypeOK, BufOK
<1>9. WorkerOK'
  <2>1. WorkerFine(at)
    BY <1>4 DEF WorkerFine, WorkersAt, WorkerPcs, at
  <2>2. QED
    BY <1>2, <2>1, WorkerSet DEF TypeOK
<1>10. QED
  BY <1>4, <1>5, <1>7, <1>8, <1>9, Kept DEF Asks, TypeOK, kernel

(* What a worker has is for some connection.                               *)
CommKnown ==
  \A w \in Workers : worker[w].pc = "got" => buf[worker[w].b].comm \in Conns

LEMMA ServesOK ==
  ASSUME TypeOK, CommKnown, NEW w \in Workers, NEW b \in Buffers, Serves(w, b)
  PROVE  /\ worker[w].pc = "got" /\ worker[w].b = b
         /\ buf[b] \in Contents /\ buf[b].comm \in Conns
BY DEF Serves, Locks, WorkerAt, CommKnown, TypeOK, BufOK

LEMMA WorkerAsksTypes ==
  ASSUME TypeOK, CommKnown, NEW w \in Workers, EventAsks(w) \/ AnswerUpdates(w)
  PROVE  TypeOK'
<1>1. CASE EventAsks(w)
  <2>1. PICK b \in Buffers, k \in Kinds, d \in Conns : Serves(w, b) /\ Asks(w, b, d, k, 1)
    BY <1>1 DEF EventAsks
  <2>2. 1 \in Resumes
    BY DEF Resumes
  <2>3. QED
    BY <2>1, <2>2, ServesOK, AsksTypes
<1>2. CASE AnswerUpdates(w)
  <2>1. PICK b \in Buffers : Serves(w, b) /\ Asks(w, b, buf[b].comm, "update", 1003)
    BY <1>2 DEF AnswerUpdates
  <2>2. 1003 \in Resumes /\ "update" \in Kinds
    BY DEF Resumes, Kinds
  <2>3. QED
    BY <2>1, <2>2, ServesOK, AsksTypes
<1>3. QED
  BY <1>1, <1>2

LEMMA WorkerDecidesTypes ==
  ASSUME TypeOK, CommKnown, NEW w \in Workers, EventDecides(w)
  PROVE  TypeOK'
<1>1. PICK b \in Buffers :
        /\ Serves(w, b)
        /\ IF buf[b].init
           THEN /\ buf' = [buf EXCEPT ![b].phase = 1000]
                /\ initDone' = initDone \cup {buf[b].comm}
                /\ UNCHANGED decided
           ELSE \E v \in Verdicts :
                  /\ buf' = [buf EXCEPT ![b] = [@ EXCEPT !.phase = 1000, !.verdict = v]]
                  /\ decided' = [decided EXCEPT ![buf[b].req] = v]
                  /\ UNCHANGED initDone
        /\ todo' = comm_buf_to_queue(todo, b)
        /\ worker' = [worker EXCEPT ![w] = WorkerIdle]
  BY Zenon DEF EventDecides
<1>2. TodoOK'
  <2>1. todo' = Append(todo, b)
    BY <1>1, Zenon DEF comm_buf_to_queue
  <2>2. QED
    BY <2>1 DEF TypeOK, TodoOK
<1>3. WorkerOK'
  <2>1. worker' = [worker EXCEPT ![w] = WorkerIdle]
    BY <1>1, Zenon
  <2>2. QED
    BY <2>1, IdleFine, WorkerSet DEF TypeOK
<1>4. buf[b] \in Contents /\ buf \in [Buffers -> Contents]
  BY DEF TypeOK, BufOK
<1>5. [buf[b] EXCEPT !.phase = 1000] \in Contents
  <2>1. 1000 \in Phases
    BY DEF Phases
  <2>2. QED
    BY <1>4, <2>1, PhaseSet
<1>6. CASE buf[b].init
  <2>1. buf' = [buf EXCEPT ![b] = [buf[b] EXCEPT !.phase = 1000]]
    BY <1>1, <1>6, Zenon
  <2>2. BufOK'
    BY <1>4, <1>5, <2>1 DEF BufOK
  <2>3. QED
    BY <1>2, <1>3, <2>2, Kept DEF EventDecides, TypeOK, kernel
<1>7. CASE ~buf[b].init
  <2> DEFINE x == [buf[b] EXCEPT !.phase = 1000]
  <2>1. PICK v \in Verdicts :
          /\ buf' = [buf EXCEPT ![b] = [@ EXCEPT !.phase = 1000, !.verdict = v]]
          /\ decided' = [decided EXCEPT ![buf[b].req] = v]
          /\ UNCHANGED initDone
    BY <1>1, <1>7
  <2>2. buf' = [buf EXCEPT ![b] = [x EXCEPT !.verdict = v]]
    BY <2>1
  <2>3. x \in Contents
    BY <1>5
  <2> HIDE DEF x
  <2>4. [x EXCEPT !.verdict = v] \in Contents
    BY <2>3, VerdictSet
  <2>5. BufOK'
    BY <1>4, <2>2, <2>4 DEF BufOK
  <2>6. QED
    BY <1>2, <1>3, <2>5, Kept DEF EventDecides, TypeOK, kernel
<1>8. QED
  BY <1>6, <1>7

LEMMA WorkerAnswersTypes ==
  ASSUME TypeOK, CommKnown, NEW w \in Workers, AnswerSends(w)
  PROVE  TypeOK'
<1> DEFINE Msg(b) == [kind |-> "answer", req |-> buf[b].req, verdict |-> buf[b].verdict]
           r == Fresh(mem)
<1>1. PICK b \in Buffers :
        /\ Serves(w, b)
        /\ Available(mem)
        /\ mem' = Taken(mem)
        /\ buf' = [buf EXCEPT ![b].lock = w, ![r] = Outgoing(buf[b].comm, Msg(b))]
        /\ output' = [output EXCEPT ![buf[b].comm] = comm_buf_to_queue(@, r)]
        /\ output_sem' = [output_sem EXCEPT ![buf[b].comm] = @ + 1]
  BY DEF AnswerSends
<1>2. /\ worker[w].b = b /\ buf[b] \in Contents /\ buf[b].comm \in Conns
      /\ worker' = [worker EXCEPT ![w].pc = "free"]
  BY <1>1, ServesOK DEF AnswerSends
<1>3. WorkerOK'
  BY <1>2, WorkerMoves DEF TypeOK
<1>4. r \in Buffers /\ MemOK'
  BY <1>1, TakenOK DEF TypeOK, MemOK
<1> HIDE DEF r
<1>5. OutputOK' /\ SemOK'
  BY <1>1, <1>2, <1>4, EnqueuedOK, PostOK DEF TypeOK, OutputOK
<1>6. Outgoing(buf[b].comm, Msg(b)) \in Contents
  <2>1. Msg(b) \in Messages
    BY <1>2 DEF Messages, Contents
  <2>2. QED
    BY <1>2, <2>1, OutgoingOK DEF TypeOK
<1> HIDE DEF Msg
<1>7. BufOK'
  <2>1. [buf[b] EXCEPT !.lock = w] \in Contents
    BY <1>2, LockSet
  <2>2. buf' = [buf EXCEPT ![b] = [buf[b] EXCEPT !.lock = w],
                           ![r] = Outgoing(buf[b].comm, Msg(b))]
    BY <1>1
  <2>3. QED
    BY <1>4, <1>6, <2>1, <2>2 DEF TypeOK, BufOK
<1>8. QED
  BY <1>3, <1>4, <1>5, <1>7, Kept DEF AnswerSends, TypeOK, kernel

(* comm_alloc_var_data(): b's contents in a larger buffer n.               *)
Resized(b, n) ==
  [buf EXCEPT ![n] = [buf[b] EXCEPT !.room = TRUE], ![b].to_wake = <<>>]

LEMMA ResizedOK ==
  ASSUME TypeOK, NEW b \in Buffers, NEW n \in Buffers
  PROVE  /\ Resized(b, n) \in [Buffers -> Contents]
         /\ Resized(b, n)[b].comm = buf[b].comm /\ Resized(b, n)[b].to_wake = <<>>
         /\ b # n => /\ Resized(b, n)[n].comm = buf[b].comm
                     /\ Resized(b, n)[n].to_wake = buf[b].to_wake
                     /\ Resized(b, n)[n].req = buf[b].req
                     /\ Resized(b, n)[n].phase = buf[b].phase
                     /\ Resized(b, n)[n].lock = buf[b].lock
         /\ \A a \in Buffers \ {b, n} : Resized(b, n)[a] = buf[a]
<1> DEFINE x == [buf[b] EXCEPT !.room = TRUE]
           step == [buf EXCEPT ![n] = x]
           y == [step[b] EXCEPT !.to_wake = <<>>]
<1>1. buf[b] \in Contents
  BY DEF TypeOK, BufOK
<1>2. x \in Contents
  BY <1>1, RoomSet
<1>3. /\ x.comm = buf[b].comm /\ x.to_wake = buf[b].to_wake /\ x.req = buf[b].req
      /\ x.phase = buf[b].phase /\ x.lock = buf[b].lock
  BY <1>1 DEF Contents
<1> HIDE DEF x
<1>4. step \in [Buffers -> Contents] /\ step[b].comm = buf[b].comm
  BY <1>2, <1>3 DEF TypeOK, BufOK
<1>5. step[n] = x /\ \A a \in Buffers \ {n} : step[a] = buf[a]
  BY DEF TypeOK, BufOK
<1>6. Resized(b, n) = [step EXCEPT ![b] = y]
  BY <1>4 DEF Resized, x
<1> HIDE DEF step
<1>7. step[b] \in Contents /\ <<>> \in Seq(Buffers)
  BY <1>4
<1>8. y \in Contents
  BY <1>7, ToWakeSet
<1>9. y.comm = buf[b].comm /\ y.to_wake = <<>>
  BY <1>4, <1>7 DEF Contents
<1> HIDE DEF y
<1>10. Resized(b, n) \in [Buffers -> Contents] /\ Resized(b, n)[b] = y
       /\ \A a \in Buffers \ {b} : Resized(b, n)[a] = step[a]
  BY <1>4, <1>6, <1>8
<1>11. QED
  BY <1>3, <1>5, <1>9, <1>10

LEMMA WorkerTypes ==
  ASSUME TypeOK, CommKnown, NEW w \in Workers, WorkerStep(w)
  PROVE  TypeOK'
<1>1. CASE WorkerTakes(w)
  <2> DEFINE x == [worker[w] EXCEPT !.pc = "got", !.b = Head(todo)]
  <2>1. todo # <<>> /\ worker' = [worker EXCEPT ![w] = x] /\ todo' = Tail(todo)
    BY <1>1 DEF WorkerTakes, comm_buf_from_queue
  <2>2. Head(todo) \in Buffers /\ TodoOK'
    BY <2>1 DEF TypeOK, TodoOK
  <2>3. worker[w] \in WorkersAt
    BY DEF TypeOK, WorkerOK
  <2>4. WorkerFine(x)
    <3> DEFINE h == Head(todo)
    <3>1. h \in Buffers
      BY <2>2
    <3> HIDE DEF h
    <3>2. WorkerFine([worker[w] EXCEPT !.pc = "got", !.b = h])
      BY <2>3, <3>1 DEF WorkerFine, WorkersAt, WorkerPcs
    <3>3. QED
      BY <3>2 DEF h
  <2>5. WorkerOK'
    BY <2>1, <2>4, WorkerSet DEF TypeOK
  <2>6. QED
    BY <1>1, <2>2, <2>5, Kept DEF WorkerTakes, TypeOK, kernel
<1>2. CASE Resizes(w)
  <2> DEFINE b == worker[w].b
             n == Fresh(mem)
             bufs == Resized(b, n)
  <2>1. /\ worker[w].pc = "got" /\ Available(mem)
        /\ Free(b, bufs, Taken(mem), output)
        /\ worker' = [worker EXCEPT ![w].b = n]
    BY <1>2 DEF Resizes, Locks, WorkerAt, Resized
  <2>2. b \in Buffers /\ worker[w] \in WorkersAt
    BY <2>1 DEF TypeOK, WorkerOK
  <2>3. n \in Buffers /\ Taken(mem) \in Memory
    BY <2>1, TakenOK DEF TypeOK, MemOK
  <2> HIDE DEF n, b
  <2>7. bufs \in [Buffers -> Contents] /\ bufs[b].comm = buf[b].comm
    BY <2>2, <2>3, ResizedOK
  <2> HIDE DEF bufs
  <2>8. TodoOK' /\ MemOK' /\ BufOK' /\ OutputOK' /\ SemOK'
    BY <2>1, <2>2, <2>3, <2>7, FreeOK DEF TypeOK, OutputOK
  <2>9. WorkerOK'
    <3> DEFINE y == [worker[w] EXCEPT !.b = n]
    <3>1. WorkerFine(y)
      BY <2>1, <2>2, <2>3 DEF WorkerFine, WorkersAt, WorkerPcs
    <3>2. worker' = [worker EXCEPT ![w] = y]
      BY <2>1
    <3>3. QED
      BY <3>1, <3>2, WorkerSet DEF TypeOK
  <2>10. QED
    BY <1>2, <2>8, <2>9, Kept DEF Resizes, TypeOK, kernel
<1>3. CASE WorkerFrees(w) \/ InitFrees(w)
  <2>1. worker[w].b \in Buffers /\ Free(worker[w].b, buf, mem, output)
    BY <1>3 DEF WorkerFrees, InitFrees, WorkerAt, TypeOK, WorkerOK
  <2>2. TodoOK' /\ MemOK' /\ BufOK' /\ OutputOK' /\ SemOK'
    BY <2>1, FreeOK DEF TypeOK, BufOK, MemOK, OutputOK
  <2>3. WorkerOK'
    BY <1>3, IdleFine, WorkerSet DEF WorkerFrees, InitFrees, TypeOK
  <2>4. QED
    BY <1>3, <2>2, <2>3, Kept DEF WorkerFrees, InitFrees, TypeOK, kernel
<1>4. CASE WorkerSends(w)
  <2> DEFINE r == worker[w].r
             c == buf[r].comm
             x == [worker[w] EXCEPT !.pc = "park", !.r = None]
  <2>1. /\ worker[w].pc = "send"
        /\ output' = [output EXCEPT ![c] = comm_buf_to_queue(@, r)]
        /\ output_sem' = [output_sem EXCEPT ![c] = @ + 1]
        /\ worker' = [worker EXCEPT ![w] = x]
    BY <1>4 DEF WorkerSends, WorkerAt
  <2>2. r \in Buffers /\ worker[w] \in WorkersAt /\ worker[w].b \in Buffers
        /\ worker[w].phase \in Resumes
    BY <2>1 DEF TypeOK, WorkerOK
  <2>3. WorkerFine(x)
    BY <2>2 DEF WorkerFine, WorkersAt, WorkerPcs
  <2>4. WorkerOK'
    BY <2>1, <2>3, WorkerSet DEF TypeOK
  <2>5. c \in Conns \cup {None}
    BY <2>2 DEF TypeOK, BufOK, Contents
  <2> HIDE DEF c, r, x
  <2>6. OutputOK' /\ SemOK'
    BY <2>1, <2>2, <2>5, EnqueuedOK, PostOK DEF TypeOK, OutputOK
  <2>7. QED
    BY <1>4, <2>4, <2>6, Kept DEF WorkerSends, TypeOK, kernel
<1>5. CASE WorkerParks(w)
  <2> DEFINE b == worker[w].b
             x == [buf[b] EXCEPT !.phase = worker[w].phase]
  <2>1. /\ worker[w].pc = "park"
        /\ buf' = [buf EXCEPT ![b] = [x EXCEPT !.lock = None]]
        /\ worker' = [worker EXCEPT ![w] = WorkerIdle]
    BY <1>5 DEF WorkerParks, WorkerAt
  <2>2. b \in Buffers /\ worker[w].phase \in Phases
    BY <2>1 DEF TypeOK, WorkerOK, Phases
  <2>3. x \in Contents
    BY <2>2, PhaseSet DEF TypeOK, BufOK
  <2> HIDE DEF x, b
  <2>4. [x EXCEPT !.lock = None] \in Contents
    BY <2>3, LockSet
  <2>5. BufOK'
    BY <2>1, <2>2, <2>4 DEF TypeOK, BufOK
  <2>6. WorkerOK'
    BY <2>1, IdleFine, WorkerSet DEF TypeOK
  <2>7. QED
    BY <1>5, <2>5, <2>6, Kept DEF WorkerParks, TypeOK, kernel
<1>6. CASE InitWakes(w)
  <2>1. PICK b \in Buffers :
          /\ Serves(w, b)
          /\ state_lock' = [state_lock EXCEPT ![buf[b].comm] = w]
          /\ todo' = todo \o buf[b].to_wake
          /\ buf' = [buf EXCEPT ![b].to_wake = <<>>]
          /\ worker' = [worker EXCEPT ![w].pc = "initfree"]
    BY <1>6 DEF InitWakes
  <2>2. worker[w].b = b /\ buf[b] \in Contents
    BY <2>1, ServesOK
  <2>3. BufOK'
    <3>1. <<>> \in Seq(Buffers)
      OBVIOUS
    <3>2. [buf[b] EXCEPT !.to_wake = <<>>] \in Contents
      BY <2>2, <3>1, ToWakeSet
    <3>3. QED
      BY <2>1, <3>2 DEF TypeOK, BufOK
  <2>4. TodoOK'
    <3>1. buf[b].to_wake \in Seq(Buffers)
      BY <2>2 DEF Contents
    <3>2. QED
      BY <2>1, <3>1 DEF TypeOK, TodoOK
  <2>5. WorkerOK' /\ LockOK'
    <3>1. LockOK'
      BY <2>1 DEF TypeOK, LockOK
    <3>2. QED
      BY <2>1, <2>2, <3>1, WorkerMoves DEF TypeOK
  <2>6. QED
    BY <1>6, <2>3, <2>4, <2>5, Kept DEF InitWakes, TypeOK, kernel
<1>7. CASE InitClears(w)
  <2>1. PICK c \in Conns :
          /\ conn' = [conn EXCEPT ![c].init_buffer = None]
          /\ state_lock' = [state_lock EXCEPT ![c] = None]
    BY <1>7 DEF InitClears
  <2>2. ConnOK'
    BY <2>1 DEF TypeOK, ConnOK, Connections
  <2>3. LockOK'
    BY <2>1 DEF TypeOK, LockOK
  <2>4. WorkerOK'
    BY <1>7, IdleFine, WorkerSet DEF InitClears, TypeOK
  <2>5. QED
    BY <1>7, <2>2, <2>3, <2>4, Kept DEF InitClears, TypeOK, kernel
<1>8. QED
  BY <1>1, <1>2, <1>3, <1>4, <1>5, <1>6, <1>7,
     WorkerAsksTypes, WorkerDecidesTypes, WorkerAnswersTypes DEF WorkerStep

LEMMA WriterTypes ==
  ASSUME TypeOK, NEW c \in Conns, WriterStep(c)
  PROVE  TypeOK'
<1>1. ASSUME NEW pc \in {"wait", "take"}, writer' = [writer EXCEPT ![c].pc = pc]
      PROVE  WriterOK'
  BY <1>1 DEF TypeOK, WriterOK, WriterPcs
<1>2. ASSUME writer' = [writer EXCEPT ![c] = WriterIdle] PROVE WriterOK'
  BY <1>2 DEF TypeOK, WriterOK, WriterPcs, WriterIdle
<1>3. CASE WriterWaits(c)
  <2>1. SemOK'
    <3>1. output_sem' = [output_sem EXCEPT ![c] = @ - 1]
      BY <1>3 DEF WriterWaits
    <3>2. QED
      BY <3>1 DEF TypeOK, SemOK
  <2>2. QED
    BY <1>1, <1>3, <2>1, Kept DEF WriterWaits, TypeOK, kernel
<1>4. CASE WriterFindsNull(c)
  BY <1>4, EndsTypes DEF WriterFindsNull
<1>5. ASSUME output[c] # <<>>
      PROVE  First(c) \in Buffers /\ [output EXCEPT ![c] = comm_buf_from_queue(@)] \in Queues
  BY <1>5, DequeuedOK DEF TypeOK, OutputOK, First
<1>6. CASE WriterSkips(c)
  <2> DEFINE out == [output EXCEPT ![c] = comm_buf_from_queue(@)]
  <2>1. First(c) \in Buffers /\ out \in Queues /\ Free(First(c), buf, mem, out)
    BY <1>5, <1>6 DEF WriterSkips
  <2> HIDE DEF out
  <2>2. TodoOK' /\ MemOK' /\ BufOK' /\ OutputOK' /\ SemOK'
    BY <2>1, FreeOK DEF TypeOK, BufOK, MemOK
  <2>3. QED
    BY <1>2, <1>6, <2>2, Kept DEF WriterSkips, TypeOK, kernel
<1>7. CASE WriterWrites(c)
  <2>1. /\ First(c) \in Buffers
        /\ output' = [output EXCEPT ![c] = comm_buf_from_queue(@)]
        /\ writer' = [writer EXCEPT ![c] = [pc |-> "free", b |-> First(c)]]
        /\ Delivers(c, buf[First(c)].msg)
    BY <1>5, <1>7 DEF WriterWrites
  <2>2. OutputOK'
    BY <1>5, <1>7, <2>1 DEF WriterWrites, OutputOK
  <2>3. WriterOK'
    BY <2>1 DEF TypeOK, WriterOK, WriterPcs
  <2>4. AskedOK'
    <3>1. buf[First(c)].msg \in Messages
      BY <2>1 DEF TypeOK, BufOK, Contents
    <3>2. QED
      BY <2>1, <3>1 DEF Delivers, TypeOK, AskedOK
  <2>5. QED
    BY <1>7, <2>2, <2>3, <2>4, Kept DEF WriterWrites, TypeOK
<1>8. CASE WriterFrees(c)
  <2>1. writer[c].b \in Buffers /\ Free(writer[c].b, buf, mem, output)
    BY <1>8 DEF WriterFrees, WriterAt, TypeOK, WriterOK
  <2>2. TodoOK' /\ MemOK' /\ BufOK' /\ OutputOK' /\ SemOK'
    BY <2>1, FreeOK DEF TypeOK, BufOK, MemOK, OutputOK
  <2>3. QED
    BY <1>2, <1>8, <2>2, Kept DEF WriterFrees, TypeOK, kernel
<1>9. CASE WriterFails(c)
  <2>1. /\ output' = [output EXCEPT ![c] = comm_buf_from_queue(@)]
        /\ writer' = [writer EXCEPT ![c] = [pc |-> "close", b |-> None]]
        /\ conn' = [conn EXCEPT ![c].fd = FALSE]
    BY <1>9 DEF WriterFails
  <2>2. OutputOK'
    BY <1>5, <1>9, <2>1 DEF WriterFails, OutputOK
  <2>3. WriterOK'
    BY <2>1 DEF TypeOK, WriterOK, WriterPcs
  <2>4. ConnOK'
    BY <2>1 DEF TypeOK, ConnOK, Connections
  <2>5. QED
    BY <1>9, <2>2, <2>3, <2>4, Kept DEF WriterFails, TypeOK, kernel
<1>10. QED
  BY <1>3, <1>4, <1>6, <1>7, <1>8, <1>9 DEF WriterStep

-----------------------------------------------------------------------------
(* Init fits the types, and every step keeps to them. *)

LEMMA InitTypes == Init => TypeOK
<1> SUFFICES ASSUME Init PROVE TypeOK
  OBVIOUS
<1>1. BufOK
  BY BlankOK DEF Init, BufOK
<1>2. MemOK
  <2>1. ASSUME NEW S \in SUBSET Buffers, NEW s \in Listings(S) PROVE s \in Seq(Buffers)
    <3>1. Cardinality(S) \in Nat
      <4>1. IsFiniteSet(Buffers)
        BY CommAssumption
      <4>2. IsFiniteSet(S)
        BY <4>1, FS_Subset
      <4>3. QED
        BY <4>2, FS_CardinalityType
    <3>2. s \in [1..Cardinality(S) -> S]
      BY DEF Listings
    <3>3. QED
      BY <3>1, <3>2
  <2>2. Pool0 \in SUBSET Buffers /\ Pool1 \in SUBSET Buffers /\ Heap \in SUBSET Buffers
    BY DEF Buffers
  <2>3. QED
    BY <2>1, <2>2 DEF Init, MemOK, Memory
<1>3. TodoOK /\ AskedOK
  BY DEF Init, TodoOK, AskedOK
<1>4. ConnOK
  <2>1. PICK d \in FunctionInit :
          conn \in [Conns -> [state : {0}, init_buffer : {None}, fd : {TRUE}, open : {1},
                             version : Versions, function_init : {d}]]
    BY DEF Init
  <2>2. d \in BOOLEAN /\ Versions \subseteq Nat
    BY CommAssumption
  <2>3. ASSUME NEW c \in Conns PROVE conn[c] \in Connections
    <3>1. conn[c] \in [state : {0}, init_buffer : {None}, fd : {TRUE}, open : {1},
                       version : Versions, function_init : {d}]
      BY <2>1
    <3> DEFINE v == conn[c].version
    <3>2. v \in Nat
      BY <2>2, <3>1
    <3>3. conn[c] = [state |-> 0, init_buffer |-> None, fd |-> TRUE, open |-> 1,
                     version |-> v, function_init |-> d]
      BY <3>1
    <3> HIDE DEF v
    <3>4. QED
      BY <2>2, <3>2, <3>3 DEF Connections
  <2>4. QED
    BY <2>1, <2>3 DEF ConnOK
<1>5. LockOK /\ SemOK /\ IdsOK
  BY DEF Init, LockOK, SemOK, IdsOK
<1>6. OutputOK /\ WaitOK
  BY DEF Init, OutputOK, WaitOK, Queues
<1>7. ReaderOK
  BY DEF Init, ReaderOK, ReaderIdle, Readers, ReaderPcs, Owning
<1>8. WorkerOK
  BY DEF Init, WorkerOK, WorkerIdle, WorkersAt, WorkerPcs
<1>9. WriterOK
  BY DEF Init, WriterOK, WriterIdle, WriterPcs
<1>10. QED
  BY <1>1, <1>2, <1>3, <1>4, <1>5, <1>6, <1>7, <1>8, <1>9 DEF TypeOK

LEMMA NextTypes == TypeOK /\ CommKnown /\ [Next]_vars => TypeOK'
<1> SUFFICES ASSUME TypeOK, CommKnown, [Next]_vars PROVE TypeOK'
  OBVIOUS
<1>1. CASE UNCHANGED vars
  BY <1>1, Kept DEF TypeOK, vars, shared, kernel
<1>2. ASSUME NEW c \in Conns,
             \/ KernelMoves(c) \/ ReadsAnswer(c) \/ ReaderStep(c)
             \/ CloseStep(c) \/ WriterStep(c)
      PROVE  TypeOK'
  BY <1>2, KernelTypes, ReaderTypes, CloseTypes, WriterTypes
<1>3. ASSUME NEW w \in Workers, WorkerStep(w) PROVE TypeOK'
  BY <1>3, WorkerTypes
<1>4. CASE MainReturns
  BY <1>4, EndsTypes DEF MainReturns
<1>5. QED
  BY <1>1, <1>2, <1>3, <1>4 DEF Next, Done

=============================================================================
