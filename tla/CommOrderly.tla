----------------------------- MODULE CommOrderly -----------------------------
(***************************************************************************)
(* What orders the threads of Comm when the kernels keep their connections *)
(* open: who may write do_phase and take b->lock, when the buffer of       *)
(* _init() and the queries that wait on it change hands, and what a query  *)
(* in a buffer says about the history of its request.  The invariant       *)
(* OrderInv is kept by every step; ServiceProofs builds on it.             *)
(*                                                                         *)
(* Two things follow here: no query waits on a buffer that was given back, *)
(* unless the buffer of _init() was malloc'ed and moved, and no buffer is  *)
(* lost.                                                                   *)
(***************************************************************************)
EXTENDS CommProofs, CommService

(* Kernels that break off no connection *)
Orderly == Unruly \subseteq {"stray answer"}

(* No connection is being closed: the descriptor is open and reader and    *)
(* writer are in their loops. In protocol 3 a query is read after the      *)
(* connection was initialised only, and READY_REQUEST before that.         *)
Unbroken ==
  \A c \in Conns :
    /\ conn[c].fd
    /\ reader[c].pc \notin Closing
    /\ writer[c].pc \in {"wait", "take", "free"}
    /\ reader[c].pc = "query" /\ conn[c].version > 2 => conn[c].state = 1
    /\ reader[c].pc = "ready" => conn[c].state = 0
    /\ reader[c].pc # "body" => reader[c].p = None

(* Some worker has b to go on with, or will get it from todo: at once, or  *)
(* when the kernel has answered. A worker that only wants to free b is not *)
(* among them.                                                             *)
Busy(b) ==
  \/ b \in Items(todo)
  \/ \E c \in Conns : b \in Items(wait[c])
  \/ \E c \in Conns : reader[c].p = b
  \/ \E w \in Workers : worker[w].b = b /\ worker[w].pc \in {"got", "initfree"}

(* A worker that asked the kernel still writes do_phase and holds b->lock; *)
(* whoever gets the buffer in between has to wait for that.                *)
Parked ==
  \A w \in Workers : worker[w].pc \in {"send", "park"} =>
    /\ Busy(worker[w].b)
    /\ buf[worker[w].b].lock = w
    /\ worker[w].phase = 1 <=> buf[worker[w].b].phase < 1000

(* The buffer of _init() is in a worker's hands or on its way there,       *)
(* carries no request, and is the only kind of buffer on which queries     *)
(* wait.                                                                   *)
Inits ==
  \A b \in Buffers :
    /\ buf[b].init =>
       /\ Busy(b)
       /\ conn[buf[b].comm].state = 1
       /\ buf[b].phase >= 1000 => buf[b].comm \in initDone
       /\ buf[b].req = None
    /\ buf[b].to_wake # <<>> => buf[b].init
    /\ ~buf[b].room => b \in Heap /\ buf[b].init

(* Worker w is between InitWakes and InitClears of connection c.           *)
Ending(w, c) ==
    /\ c \in initDone
    /\ \/ worker[w].pc = "initclear"
       \/ /\ worker[w].pc = "initfree"
          /\ buf[worker[w].b].init /\ buf[worker[w].b].comm = c /\ buf[worker[w].b].lock = None

(* A worker holds state_lock of one connection only, and only there.       *)
StateLocks ==
  /\ \A c \in Conns, w \in Workers : state_lock[c] = w => Ending(w, c)
  /\ \A w \in Workers : worker[w].pc = "initfree" =>
       /\ state_lock[buf[worker[w].b].comm] = w
       /\ buf[worker[w].b].lock = None /\ buf[worker[w].b].init
  /\ \A c, d \in Conns : state_lock[c] = state_lock[d] /\ state_lock[c] \in Workers => c = d

(* init_buffer names the buffer of _init(), until a worker frees it with   *)
(* state_lock held; if it was malloc'ed and had to grow it may have moved. *)
InitBuffers ==
  \A c \in Conns :
    /\ conn[c].init_buffer # None =>
       /\ conn[c].state = 1 /\ conn[c].function_init
       /\ LET p == conn[c].init_buffer
          IN  \/ buf[p].init /\ buf[p].comm = c
              \/ VarData /\ p \in Heap
              \/ \E w \in Workers : state_lock[c] = w /\ worker[w].pc = "initclear"
    /\ conn[c].state = 1 /\ conn[c].function_init /\ conn[c].init_buffer = None => c \in initDone
    /\ conn[c].state = 0 => conn[c].init_buffer = None
    /\ reader[c].pc = "readyanswer" => ~conn[c].function_init /\ conn[c].state = 1

(* A buffer nothing was done with yet.                                     *)
Inert(x) ==
  ~x.init /\ x.req = None /\ x.phase = 0 /\ x.lock = None /\ x.to_wake = <<>> /\ x.room

(* Where a reader has a buffer it has not put a query into.                *)
Filling == Owning \ {"todo"}

(* A reader fills a buffer that nobody did anything with.                  *)
Reading == \A c \in Conns : reader[c].pc \in Filling => Inert(buf[reader[c].b])

(* A buffer with a request in it: the connection is up or the buffer waits *)
(* for its _init(), and do_phase says whether the request is decided.      *)
Queries ==
  \A b \in Buffers : buf[b].req # None =>
    LET r == buf[b].req
        c == ConnOf[r]
    IN  /\ r \in seen
        /\ \/ Up(c) = "up"
           \/ \E a \in Buffers : b \in Items(buf[a].to_wake) /\ buf[a].init /\ buf[a].comm = c
        /\ buf[b].phase < 1000 => decided[r] = None
        /\ buf[b].phase >= 1000 => decided[r] \in Verdicts /\ buf[b].verdict = decided[r]

(* What was not read is not decided, nor is what is read just now.         *)
Undecided ==
  /\ \A r \in Requests \ seen : decided[r] = None
  /\ \A c \in Conns : reader[c].pc = "query" => decided[reader[c].msg] = None

(* MEDUSA_COMM_AUTHANSWER                                                  *)
IsAnswer(m) == m # None /\ m.kind = "answer"
(* Buffer b is on its way to the kernel with the answer to r ...           *)
Replying(b, r) ==
  /\ IsAnswer(buf[b].msg) /\ buf[b].msg.req = r
  /\ \A c \in Conns : writer[c].b # b
(* ... and b is the one in whose name the answer to r is still to be sent. *)
Owing(b, r) ==
  /\ buf[b].req = r
  /\ \A w \in Workers : ~(worker[w].b = b /\ worker[w].pc = "free")

(* A request is answered from one buffer, in one message, once, with the   *)
(* verdict that was given.                                                 *)
Replies ==
  \A r \in Requests :
    /\ \A b \in Buffers : Owing(b, r) => answered[r] = <<>> /\ \A a \in Buffers : ~Replying(a, r)
    /\ \A a \in Buffers : Replying(a, r) =>
         /\ answered[r] = <<>> /\ decided[r] \in Verdicts /\ buf[a].msg.verdict = decided[r]
         /\ \A b \in Buffers : Replying(b, r) => a = b
    /\ decided[r] = None => answered[r] = <<>> /\ \A a \in Buffers : ~Replying(a, r)

(* What the kernels saw so far: at most one reply to a request.            *)
HistoryOK ==
  /\ seen \subseteq Requests
  /\ answered \in [Requests -> {<<>>} \cup {<<v>> : v \in Verdicts}]
  /\ decided \in [Requests -> Verdicts \cup {None}]
  /\ ready \in [Conns -> Nat]
  /\ initDone \subseteq Conns

(* No _init() of protocol 3 runs in a buffer from malloc() that has to     *)
(* grow (comm_alloc_var_data()).                                           *)
InitBufferStays ==
  \A c \in Conns : VarData /\ conn[c].version > 2 => conn[c].init_buffer \notin Heap

(* A request has a verdict or none.                                        *)
DecidedOK == decided \in [Requests -> Verdicts \cup {None}]

(* The order of the threads.                                               *)
OrderInv ==
  /\ Parked /\ Inits /\ StateLocks /\ InitBuffers /\ Queries /\ Undecided /\ Reading

-----------------------------------------------------------------------------
LEMMA Others ==
  /\ None \notin Buffers /\ None \notin Workers /\ None \notin Conns
  /\ None \notin Requests /\ None \notin Verdicts
  /\ \A c \in Conns : c \notin Workers
BY CommAssumption

LEMMA ServedKnown ==
  ASSUME TypeOK, Own, NEW w \in Workers, worker[w].pc \in {"got", "free", "initfree"}
  PROVE  /\ worker[w].b \in Buffers /\ Holds("worker", w, worker[w].b)
         /\ buf[worker[w].b].comm \in Conns
<1>1. worker[w].b \in Buffers /\ Holds("worker", w, worker[w].b)
  BY ThreadsHave
<1>2. buf[worker[w].b].comm # None
  BY <1>1 DEF Own, Known, Slots
<1>3. QED
  BY <1>1, <1>2 DEF TypeOK, BufOK, Contents

LEMMA NotBusy ==
  ASSUME Apart, NEW m \in Buffers, NEW k0, NEW x0, Holds(k0, x0, m),
         k0 \notin {"todo", "wait", "fetched", "worker"}
  PROVE  ~Busy(m)
<1>1. m \in Items(todo) => Holds("todo", None, m)
  BY DEF Holds, InTodo
<1>2. \A c \in Conns : m \in Items(wait[c]) => Holds("wait", c, m)
  BY DEF Holds, InWait
<1>3. \A c \in Conns : reader[c].p = m => Holds("fetched", c, m)
  BY DEF Holds, InReader
<1>4. \A w \in Workers : worker[w].b = m /\ worker[w].pc \in {"got", "initfree"} =>
        Holds("worker", w, m)
  BY DEF Holds, InWorker
<1>5. QED
  BY <1>1, <1>2, <1>3, <1>4 DEF Busy, Apart

LEMMA BusyKnown ==
  ASSUME TypeOK, Own, NEW a \in Buffers, Busy(a)
  PROVE  buf[a].comm \in Conns /\ \E k, x : k \notin Slots /\ Holds(k, x, a)
<1>1. \E k, x : k \notin Slots /\ Holds(k, x, a)
  <2>1. CASE a \in Items(todo)
    BY <2>1 DEF Holds, InTodo, Slots
  <2>2. ASSUME NEW c \in Conns, a \in Items(wait[c]) PROVE Holds("wait", c, a)
    BY <2>2 DEF Holds, InWait
  <2>3. ASSUME NEW c \in Conns, reader[c].p = a PROVE Holds("fetched", c, a)
    BY <2>3 DEF Holds, InReader
  <2>4. ASSUME NEW w \in Workers, worker[w].b = a, worker[w].pc \in {"got", "initfree"}
        PROVE  Holds("worker", w, a)
    BY <2>4 DEF Holds, InWorker
  <2>5. {"wait", "fetched", "worker"} \cap Slots = {}
    BY DEF Slots
  <2>6. QED
    BY <2>1, <2>2, <2>3, <2>4, <2>5 DEF Busy
<1>2. buf[a].comm # None
  BY <1>1 DEF Own, Known
<1>3. QED
  BY <1>1, <1>2 DEF TypeOK, BufOK, Contents

LEMMA NotBusyWorker ==
  ASSUME Apart, NEW w \in Workers, worker[w].b \in Buffers, worker[w].pc = "free"
  PROVE  ~Busy(worker[w].b)
<1> DEFINE m == worker[w].b
<1>0. Holds("worker", w, m)
  BY DEF Holds, InWorker
<1>1. m \in Items(todo) => Holds("todo", None, m)
  BY DEF Holds, InTodo
<1>2. \A c \in Conns : m \in Items(wait[c]) => Holds("wait", c, m)
  BY DEF Holds, InWait
<1>3. \A c \in Conns : reader[c].p = m => Holds("fetched", c, m)
  BY DEF Holds, InReader
<1>4. \A v \in Workers : worker[v].b = m /\ worker[v].pc \in {"got", "initfree"} =>
        Holds("worker", v, m)
  BY DEF Holds, InWorker
<1>5. QED
  BY <1>0, <1>1, <1>2, <1>3, <1>4 DEF Busy, Apart

(* A buffer keeps what matters of it, or carries nothing of a query.       *)
Same(b) ==
  /\ buf'[b].comm = buf[b].comm /\ buf'[b].init = buf[b].init
  /\ buf'[b].req = buf[b].req /\ buf'[b].verdict = buf[b].verdict
  /\ buf'[b].phase = buf[b].phase /\ buf'[b].lock = buf[b].lock
  /\ buf'[b].to_wake = buf[b].to_wake /\ buf'[b].room = buf[b].room

(* A step that adds no query, no _init() and no lock.                      *)
Calm ==
  /\ UNCHANGED <<conn, state_lock, decided, initDone>> /\ seen \subseteq seen'
  /\ \A b \in Buffers : Busy(b) => Busy(b)' /\ Same(b)
  /\ \A b \in Buffers : Same(b) \/ Inert(buf'[b])
  /\ \A w \in Workers :
       /\ worker'[w].pc \in {"send", "park"} =>
            /\ worker[w].pc \in {"send", "park"}
            /\ worker'[w].b = worker[w].b /\ worker'[w].phase = worker[w].phase
       /\ worker[w].pc \in {"initfree", "initclear"} => worker'[w] = worker[w]
       /\ worker'[w].pc \in {"initfree", "initclear"} => worker'[w] = worker[w]
  /\ \A c \in Conns :
       /\ reader'[c].pc \in Filling =>
            \/ reader[c].pc \in Filling /\ reader'[c].b = reader[c].b
            \/ Inert(buf'[reader'[c].b])
       /\ reader'[c].pc = "query" =>
            \/ reader[c].pc = "query" /\ reader'[c].msg = reader[c].msg
            \/ reader'[c].msg \in Requests \ seen
       /\ reader'[c].pc = "readyanswer" => reader[c].pc = "readyanswer"

LEMMA CalmInv == ASSUME TypeOK, OrderInv, Calm PROVE OrderInv'
<1>0. /\ WorkerOK /\ None \notin Buffers /\ None \notin Requests
      /\ \A w \in Workers : worker[w].pc \in {"send", "park", "initfree"} => worker[w].b \in Buffers
  BY CommAssumption DEF TypeOK, WorkerOK
<1>1. Parked'
  BY <1>0 DEF OrderInv, Parked, Calm, Same
<1>2. Inits'
  BY DEF OrderInv, Inits, Calm, Same, Inert
<1>3. StateLocks'
  <2>1. \A w \in Workers : worker[w].pc = "initfree" => Busy(worker[w].b)
    BY DEF Busy
  <2>2. ASSUME NEW c \in Conns, NEW w \in Workers, Ending(w, c) PROVE Ending(w, c)'
    BY <1>0, <2>1, <2>2 DEF Ending, Calm, Same
  <2>3. QED
    BY <1>0, <2>1, <2>2 DEF OrderInv, StateLocks, Calm, Same
<1>4. InitBuffers'
  <2>1. \A b \in Buffers : buf[b].init => Same(b)
    BY DEF OrderInv, Inits, Calm
  <2>2. \A c \in Conns : conn[c].init_buffer \in Buffers \cup {None}
    BY DEF TypeOK, ConnOK, Connections
  <2>3. QED
    BY <2>1, <2>2 DEF OrderInv, InitBuffers, Calm, Same
<1>5. Queries'
  <2>1. \A b \in Buffers : buf[b].init => Same(b)
    BY DEF OrderInv, Inits, Calm
  <2>2. \A c : Up(c)' = Up(c)
    BY DEF Up, Calm
  <2>3. QED
    BY <2>1, <2>2 DEF OrderInv, Queries, Calm, Same, Inert
<1>6. Undecided'
  BY DEF OrderInv, Undecided, Calm
<1>7. Reading'
  <2>1. \A c \in Conns : reader[c].pc \in Filling => reader[c].b \in Buffers
    BY DEF TypeOK, ReaderOK, Filling
  <2>2. QED
    BY <2>1 DEF OrderInv, Reading, Calm, Same, Inert
<1>8. QED
  BY <1>1, <1>2, <1>3, <1>4, <1>5, <1>6, <1>7 DEF OrderInv

-----------------------------------------------------------------------------
LEMMA FreshFits ==
  ASSUME TypeOK, Own, Available(mem)
  PROVE  /\ Fresh(mem) \in Buffers /\ ~Busy(Fresh(mem))
         /\ \A c \in Conns : reader[c].pc \in Owning => reader[c].b # Fresh(mem)
         /\ \A a \in Buffers : Fresh(mem) \notin Items(buf[a].to_wake)
<1>1. /\ Fresh(mem) \in Buffers /\ Slot(mem) \in Slots
      /\ Holds(Slot(mem), None, Fresh(mem))
      /\ \A a \in Buffers : Fresh(mem) \notin Items(buf[a].to_wake)
  BY TakesFresh
<1>2. Slot(mem) \notin {"todo", "wait", "fetched", "worker", "reader"}
  BY <1>1 DEF Slots
<1>3. ~Busy(Fresh(mem))
  BY <1>1, <1>2, NotBusy DEF Own
<1>4. \A c \in Conns : reader[c].pc \in Owning => Holds("reader", c, reader[c].b)
  BY ThreadsHave
<1>5. QED
  BY <1>1, <1>2, <1>3, <1>4 DEF Own, Apart

LEMMA ReaderFits ==
  ASSUME TypeOK, Own, NEW c \in Conns, reader[c].pc \in Owning
  PROVE  /\ reader[c].b \in Buffers /\ ~Busy(reader[c].b)
         /\ \A d \in Conns : reader[d].pc \in Owning /\ reader[d].b = reader[c].b => d = c
<1>1. \A d \in Conns : reader[d].pc \in Owning =>
        reader[d].b \in Buffers /\ Holds("reader", d, reader[d].b)
  BY ThreadsHave
<1>2. ~Busy(reader[c].b)
  BY <1>1, NotBusy DEF Own
<1>3. QED
  BY <1>1, <1>2 DEF Own, Apart

LEMMA WriterFits ==
  ASSUME TypeOK, Own, NEW c \in Conns, writer[c].b \in Buffers
  PROVE  ~Busy(writer[c].b)
<1>1. Holds("writer", c, writer[c].b)
  BY DEF Holds, InWriter
<1>2. QED
  BY <1>1, NotBusy DEF Own

LEMMA OutputFits ==
  ASSUME TypeOK, Own, NEW c \in Conns, NEW b \in Items(output[c])
  PROVE  b \in Buffers /\ ~Busy(b)
<1>1. b \in Buffers
  BY ItemsTyped DEF TypeOK, OutputOK, Queues
<1>2. Holds("output", c, b)
  BY DEF Holds, InOutput
<1>3. QED
  BY <1>1, <1>2, NotBusy DEF Own

LEMMA InertMade ==
  /\ Inert(Blank)
  /\ \A c, m : Inert(Outgoing(c, m)) /\ Inert(For(c))
BY DEF Inert, Blank, Outgoing, For

(* What the reader gets from the kernel.                                   *)
LEMMA KernelOrder ==
  ASSUME TypeOK, OrderInv, Unbroken, Orderly, NEW c \in Conns,
         KernelMoves(c) \/ ReadsAnswer(c)
  PROVE  OrderInv'
<1>1. ~ReadFails(c)
  BY DEF ReadFails, Orderly, Unbroken
<1>2. PICK pc, msg :
        /\ Reads(c, pc, msg) /\ reader[c].pc = "recv" /\ pc \in {"ready", "query", "answer"}
        /\ pc = "query" => msg \in Requests \ seen
        /\ seen \subseteq seen'
  <2>1. CASE ReadsReadyRequest(c)
    BY <2>1 DEF ReadsReadyRequest, ReaderAt, kernel
  <2>2. CASE ReadsQuery(c)
    BY <2>2 DEF ReadsQuery, ReaderAt
  <2>3. CASE ReadsStrayAnswer(c)
    <3>1. \E m : Reads(c, "answer", m)
      BY <2>3 DEF ReadsStrayAnswer
    <3>2. reader[c].pc = "recv" /\ seen' = seen
      BY <2>3 DEF ReadsStrayAnswer, ReaderAt, kernel
    <3>3. QED
      BY <3>1, <3>2
  <2>4. CASE ReadsAnswer(c)
    <3>1. \E m : Reads(c, "answer", m)
      BY <2>4 DEF ReadsAnswer
    <3>2. reader[c].pc = "recv" /\ seen' = seen
      BY <2>4 DEF ReadsAnswer, ReaderAt
    <3>3. QED
      BY <3>1, <3>2
  <2>5. QED
    BY <1>1, <2>1, <2>2, <2>3, <2>4 DEF KernelMoves
<1>3. /\ \A d \in Conns : d # c => reader'[d] = reader[d]
      /\ reader'[c].pc = pc /\ reader'[c].msg = msg
      /\ reader'[c].b = reader[c].b /\ reader'[c].p = reader[c].p
  BY <1>2 DEF Reads, TypeOK, ReaderOK, Readers
<1>4. UNCHANGED <<buf, todo, wait, conn, state_lock, worker, decided, initDone>>
  BY <1>2 DEF Reads, shared, history
<1>5. Calm
  <2>1. \A b \in Buffers : Busy(b) => Busy(b)'
    BY <1>3, <1>4 DEF Busy
  <2>2. "recv" \in Filling
    BY DEF Filling, Owning
  <2>3. QED
    BY <1>2, <1>3, <1>4, <2>1, <2>2 DEF Calm, Same
<1>6. QED
  BY <1>5, CalmInv

LEMMA EndsOrder == ASSUME TypeOK, OrderInv, NEW how, Ends(how) PROVE OrderInv'
<1>1. UNCHANGED <<shared, reader, worker, seen, decided, initDone>>
  BY DEF Ends, kernel, history
<1>2. Calm
  BY <1>1 DEF Calm, Same, shared, Busy
<1>3. QED
  BY <1>2, CalmInv

(* comm_buf_free() of a buffer that is neither queued nor served.          *)
LEMMA FreeCalm ==
  ASSUME TypeOK, Own, OrderInv, NEW b \in Buffers, ~Busy(b),
         NEW k0, NEW x0, Holds(k0, x0, b), k0 \notin Slots,
         NEW out, Free(b, buf, mem, out)
  PROVE  /\ todo' = todo
         /\ \A a \in Buffers : Busy(a) => Same(a)
         /\ \A a \in Buffers : Same(a) \/ Inert(buf'[a])
         /\ buf'[b] = Blank
<1>1. buf[b].to_wake = <<>>
  BY DEF OrderInv, Inits
<1>2. todo' = todo
  BY <1>1 DEF Free, TypeOK, TodoOK
<1>3. CASE SendsReady(b)
  <2>1. /\ Available(mem)
        /\ buf' = [buf EXCEPT ![b] = Blank,
                     ![Fresh(mem)] = Outgoing(buf[b].comm, [kind |-> "ready"])]
    BY <1>3 DEF Free
  <2>2. Fresh(mem) \in Buffers /\ ~Busy(Fresh(mem))
    BY <2>1, FreshFits
  <2>3. Fresh(mem) # b
    BY <2>1, TakesFresh DEF Own, Apart
  <2>4. /\ buf'[b] = Blank
        /\ buf'[Fresh(mem)] = Outgoing(buf[b].comm, [kind |-> "ready"])
        /\ \A a \in Buffers \ {b, Fresh(mem)} : buf'[a] = buf[a]
    BY <2>1, <2>2, <2>3 DEF TypeOK, BufOK
  <2>5. QED
    BY <1>2, <2>2, <2>4, InertMade DEF Same
<1>4. CASE ~SendsReady(b)
  <2>1. buf' = [buf EXCEPT ![b] = Blank]
    BY <1>4 DEF Free
  <2>2. QED
    BY <1>2, <2>1, InertMade DEF Same, TypeOK, BufOK
<1>5. QED
  BY <1>3, <1>4

(* A buffer taken for a message.                                           *)
LEMMA FillCalm ==
  ASSUME TypeOK, Own, Available(mem), NEW x, Inert(x),
         buf' = [buf EXCEPT ![Fresh(mem)] = x]
  PROVE  /\ \A a \in Buffers : Busy(a) => Same(a)
         /\ \A a \in Buffers : Same(a) \/ Inert(buf'[a])
         /\ buf'[Fresh(mem)] = x /\ Fresh(mem) \in Buffers
<1>1. Fresh(mem) \in Buffers /\ ~Busy(Fresh(mem))
  BY FreshFits
<1>2. QED
  BY <1>1 DEF Same, TypeOK, BufOK

(* No thread closes a connection.                                          *)
LEMMA NoneCloses ==
  ASSUME TypeOK, Orderly, Unbroken, NEW c \in Conns
  PROVE  /\ ~ReadFails(c) /\ ~QueryRefused(c) /\ ~InitRefused(c) /\ ~ReaderFails(c) /\ ~CloseStep(c)
         /\ ~WriterFails(c) /\ ~MainReturns
<1>0. "hangup" \notin Unruly /\ conn[c].fd
  BY DEF Orderly, Unbroken
<1>1. ~ReadFails(c)
  BY <1>0 DEF ReadFails
<1>9. ~WriterFails(c)
  BY <1>0 DEF WriterFails
<1>2. ~QueryRefused(c)
  <2>1. \A v \in Nat : v >= 3 => v > 2
    OBVIOUS
  <2>2. conn[c].version \in Nat
    BY DEF TypeOK, ConnOK, Connections
  <2>3. QED
    BY <2>1, <2>2 DEF QueryRefused, ReaderAt, Unbroken
<1>7. ~InitRefused(c)
  BY DEF InitRefused, Orderly
<1>3. ~ReaderFails(c)
  BY DEF ReaderFails, ReaderAt, Unbroken, Closing
<1>4. ~CloseStep(c)
  BY DEF CloseStep, CloseOutput, CloseRelocks, CloseWait, Drained, Closed, Draining,
         Dropping, ReaderAt, WriterAt, Unbroken, Closing
<1>5. ~MainReturns
  BY CommAssumption DEF MainReturns, ReaderAt, Unbroken, Closing
<1>6. QED
  BY <1>1, <1>2, <1>3, <1>4, <1>5, <1>7, <1>9

(* Threads that go on with a connection go on with it in order.            *)
GoesOn ==
  \A c \in Conns :
    /\ conn'[c].fd = conn[c].fd /\ conn'[c].version = conn[c].version
    /\ \/ conn'[c].state = conn[c].state
       \/ conn'[c].state = 1 /\ reader'[c].pc # "ready"
    /\ reader'[c].pc = reader[c].pc \/ reader'[c].pc \notin Closing \cup {"query", "ready"}
    /\ \/ reader'[c].pc = "body" \/ reader'[c].p = None
       \/ reader'[c].p = reader[c].p /\ reader[c].pc # "body"
    /\ writer'[c].pc = writer[c].pc \/ writer'[c].pc \in {"wait", "take", "free"}

LEMMA GoesOnUnbroken == ASSUME TypeOK, Unbroken, GoesOn PROVE Unbroken'
BY DEF GoesOn, Unbroken, TypeOK, ConnOK, Connections

LEMMA ReaderGoesOnUnbroken ==
  ASSUME TypeOK, Unbroken, NEW c \in Conns, UNCHANGED <<conn, writer>>,
         NEW pc, pc \notin Closing \cup {"query", "ready"},
         \A d \in Conns \ {c} : reader'[d] = reader[d],
         reader'[c].pc = pc,
         \/ pc = "body" \/ reader'[c].p = None
         \/ reader'[c].p = reader[c].p /\ reader[c].pc # "body"
  PROVE  Unbroken'
BY GoesOnUnbroken DEF GoesOn

LEMMA ConnInitGoesOn ==
  ASSUME TypeOK, NEW c \in Conns, ConnInit(c, buf)
  PROVE  \A d \in Conns : /\ conn'[d].fd = conn[d].fd /\ conn'[d].version = conn[d].version
                          /\ conn'[d].function_init = conn[d].function_init
                          /\ conn'[d].state = IF d = c THEN 1 ELSE conn[d].state
                          /\ conn'[d].init_buffer =
                               IF d = c /\ conn[c].function_init THEN Fresh(mem)
                               ELSE conn[d].init_buffer
BY DEF ConnInit, TypeOK, ConnOK, Connections

LEMMA KernelUnbroken ==
  ASSUME TypeOK, Orderly, Unbroken, NEW c \in Conns, KernelMoves(c) \/ ReadsAnswer(c)
  PROVE  Unbroken'
<1>0. ~ReadFails(c)
  BY NoneCloses
<1>1. ASSUME NEW pc, NEW msg, Reads(c, pc, msg),
             pc \in {"answer", "query", "ready"},
             pc = "query" /\ conn[c].version > 2 => conn[c].state = 1,
             pc = "ready" => conn[c].state = 0, reader[c].pc = "recv"
      PROVE  Unbroken'
  <2>1. /\ \A d \in Conns : reader'[d].pc = IF d = c THEN pc ELSE reader[d].pc
        /\ \A d \in Conns : reader'[d].p = reader[d].p
        /\ UNCHANGED <<conn, writer>>
    BY <1>1 DEF Reads, shared, TypeOK, ReaderOK, Readers
  <2>2. pc \notin Closing
    BY <1>1 DEF Closing
  <2>3. QED
    BY <1>1, <2>1, <2>2 DEF Unbroken
<1>2. CASE ReadsReadyRequest(c)
  BY <1>1, <1>2 DEF ReadsReadyRequest, ReaderAt
<1>3. CASE ReadsQuery(c)
  <2>1. conn[c].version > 2 => conn[c].state = 1
    <3>1. "early query" \notin Unruly /\ conn[c].version \in Nat
      BY DEF Orderly, TypeOK, ConnOK, Connections
    <3>2. conn[c].version < 3 \/ conn[c].state = 1
      BY <1>3, <3>1 DEF ReadsQuery
    <3>3. \A v \in Nat : v < 3 => ~(v > 2)
      OBVIOUS
    <3>4. QED
      BY <3>1, <3>2, <3>3
  <2>2. QED
    BY <1>1, <1>3, <2>1 DEF ReadsQuery, ReaderAt
<1>4. CASE ReadsAnswer(c) \/ ReadsStrayAnswer(c)
  BY <1>1, <1>4 DEF ReadsAnswer, ReadsStrayAnswer, ReaderAt
<1>5. QED
  BY <1>0, <1>2, <1>3, <1>4 DEF KernelMoves

LEMMA ReaderUnbroken ==
  ASSUME TypeOK, Orderly, Unbroken, NEW c \in Conns, ReaderStep(c)
  PROVE  Unbroken'
<1>0. ~QueryRefused(c) /\ ~InitRefused(c) /\ ~ReaderFails(c)
  BY NoneCloses
<1>1. ASSUME NEW pc \in {"recv", "free", "todo", "check", "get", "body"},
             UNCHANGED <<conn, writer>>,
             \A d \in Conns \ {c} : reader'[d] = reader[d],
             reader'[c].pc = pc,
             \/ pc = "body" \/ reader'[c].p = None
             \/ reader'[c].p = reader[c].p /\ reader[c].pc # "body"
      PROVE  Unbroken'
  <2>1. pc \notin Closing \cup {"query", "ready"}
    BY DEF Closing
  <2>2. QED
    BY <1>1, <2>1, ReaderGoesOnUnbroken
<1>2. CASE ReaderGets(c) \/ ReadyAnswer(c)
  BY <1>1, <1>2 DEF ReaderGets, ReadyAnswer, ReaderAt, TypeOK, ReaderOK, Readers
<1>3. CASE ReadyRequest(c)
  <2> DEFINE pc == IF conn[c].function_init THEN "free" ELSE "readyanswer"
  <2>1. /\ \A d \in Conns : reader'[d].pc = IF d = c THEN pc ELSE reader[d].pc
        /\ \A d \in Conns : reader'[d].p = reader[d].p
        /\ UNCHANGED writer /\ ConnInit(c, buf) /\ reader[c].pc = "ready"
    BY <1>3 DEF ReadyRequest, ReaderAt, TypeOK, ReaderOK, Readers
  <2>2. pc \notin Closing \cup {"query", "ready"}
    BY DEF Closing
  <2> HIDE DEF pc
  <2>3. GoesOn
    BY <2>1, <2>2, ConnInitGoesOn DEF GoesOn, Unbroken
  <2>4. QED
    BY <2>3, GoesOnUnbroken
<1>4. CASE QueryInits(c)
  <2>1. UNCHANGED <<writer, reader>> /\ ConnInit(c, buf) /\ reader[c].pc = "query"
    BY <1>4 DEF QueryInits, ReaderAt
  <2>2. GoesOn
    BY <2>1, ConnInitGoesOn DEF GoesOn, Unbroken
  <2>3. QED
    BY <2>2, GoesOnUnbroken
<1>5. CASE QueryWaits(c) \/ QueryPasses(c) \/ QueryQueued(c)
  BY <1>1, <1>5 DEF ReaderAt, QueryWaits, QueryPasses, QueryQueued, TypeOK, ReaderOK, Readers
<1>6. ASSUME NEW how, Ends(how) PROVE Unbroken'
  BY <1>6 DEF Ends, shared, Unbroken
<1>7. CASE QueryDangles(c) \/ AnswerUnexpected(c)
  BY <1>6, <1>7 DEF QueryDangles, AnswerUnexpected
<1>8. CASE ReaderChecks(c)
  <2>1. CASE Ends("undefined")
    BY <1>6, <2>1
  <2>2. CASE ~Ends("undefined")
    BY <1>1, <1>8, <2>2 DEF ReaderChecks, ReaderIdle, shared, TypeOK, ReaderOK, Readers
  <2>3. QED
    BY <2>1, <2>2
<1>9. CASE UpdateAnswered(c) \/ FetchFailed(c) \/ FetchDone(c)
  BY <1>1, <1>9 DEF AnswerRead, ReaderAt, UpdateAnswered, FetchFailed, FetchDone, TypeOK, ReaderOK, Readers
<1>10. CASE FetchAnswered(c)
  BY <1>1, <1>10 DEF FetchAnswered, TypeOK, ReaderOK, Readers
<1>11. CASE ReaderFrees(c)
  BY <1>1, <1>11 DEF ReaderFrees, ReaderIdle, TypeOK, ReaderOK, Readers
<1>12. QED
  BY <1>0, <1>2, <1>3, <1>4, <1>5, <1>7, <1>8, <1>9, <1>10, <1>11 DEF ReaderStep

LEMMA ConnStays ==
  ASSUME NEW w \in Workers, WorkerStep(w), ~InitClears(w) PROVE UNCHANGED conn
<1>1. CASE WorkerTakes(w) \/ WorkerSends(w) \/ WorkerParks(w)
  BY <1>1 DEF WorkerTakes, WorkerSends, WorkerParks
<1>2. CASE EventAsks(w) \/ AnswerUpdates(w)
  BY <1>2, ZenonT(60) DEF EventAsks, AnswerUpdates, Asks
<1>3. CASE EventDecides(w)
  BY <1>3, Zenon DEF EventDecides
<1>4. CASE Resizes(w) \/ WorkerFrees(w) \/ InitFrees(w)
  BY <1>4 DEF Resizes, WorkerFrees, InitFrees
<1>5. CASE AnswerSends(w) \/ InitWakes(w)
  BY <1>5 DEF AnswerSends, InitWakes
<1>6. QED
  BY <1>1, <1>2, <1>3, <1>4, <1>5 DEF WorkerStep

(* Without a hangup no thread ever closes a connection.                    *)
LEMMA NextUnbroken == Orderly => (TypeOK /\ Unbroken /\ [Next]_vars => Unbroken')
<1> SUFFICES ASSUME Orderly, TypeOK, Unbroken, [Next]_vars PROVE Unbroken'
  OBVIOUS
<1>0. ASSUME NEW how, Ends(how) PROVE Unbroken'
  BY <1>0 DEF Ends, shared, Unbroken
<1>1. CASE UNCHANGED vars
  BY <1>1 DEF vars, shared, Unbroken
<1>2. ASSUME NEW c \in Conns, WriterStep(c) PROVE Unbroken'
  <2>1. CASE WriterFindsNull(c)
    BY <1>0, <2>1 DEF WriterFindsNull
  <2>2. CASE ~WriterFindsNull(c)
    <3>1. ~WriterFails(c)
      BY NoneCloses
    <3>2. UNCHANGED <<conn, reader>> /\ writer'[c].pc \in {"wait", "take", "free"}
          /\ \A d \in Conns \ {c} : writer'[d] = writer[d]
      BY <1>2, <2>2, <3>1
         DEF WriterStep, WriterWaits, WriterSkips, WriterWrites, WriterFrees, WriterIdle,
             TypeOK, WriterOK
    <3>3. GoesOn
      BY <3>2 DEF GoesOn, Unbroken
    <3>4. QED
      BY <3>3, GoesOnUnbroken
  <2>3. QED
    BY <2>1, <2>2
<1>3. ASSUME NEW w \in Workers, WorkerStep(w) PROVE Unbroken'
  <2>1. UNCHANGED <<reader, writer>>
    <3>1. CASE WorkerTakes(w) \/ WorkerSends(w) \/ WorkerParks(w)
      BY <3>1 DEF WorkerTakes, WorkerSends, WorkerParks
    <3>2. CASE EventAsks(w) \/ AnswerUpdates(w)
      BY <3>2, ZenonT(60) DEF EventAsks, AnswerUpdates, Asks
    <3>3. CASE EventDecides(w)
      BY <3>3, Zenon DEF EventDecides
    <3>4. CASE Resizes(w) \/ WorkerFrees(w) \/ InitFrees(w)
      BY <3>4 DEF Resizes, WorkerFrees, InitFrees
    <3>5. CASE AnswerSends(w) \/ InitWakes(w) \/ InitClears(w)
      BY <3>5 DEF AnswerSends, InitWakes, InitClears
    <3>6. QED
      BY <1>3, <3>1, <3>2, <3>3, <3>4, <3>5 DEF WorkerStep
  <2>2. \A c \in Conns : /\ conn'[c].fd = conn[c].fd /\ conn'[c].version = conn[c].version
                         /\ conn'[c].state = conn[c].state
    <3>1. CASE InitClears(w)
      BY <3>1 DEF InitClears, TypeOK, ConnOK, Connections
    <3>2. CASE ~InitClears(w)
      BY <1>3, <3>2, ConnStays
    <3>3. QED
      BY <3>1, <3>2
  <2>3. GoesOn
    BY <2>1, <2>2 DEF GoesOn, Unbroken
  <2>4. QED
    BY <2>3, GoesOnUnbroken
<1>4. ASSUME NEW c \in Conns, KernelMoves(c) \/ ReadsAnswer(c) \/ ReaderStep(c)
      PROVE  Unbroken'
  BY <1>4, KernelUnbroken, ReaderUnbroken
<1>5. ~MainReturns /\ \A c \in Conns : ~CloseStep(c)
  BY CommAssumption, NoneCloses
<1>6. QED
  BY <1>1, <1>2, <1>3, <1>4, <1>5 DEF Next, Done

-----------------------------------------------------------------------------
LEMMA LeavesWait ==
  ASSUME TypeOK, Own, NEW c \in Conns, NEW op, Waiters(c, op) # {}, NoLongerWaits(c, op)
  PROVE  /\ Waiter(c, op) \in Buffers /\ Waiter(c, op) \in Items(wait[c])
         /\ \A d \in Conns : Items(wait[d]) \ {Waiter(c, op)} \subseteq Items(wait'[d])
<1> DEFINE i == Match(c, op)
<1>1. Waiter(c, op) \in Buffers /\ i \in DOMAIN wait[c] /\ Waiter(c, op) = wait[c][i]
  BY WaiterOK DEF TypeOK, Waiter
<1>2. wait[c] \in Seq(Buffers) /\ Once(wait[c])
  BY DEF TypeOK, WaitOK, Queues, Own, Lists
<1>3. \A d \in Conns : wait'[d] = IF d = c THEN Without(wait[c], i) ELSE wait[d]
  BY DEF NoLongerWaits, TypeOK, WaitOK, Queues
<1> HIDE DEF i
<1>4. Items(Without(wait[c], i)) = Items(wait[c]) \ {wait[c][i]} /\ wait[c][i] \in Items(wait[c])
  BY <1>1, <1>2, WithoutItems
<1>5. QED
  BY <1>1, <1>3, <1>4

LEMMA ToTodoItems ==
  ASSUME TypeOK, NEW b \in Buffers, todo' = comm_buf_to_queue(todo, b)
  PROVE  Items(todo') = Items(todo) \cup {b}
BY AppendItems DEF comm_buf_to_queue, TypeOK, TodoOK

LEMMA WakeSame ==
  ASSUME TypeOK, NEW p \in Buffers, NEW out, Wake(p, out)
  PROVE  /\ \A b \in Buffers : Same(b)
         /\ Items(todo') = Items(todo) \cup {p}
<1> DEFINE x == [buf[p] EXCEPT !.user_data = out, !.waiting = [@ EXCEPT !.to = None]]
<1>1. buf[p] \in Contents
  BY DEF TypeOK, BufOK
<1>2. buf' = [buf EXCEPT ![p] = x]
  BY DEF Wake
<1>3. /\ x.comm = buf[p].comm /\ x.init = buf[p].init /\ x.req = buf[p].req
      /\ x.verdict = buf[p].verdict /\ x.phase = buf[p].phase /\ x.lock = buf[p].lock
      /\ x.to_wake = buf[p].to_wake /\ x.room = buf[p].room
  BY <1>1 DEF Contents
<1> HIDE DEF x
<1>4. \A b \in Buffers : buf'[b] = IF b = p THEN x ELSE buf[b]
  BY <1>2 DEF TypeOK, BufOK
<1>5. \A b \in Buffers : Same(b)
  BY <1>3, <1>4 DEF Same
<1>6. Items(todo') = Items(todo) \cup {p}
  BY ToTodoItems DEF Wake
<1>7. QED
  BY <1>5, <1>6

(* A step of a reader that goes on to where it fills no other buffer.      *)
LEMMA ReaderCalm ==
  ASSUME TypeOK, NEW c \in Conns,
         UNCHANGED <<conn, state_lock, worker, seen, decided, initDone>>,
         \A b \in Buffers : Busy(b) => Busy(b)' /\ Same(b),
         \A b \in Buffers : Same(b) \/ Inert(buf'[b]),
         \A d \in Conns \ {c} : reader'[d] = reader[d],
         reader'[c].pc \in {"get", "check", "free", "body"},
         reader'[c].pc \in {"free", "body"} =>
           reader[c].pc \in Filling /\ reader'[c].b = reader[c].b
  PROVE  Calm
BY DEF Calm, Filling, Owning

LEMMA ReaderGetsOrder ==
  ASSUME TypeOK, Own, OrderInv, NEW c \in Conns, ReaderGets(c) PROVE OrderInv'
<1>1. /\ Available(mem) /\ buf' = [buf EXCEPT ![Fresh(mem)] = For(c)]
      /\ reader' = [reader EXCEPT ![c].pc = "recv", ![c].b = Fresh(mem)]
      /\ UNCHANGED <<todo, conn, state_lock, wait, worker, seen, decided, initDone>>
  BY DEF ReaderGets, kernel, history
<1>2. /\ \A a \in Buffers : Busy(a) => Same(a)
      /\ \A a \in Buffers : Same(a) \/ Inert(buf'[a])
      /\ buf'[Fresh(mem)] = For(c)
  BY <1>1, FillCalm, InertMade
<1>3. /\ \A d \in Conns \ {c} : reader'[d] = reader[d]
      /\ reader'[c].pc = "recv" /\ reader'[c].b = Fresh(mem) /\ reader'[c].p = reader[c].p
  BY <1>1 DEF TypeOK, ReaderOK, Readers
<1>4. \A a \in Buffers : Busy(a) => Busy(a)'
  BY <1>1, <1>3 DEF Busy
<1>5. Calm
  BY <1>1, <1>2, <1>3, <1>4, InertMade, ZenonT(60) DEF Calm
<1>6. QED
  BY <1>5, CalmInv

LEMMA ReadyAnswerOrder ==
  ASSUME TypeOK, Own, OrderInv, NEW c \in Conns, ReadyAnswer(c) PROVE OrderInv'
<1>1. /\ Available(mem) /\ buf' = [buf EXCEPT ![Fresh(mem)] = Outgoing(c, [kind |-> "ready"])]
      /\ reader' = [reader EXCEPT ![c].pc = "free"]
      /\ reader[c].pc = "readyanswer"
      /\ UNCHANGED <<todo, conn, state_lock, wait, worker, seen, decided, initDone>>
  BY DEF ReadyAnswer, ReaderAt, kernel, history
<1>2. /\ \A a \in Buffers : Busy(a) => Same(a)
      /\ \A a \in Buffers : Same(a) \/ Inert(buf'[a])
  BY <1>1, FillCalm, InertMade
<1>3. /\ \A d \in Conns \ {c} : reader'[d] = reader[d]
      /\ reader'[c].pc = "free" /\ reader'[c].b = reader[c].b /\ reader'[c].p = reader[c].p
  BY <1>1 DEF TypeOK, ReaderOK, Readers
<1>4. \A a \in Buffers : Busy(a) => Busy(a)'
  BY <1>1, <1>3 DEF Busy
<1>5. reader[c].pc \in Filling
  BY <1>1 DEF Filling, Owning
<1>6. Calm
  BY <1>1, <1>2, <1>3, <1>4, <1>5, ReaderCalm
<1>7. QED
  BY <1>6, CalmInv

(* Answers of the kernel, and queries that go their way.                   *)
LEMMA ReaderAnswersOrder ==
  ASSUME TypeOK, Own, OrderInv, NEW c \in Conns,
         Unbroken,
         \/ QueryQueued(c) \/ ReaderChecks(c)
         \/ UpdateAnswered(c) \/ FetchFailed(c) \/ FetchAnswered(c) \/ FetchDone(c)
  PROVE  OrderInv'
<1>0. \A b \in Buffers : buf' = buf => Same(b)
  BY DEF Same
<1>1. CASE QueryQueued(c)
  <2>1. /\ todo' = comm_buf_to_queue(todo, reader[c].b)
        /\ reader' = [reader EXCEPT ![c].pc = "check"]
        /\ reader[c].pc = "todo"
        /\ UNCHANGED <<buf, wait, conn, state_lock, worker, seen, decided, initDone>>
    BY <1>1 DEF QueryQueued, ReaderAt, kernel, history
  <2>2. reader[c].b \in Buffers
    BY <2>1 DEF TypeOK, ReaderOK, Owning
  <2>3. Items(todo') = Items(todo) \cup {reader[c].b}
    BY <2>1, <2>2, ToTodoItems
  <2>4. /\ \A d \in Conns \ {c} : reader'[d] = reader[d]
        /\ reader'[c].pc = "check" /\ reader'[c].p = reader[c].p
    BY <2>1 DEF TypeOK, ReaderOK, Readers
  <2>5. \A a \in Buffers : Busy(a) => Busy(a)'
    BY <2>1, <2>3, <2>4 DEF Busy
  <2>6. QED
    BY <1>0, <2>1, <2>4, <2>5, ReaderCalm, CalmInv
<1>2. CASE ReaderChecks(c)
  <2>1. CASE Ends("undefined")
    BY <2>1, EndsOrder
  <2>2. CASE ~Ends("undefined")
    <3>1. /\ reader' = [reader EXCEPT ![c] = ReaderIdle] /\ reader[c].pc = "check"
          /\ UNCHANGED <<buf, todo, wait, conn, state_lock, worker, seen, decided, initDone>>
      BY <1>2, <2>2 DEF ReaderChecks, ReaderAt, shared, kernel, history
    <3>2. /\ \A d \in Conns \ {c} : reader'[d] = reader[d]
          /\ reader'[c].pc = "get"
      BY <3>1 DEF TypeOK, ReaderOK, ReaderIdle
    <3>3. reader[c].p = None
      BY <3>1 DEF Unbroken
    <3>4. \A a \in Buffers : Busy(a) => Busy(a)'
      BY <3>1, <3>2, <3>3, CommAssumption DEF Busy
    <3>5. QED
      BY <1>0, <3>1, <3>2, <3>4, ReaderCalm, CalmInv
  <2>3. QED
    BY <2>1, <2>2
<1>3. CASE UpdateAnswered(c)
  <2> DEFINE op == reader[c].msg.op
             p == Waiter(c, op)
  <2>1. /\ Waiters(c, op) # {} /\ NoLongerWaits(c, op) /\ Wake(p, reader[c].msg.outcome)
        /\ reader' = [reader EXCEPT ![c].pc = "free"] /\ reader[c].pc = "answer"
        /\ UNCHANGED <<conn, state_lock, worker, seen, decided, initDone>>
    BY <1>3 DEF UpdateAnswered, AnswerRead, ReaderAt, kernel, history
  <2>2. p \in Buffers /\ \A d \in Conns : Items(wait[d]) \ {p} \subseteq Items(wait'[d])
    BY <2>1, LeavesWait
  <2>3. /\ \A b \in Buffers : Same(b)
        /\ Items(todo') = Items(todo) \cup {p}
    BY <2>1, <2>2, WakeSame
  <2>4. /\ \A d \in Conns \ {c} : reader'[d] = reader[d]
        /\ reader'[c].pc = "free" /\ reader'[c].b = reader[c].b /\ reader'[c].p = reader[c].p
    BY <2>1 DEF TypeOK, ReaderOK, Readers
  <2> HIDE DEF op, p
  <2>5. \A a \in Buffers : Busy(a) => Busy(a)'
    BY <2>1, <2>2, <2>3, <2>4 DEF Busy
  <2>6. reader[c].pc \in Filling
    BY <2>1 DEF Filling, Owning
  <2>7. QED
    BY <2>1, <2>3, <2>4, <2>5, <2>6, ReaderCalm, CalmInv
<1>4. CASE FetchFailed(c)
  <2> DEFINE op == reader[c].msg.op
             p == Waiter(c, op)
  <2>1. /\ reader' = [reader EXCEPT ![c].pc = "free"] /\ reader[c].pc = "answer"
        /\ UNCHANGED <<buf, conn, state_lock, worker, seen, decided, initDone>>
        /\ IF Waiters(c, op) # {}
           THEN NoLongerWaits(c, op) /\ todo' = comm_buf_to_queue(todo, p)
           ELSE UNCHANGED <<wait, todo>>
    BY <1>4 DEF FetchFailed, AnswerRead, ReaderAt, kernel, history
  <2>2. /\ \A d \in Conns \ {c} : reader'[d] = reader[d]
        /\ reader'[c].pc = "free" /\ reader'[c].b = reader[c].b /\ reader'[c].p = reader[c].p
    BY <2>1 DEF TypeOK, ReaderOK, Readers
  <2>3. \A a \in Buffers : Busy(a) => Busy(a)'
    <3>1. CASE Waiters(c, op) # {}
      <4>1. p \in Buffers /\ \A d \in Conns : Items(wait[d]) \ {p} \subseteq Items(wait'[d])
        BY <2>1, <3>1, LeavesWait
      <4>2. Items(todo') = Items(todo) \cup {p}
        BY <2>1, <3>1, <4>1, ToTodoItems
      <4> HIDE DEF p
      <4>3. QED
        BY <2>1, <2>2, <4>1, <4>2 DEF Busy
    <3>2. CASE Waiters(c, op) = {}
      BY <2>1, <2>2, <3>2 DEF Busy
    <3>3. QED
      BY <3>1, <3>2
  <2>4. reader[c].pc \in Filling
    BY <2>1 DEF Filling, Owning
  <2>5. QED
    BY <1>0, <2>1, <2>2, <2>3, <2>4, ReaderCalm, CalmInv
<1>5. CASE FetchAnswered(c)
  <2> DEFINE op == reader[c].msg.op
             p == Waiter(c, op)
  <2>1. /\ Waiters(c, op) # {} /\ NoLongerWaits(c, op)
        /\ reader' = [reader EXCEPT ![c].pc = "body", ![c].p = p]
        /\ reader[c].pc = "answer"
        /\ UNCHANGED <<buf, todo, conn, state_lock, worker, seen, decided, initDone>>
    BY <1>5 DEF FetchAnswered, AnswerRead, ReaderAt, kernel, history
  <2>2. p \in Buffers /\ \A d \in Conns : Items(wait[d]) \ {p} \subseteq Items(wait'[d])
    BY <2>1, LeavesWait
  <2> HIDE DEF op, p
  <2>3. /\ \A d \in Conns \ {c} : reader'[d] = reader[d]
        /\ reader'[c].pc = "body" /\ reader'[c].b = reader[c].b /\ reader'[c].p = p
    BY <2>1 DEF TypeOK, ReaderOK, Readers
  <2>4. reader[c].p = None
    BY <2>1 DEF Unbroken
  <2>5. \A a \in Buffers : Busy(a) => Busy(a)'
    BY <2>1, <2>2, <2>3, <2>4, CommAssumption, ZenonT(60) DEF Busy
  <2>6. reader[c].pc \in Filling
    BY <2>1 DEF Filling, Owning
  <2>7. QED
    BY <1>0, <2>1, <2>3, <2>5, <2>6, ReaderCalm, CalmInv
<1>6. CASE FetchDone(c)
  <2> DEFINE p == reader[c].p
  <2>1. /\ Wake(p, "ok") /\ reader[c].pc = "body"
        /\ reader' = [reader EXCEPT ![c].pc = "free", ![c].p = None]
        /\ UNCHANGED <<wait, conn, state_lock, worker, seen, decided, initDone>>
    BY <1>6 DEF FetchDone, ReaderAt, kernel, history
  <2>2. p \in Buffers
    BY <2>1 DEF TypeOK, ReaderOK
  <2>3. /\ \A b \in Buffers : Same(b)
        /\ Items(todo') = Items(todo) \cup {p}
    BY <2>1, <2>2, WakeSame
  <2>4. /\ \A d \in Conns \ {c} : reader'[d] = reader[d]
        /\ reader'[c].pc = "free" /\ reader'[c].b = reader[c].b
    BY <2>1 DEF TypeOK, ReaderOK, Readers
  <2>5. \A a \in Buffers : Busy(a) => Busy(a)'
    BY <2>1, <2>3, <2>4 DEF Busy
  <2>6. reader[c].pc \in Filling
    BY <2>1 DEF Filling, Owning
  <2>7. QED
    BY <2>1, <2>3, <2>4, <2>5, <2>6, ReaderCalm, CalmInv
<1>7. QED
  BY <1>1, <1>2, <1>3, <1>4, <1>5, <1>6

LEMMA ReaderFreesOrder ==
  ASSUME TypeOK, Own, OrderInv, Unbroken, NEW c \in Conns, ReaderFrees(c) PROVE OrderInv'
<1> DEFINE b == reader[c].b
<1>1. /\ Free(b, buf, mem, output) /\ reader[c].pc = "free"
      /\ reader' = [reader EXCEPT ![c] = ReaderIdle]
      /\ UNCHANGED <<wait, conn, state_lock, worker, seen, decided, initDone>>
  BY DEF ReaderFrees, ReaderAt, kernel, history
<1>2. reader[c].pc \in Owning
  BY <1>1 DEF Owning
<1>3. b \in Buffers /\ ~Busy(b) /\ Holds("reader", c, b) /\ "reader" \notin Slots
  BY <1>2, ReaderFits, ThreadsHave DEF Slots
<1>4. /\ todo' = todo
      /\ \A a \in Buffers : Busy(a) => Same(a)
      /\ \A a \in Buffers : Same(a) \/ Inert(buf'[a])
  BY <1>1, <1>3, FreeCalm
<1>5. /\ \A d \in Conns \ {c} : reader'[d] = reader[d]
      /\ reader'[c].pc = "get" /\ reader[c].p = None
  BY <1>1 DEF TypeOK, ReaderOK, ReaderIdle, Unbroken
<1>6. \A a \in Buffers : Busy(a) => Busy(a)'
  BY <1>1, <1>4, <1>5, CommAssumption DEF Busy
<1>7. QED
  BY <1>1, <1>4, <1>5, <1>6, ReaderCalm, CalmInv

LEMMA WriterOrder ==
  ASSUME TypeOK, Own, OrderInv, Orderly, Unbroken, NEW c \in Conns, WriterStep(c)
  PROVE  OrderInv'
<1>1. ASSUME UNCHANGED <<todo, wait, reader, conn, state_lock, worker, seen, decided, initDone>>,
             \A a \in Buffers : Busy(a) => Same(a),
             \A a \in Buffers : Same(a) \/ Inert(buf'[a])
      PROVE  OrderInv'
  <2>1. Calm
    BY <1>1 DEF Calm, Busy
  <2>2. QED
    BY <2>1, CalmInv
<1>2. CASE WriterWaits(c) \/ WriterWrites(c)
  <2>1. UNCHANGED <<buf, todo, wait, reader, conn, state_lock, worker, seen, decided, initDone>>
    BY <1>2 DEF WriterWaits, WriterWrites, Delivers, kernel, history
  <2>2. \A a \in Buffers : Same(a)
    BY <2>1 DEF Same
  <2>3. QED
    BY <1>1, <2>1, <2>2
<1>3. CASE WriterSkips(c)
  <2>1. /\ output[c] # <<>>
        /\ Free(First(c), buf, mem, [output EXCEPT ![c] = comm_buf_from_queue(@)])
        /\ UNCHANGED <<wait, reader, conn, state_lock, worker, seen, decided, initDone>>
    BY <1>3 DEF WriterSkips, kernel, history
  <2>2. First(c) \in Items(output[c])
    BY <2>1, TailItems DEF First, TypeOK, OutputOK, Queues, Own, Lists
  <2>3. /\ First(c) \in Buffers /\ ~Busy(First(c)) /\ Holds("output", c, First(c))
        /\ "output" \notin Slots
    BY <2>2, OutputFits DEF Slots, Holds, InOutput
  <2>4. QED
    BY <1>1, <2>1, <2>3, FreeCalm
<1>4. CASE WriterFrees(c)
  <2>1. /\ Free(writer[c].b, buf, mem, output) /\ writer[c].pc = "free"
        /\ UNCHANGED <<wait, reader, conn, state_lock, worker, seen, decided, initDone>>
    BY <1>4 DEF WriterFrees, WriterAt, kernel, history
  <2>2. /\ writer[c].b \in Buffers /\ Holds("writer", c, writer[c].b) /\ ~Busy(writer[c].b)
        /\ "writer" \notin Slots
    BY <2>1, ThreadsHave, WriterFits DEF Slots
  <2>3. QED
    BY <1>1, <2>1, <2>2, FreeCalm
<1>5. CASE WriterFindsNull(c)
  BY <1>5, EndsOrder DEF WriterFindsNull
<1>6. QED
  BY <1>2, <1>3, <1>4, <1>5, NoneCloses DEF WriterStep

(* A worker takes a buffer, or lets one go.                                *)
LEMMA WorkerPassesOrder ==
  ASSUME TypeOK, Own, OrderInv, NEW w \in Workers,
         WorkerFrees(w) \/ WorkerTakes(w) \/ WorkerSends(w)
  PROVE  OrderInv'
<1>1. CASE WorkerFrees(w)
  <2> DEFINE b == worker[w].b
  <2>1. /\ Free(b, buf, mem, output) /\ worker[w].pc = "free"
        /\ worker' = [worker EXCEPT ![w] = WorkerIdle]
        /\ UNCHANGED <<wait, reader, conn, state_lock, seen, decided, initDone>>
    BY <1>1 DEF WorkerFrees, WorkerAt, kernel, history
  <2>2. b \in Buffers /\ ~Busy(b) /\ Holds("worker", w, b) /\ "worker" \notin Slots
    BY <2>1, ThreadsHave, NotBusyWorker DEF Slots, Own
  <2>3. /\ todo' = todo
        /\ \A a \in Buffers : Busy(a) => Same(a)
        /\ \A a \in Buffers : Same(a) \/ Inert(buf'[a])
    BY <2>1, <2>2, FreeCalm
  <2>4. worker'[w].pc = "idle" /\ \A v \in Workers \ {w} : worker'[v] = worker[v]
    BY <2>1 DEF TypeOK, WorkerOK, WorkerIdle
  <2>5. \A a \in Buffers : Busy(a) => Busy(a)'
    BY <2>1, <2>3, <2>4 DEF Busy
  <2>6. Calm
    BY <2>1, <2>3, <2>4, <2>5 DEF Calm
  <2>7. QED
    BY <2>6, CalmInv
<1>2. CASE WorkerTakes(w)
  <2>1. /\ worker[w].pc = "idle" /\ todo # <<>> /\ todo' = Tail(todo)
        /\ worker' = [worker EXCEPT ![w].pc = "got", ![w].b = Head(todo)]
        /\ UNCHANGED <<buf, wait, reader, conn, state_lock, seen, decided, initDone>>
    BY <1>2 DEF WorkerTakes, WorkerAt, kernel, history, comm_buf_from_queue
  <2>2. /\ worker'[w].pc = "got" /\ worker'[w].b = Head(todo)
        /\ \A v \in Workers \ {w} : worker'[v] = worker[v]
    BY <2>1 DEF TypeOK, WorkerOK, WorkersAt
  <2>3. Items(todo') = Items(todo) \ {Head(todo)}
    BY <2>1, TailItems DEF TypeOK, TodoOK, Own, Lists
  <2>4. \A a \in Buffers : Busy(a) => Busy(a)'
    BY <2>1, <2>2, <2>3 DEF Busy
  <2>5. Calm
    BY <2>1, <2>2, <2>4 DEF Calm, Same
  <2>6. QED
    BY <2>5, CalmInv
<1>3. CASE WorkerSends(w)
  <2>1. /\ worker[w].pc = "send"
        /\ worker' = [worker EXCEPT ![w].pc = "park", ![w].r = None]
        /\ UNCHANGED <<buf, todo, wait, reader, conn, state_lock, seen, decided, initDone>>
    BY <1>3 DEF WorkerSends, WorkerAt, kernel, history
  <2>2. /\ worker'[w].pc = "park" /\ worker'[w].b = worker[w].b
        /\ worker'[w].phase = worker[w].phase
        /\ \A v \in Workers \ {w} : worker'[v] = worker[v]
    BY <2>1 DEF TypeOK, WorkerOK, WorkersAt
  <2>3. \A a \in Buffers : Busy(a) => Busy(a)'
    BY <2>1, <2>2 DEF Busy
  <2>4. Calm
    BY <2>1, <2>2, <2>3 DEF Calm, Same
  <2>5. QED
    BY <2>4, CalmInv
<1>4. QED
  BY <1>1, <1>2, <1>3

(* What matters of a buffer but for its request and what waits on it.      *)
Alike(a, b) ==
  /\ buf'[a].comm = buf[b].comm /\ buf'[a].init = buf[b].init
  /\ buf'[a].verdict = buf[b].verdict /\ buf'[a].phase = buf[b].phase
  /\ buf'[a].lock = buf[b].lock /\ buf'[a].room = buf[b].room

(* A query leaves its reader, for todo or to wait for _init().             *)
QueryGoes(c, q) ==
  /\ reader[c].pc = "query"
  /\ \A a \in Buffers : Alike(a, a)
  /\ \A a \in Buffers : buf'[a].req = IF a = reader[c].b THEN reader[c].msg ELSE buf[a].req
  /\ \A a \in Buffers : Items(buf[a].to_wake) \subseteq Items(buf'[a].to_wake)
  /\ \A a \in Buffers : a # q => buf'[a].to_wake = buf[a].to_wake
  /\ q # None => buf[q].init /\ buf[q].comm = c /\ reader[c].b \in Items(buf'[q].to_wake)
  /\ q \in Buffers \cup {None}
  /\ UNCHANGED <<todo, wait, conn, worker, seen, decided, initDone>>
  /\ state_lock[c] \in {None, c} /\ state_lock' = [state_lock EXCEPT ![c] = None]
  /\ \A d \in Conns \ {c} : reader'[d] = reader[d]
  /\ reader'[c].pc \in {"check", "todo"} /\ reader'[c].p = reader[c].p

LEMMA QueryGoesOrder ==
  ASSUME TypeOK, Own, BeginInv, OrderInv, NEW c \in Conns, NEW q, QueryGoes(c, q),
         q # None \/ Up(c) = "up"
  PROVE  OrderInv'
<1> DEFINE b == reader[c].b
           r == reader[c].msg
<1>1. /\ reader[c].pc \in Filling /\ reader[c].pc \in Owning /\ reader[c].pc = "query"
      /\ reader[c].pc # "todo"
  BY DEF QueryGoes, Filling, Owning
<1>2. b \in Buffers /\ Inert(buf[b]) /\ ~Busy(b)
  BY <1>1, ReaderFits DEF OrderInv, Reading
<1>3. r \in Requests /\ r \in seen /\ ConnOf[r] = c /\ decided[r] = None
  BY <1>1 DEF OrderInv, Undecided, BeginInv, ReadOnce, TypeOK, ReaderOK
<1>4. \A a \in Buffers : Busy(a)' <=> Busy(a)
  BY DEF QueryGoes, Busy
<1>0. /\ None \notin Buffers /\ None \notin Workers
      /\ \A w \in Workers : worker[w].pc = "initfree" =>
            worker[w].b \in Buffers /\ buf[worker[w].b].comm \in Conns
  BY Others, ServedKnown
<1>5. q # None => q # b /\ q \in Buffers
  BY <1>2 DEF QueryGoes, Inert
<1>6. \A d \in Conns, w \in Workers : state_lock'[d] = w <=> state_lock[d] = w
  BY CommAssumption, ZenonT(60) DEF QueryGoes, TypeOK, LockOK
<1> HIDE DEF b, r
<1>7. Parked'
  BY <1>4 DEF OrderInv, Parked, QueryGoes, Alike, TypeOK, WorkerOK
<1>8. Inits'
  <2>1. ~buf[b].init
    BY <1>2 DEF Inert
  <2>2. ASSUME NEW a \in Buffers
        PROVE  /\ buf'[a].init = buf[a].init /\ buf'[a].comm = buf[a].comm
               /\ buf'[a].phase = buf[a].phase /\ buf'[a].room = buf[a].room
               /\ buf'[a].init => buf'[a].req = buf[a].req
               /\ buf'[a].to_wake # <<>> => buf[a].to_wake # <<>> \/ buf[a].init
    <3>1. Alike(a, a)
      BY DEF QueryGoes
    <3>2. buf'[a].req = IF a = b THEN reader[c].msg ELSE buf[a].req
      BY DEF QueryGoes, b
    <3>3. a # q => buf'[a].to_wake = buf[a].to_wake
      BY DEF QueryGoes
    <3>4. a = q => buf[a].init
      BY <1>0 DEF QueryGoes
    <3>5. QED
      BY <2>1, <3>1, <3>2, <3>3, <3>4 DEF Alike
  <2>3. conn' = conn /\ initDone' = initDone
    BY DEF QueryGoes
  <2>4. QED
    BY <1>4, <2>2, <2>3 DEF OrderInv, Inits
<1>9. StateLocks'
  <2>1. \A d \in Conns, w \in Workers : Ending(w, d)' <=> Ending(w, d)
    BY <1>0 DEF Ending, QueryGoes, Alike
  <2>3. \A d \in Conns : state_lock'[d] = IF d = c THEN None ELSE state_lock[d]
    BY DEF QueryGoes, TypeOK, LockOK
  <2>4. \A d, e \in Conns : state_lock'[d] = state_lock'[e] /\ state_lock'[d] \in Workers => d = e
    BY <1>0, <2>3 DEF OrderInv, StateLocks
  <2>5. \A d \in Conns, w \in Workers : state_lock'[d] = w => Ending(w, d)'
    BY <1>6, <2>1 DEF OrderInv, StateLocks
  <2>6. ASSUME NEW w \in Workers, worker'[w].pc = "initfree"
        PROVE  /\ state_lock'[buf'[worker'[w].b].comm] = w
               /\ buf'[worker'[w].b].lock = None /\ buf'[worker'[w].b].init
    <3>1. /\ worker[w].pc = "initfree" /\ worker'[w] = worker[w]
          /\ buf'[worker[w].b].comm = buf[worker[w].b].comm
          /\ buf'[worker[w].b].lock = buf[worker[w].b].lock
          /\ buf'[worker[w].b].init = buf[worker[w].b].init
      BY <1>0, <2>6 DEF QueryGoes, Alike
    <3>2. QED
      BY <1>0, <1>6, <3>1 DEF OrderInv, StateLocks
  <2>7. QED
    BY <2>4, <2>5, <2>6 DEF StateLocks
<1>10. InitBuffers'
  <2>1. \A d \in Conns : conn[d].init_buffer \in Buffers \cup {None}
    BY DEF TypeOK, ConnOK, Connections
  <2>2. reader'[c].pc # "readyanswer"
    BY DEF QueryGoes
  <2>3. ASSUME NEW d \in Conns
        PROVE  /\ conn[d].init_buffer # None =>
                  \/ buf'[conn[d].init_buffer].init /\ buf'[conn[d].init_buffer].comm = d
                  \/ VarData /\ conn[d].init_buffer \in Heap
                  \/ \E w \in Workers : state_lock'[d] = w /\ worker[w].pc = "initclear"
    BY <1>6, <2>1 DEF OrderInv, InitBuffers, QueryGoes, Alike
  <2>4. QED
    BY <2>2, <2>3 DEF OrderInv, InitBuffers, QueryGoes
<1>11. Queries'
  <2>1. \A d : Up(d)' = Up(d)
    BY DEF Up, QueryGoes
  <2>2. seen' = seen /\ decided' = decided
    BY DEF QueryGoes
  <2>3. ASSUME NEW a \in Buffers, a # b, buf'[a].req # None,
               NEW d, d = ConnOf[buf'[a].req]
        PROVE  /\ buf'[a].req \in seen'
               /\ \/ Up(d)' = "up"
                  \/ \E e \in Buffers : a \in Items(buf'[e].to_wake) /\ buf'[e].init /\ buf'[e].comm = d
               /\ buf'[a].phase < 1000 => decided'[buf'[a].req] = None
               /\ buf'[a].phase >= 1000 =>
                    decided'[buf'[a].req] \in Verdicts /\ buf'[a].verdict = decided'[buf'[a].req]
    <3>1. /\ buf'[a].req = buf[a].req /\ buf'[a].phase = buf[a].phase
          /\ buf'[a].verdict = buf[a].verdict
      BY <2>3 DEF QueryGoes, Alike, b
    <3>2. \/ Up(d) = "up"
          \/ \E e \in Buffers : a \in Items(buf[e].to_wake) /\ buf[e].init /\ buf[e].comm = d
      BY <2>3, <3>1 DEF OrderInv, Queries
    <3>3. \/ Up(d) = "up"
          \/ \E e \in Buffers : a \in Items(buf'[e].to_wake) /\ buf'[e].init /\ buf'[e].comm = d
      BY <3>2 DEF QueryGoes, Alike
    <3>4. /\ buf[a].req \in seen
          /\ buf[a].phase < 1000 => decided[buf[a].req] = None
          /\ buf[a].phase >= 1000 =>
               decided[buf[a].req] \in Verdicts /\ buf[a].verdict = decided[buf[a].req]
      BY <2>3, <3>1 DEF OrderInv, Queries
    <3>5. QED
      BY <2>1, <2>2, <3>1, <3>3, <3>4
  <2>4. buf'[b].req = r /\ buf'[b].phase = 0
    BY <1>2 DEF QueryGoes, Alike, Inert, b, r
  <2>5. \/ Up(c)' = "up"
        \/ \E e \in Buffers : b \in Items(buf'[e].to_wake) /\ buf'[e].init /\ buf'[e].comm = c
    BY <1>5, <2>1 DEF QueryGoes, Alike, b
  <2>6. ASSUME NEW a \in Buffers, a = b, NEW d, d = ConnOf[buf'[a].req]
        PROVE  /\ buf'[a].req \in seen'
               /\ \/ Up(d)' = "up"
                  \/ \E e \in Buffers : a \in Items(buf'[e].to_wake) /\ buf'[e].init /\ buf'[e].comm = d
               /\ buf'[a].phase < 1000 => decided'[buf'[a].req] = None
               /\ ~(buf'[a].phase >= 1000)
    BY <1>3, <2>2, <2>4, <2>5, <2>6
  <2>7. QED
    BY <2>3, <2>6 DEF Queries
<1>12. Undecided'
  BY DEF OrderInv, Undecided, QueryGoes
<1>13. Reading'
  <2>1. ASSUME NEW d \in Conns, reader'[d].pc \in Filling PROVE Inert(buf'[reader'[d].b])
    <3>1. d # c /\ reader'[d] = reader[d]
      BY <2>1 DEF QueryGoes, Filling, Owning
    <3>2. reader[d].b \in Buffers /\ reader[d].b # b /\ Inert(buf[reader[d].b])
      BY <1>1, <2>1, <3>1, ReaderFits DEF OrderInv, Reading, b, Filling
    <3>3. reader[d].b # q
      BY <1>0, <3>2 DEF QueryGoes, Inert
    <3>4. QED
      BY <3>1, <3>2, <3>3 DEF QueryGoes, Alike, Inert, b
  <2>2. QED
    BY <2>1 DEF Reading
<1>14. QED
  BY <1>7, <1>8, <1>9, <1>10, <1>11, <1>12, <1>13 DEF OrderInv

LEMMA QueryPassesOrder ==
  ASSUME TypeOK, Own, BeginInv, OrderInv, NEW c \in Conns, QueryPasses(c) PROVE OrderInv'
<1> DEFINE b == reader[c].b
           x == [buf[b] EXCEPT !.req = reader[c].msg]
<1>1. /\ reader[c].pc = "query" /\ buf' = [buf EXCEPT ![b] = x]
      /\ reader' = [reader EXCEPT ![c].pc = "todo"]
      /\ state_lock[c] \in {None, c} /\ state_lock' = [state_lock EXCEPT ![c] = None]
      /\ conn[c].state = 1 /\ conn[c].init_buffer = None
      /\ UNCHANGED <<todo, wait, conn, worker, seen, decided, initDone>>
  BY DEF QueryPasses, ReaderAt, kernel, history
<1>2. b \in Buffers
  BY <1>1 DEF TypeOK, ReaderOK, Owning
<1>3. /\ x.comm = buf[b].comm /\ x.init = buf[b].init /\ x.req = reader[c].msg
      /\ x.verdict = buf[b].verdict /\ x.phase = buf[b].phase /\ x.lock = buf[b].lock
      /\ x.to_wake = buf[b].to_wake /\ x.room = buf[b].room
  BY <1>2 DEF TypeOK, BufOK, Contents
<1> HIDE DEF x
<1>4. \A a \in Buffers : buf'[a] = IF a = b THEN x ELSE buf[a]
  BY <1>1 DEF TypeOK, BufOK
<1>5. \A d \in Conns \ {c} : reader'[d] = reader[d]
  BY <1>1 DEF TypeOK, ReaderOK
<1>6. reader'[c].pc = "todo" /\ reader'[c].p = reader[c].p
  BY <1>1 DEF TypeOK, ReaderOK, Readers
<1>7. QueryGoes(c, None)
  BY <1>1, <1>3, <1>4, <1>5, <1>6 DEF QueryGoes, Alike
<1>8. Up(c) = "up"
  BY <1>1 DEF OrderInv, InitBuffers, Up
<1>9. QED
  BY <1>7, <1>8, QueryGoesOrder

LEMMA QueryWaitsOrder ==
  ASSUME TypeOK, Own, BeginInv, OrderInv, NEW c \in Conns, QueryWaits(c) PROVE OrderInv'
<1> DEFINE b == reader[c].b
           q == conn[c].init_buffer
           x == [buf[b] EXCEPT !.req = reader[c].msg]
           y == [buf[q] EXCEPT !.to_wake = Append(@, b)]
<1>1. /\ reader[c].pc = "query"
      /\ buf' = [buf EXCEPT ![b].req = reader[c].msg, ![q].to_wake = Append(@, b)]
      /\ reader' = [reader EXCEPT ![c].pc = "check"]
      /\ state_lock[c] \in {None, c} /\ state_lock' = [state_lock EXCEPT ![c] = None]
      /\ q # None /\ ~Dangles(c)
      /\ UNCHANGED <<todo, wait, conn, worker, seen, decided, initDone>>
  BY DEF QueryWaits, ReaderAt, kernel, history, comm_buf_to_queue
<1>2. b \in Buffers
  BY <1>1 DEF TypeOK, ReaderOK, Owning
<1>3. Inert(buf[b])
  BY <1>1 DEF OrderInv, Reading, Filling, Owning
<1>4. \A w \in Workers : state_lock[c] # w
  BY <1>1, Others
<1>5. q \in Buffers /\ buf[q].init /\ buf[q].comm = c
  BY <1>1, <1>4 DEF OrderInv, InitBuffers, Dangles, TypeOK, ConnOK, Connections
<1>6. b # q
  BY <1>3, <1>5 DEF Inert
<1> HIDE DEF q
<1>7. /\ x.comm = buf[b].comm /\ x.init = buf[b].init /\ x.req = reader[c].msg
      /\ x.verdict = buf[b].verdict /\ x.phase = buf[b].phase /\ x.lock = buf[b].lock
      /\ x.to_wake = buf[b].to_wake /\ x.room = buf[b].room
  BY <1>2 DEF TypeOK, BufOK, Contents
<1>8. /\ y.comm = buf[q].comm /\ y.init = buf[q].init /\ y.req = buf[q].req
      /\ y.verdict = buf[q].verdict /\ y.phase = buf[q].phase /\ y.lock = buf[q].lock
      /\ y.to_wake = Append(buf[q].to_wake, b) /\ y.room = buf[q].room
      /\ buf[q].to_wake \in Seq(Buffers)
  BY <1>5 DEF TypeOK, BufOK, Contents
<1>9. Items(y.to_wake) = Items(buf[q].to_wake) \cup {b}
  BY <1>2, <1>8, AppendItems
<1>10. buf' = [buf EXCEPT ![b] = x, ![q] = y]
  BY <1>1, <1>2, <1>5, <1>6 DEF TypeOK, BufOK
<1> HIDE DEF x, y
<1>11. \A a \in Buffers : buf'[a] = IF a = q THEN y ELSE IF a = b THEN x ELSE buf[a]
  BY <1>2, <1>5, <1>6, <1>10 DEF TypeOK, BufOK
<1>12. \A d \in Conns \ {c} : reader'[d] = reader[d]
  BY <1>1 DEF TypeOK, ReaderOK
<1>13. reader'[c].pc = "check" /\ reader'[c].p = reader[c].p
  BY <1>1 DEF TypeOK, ReaderOK, Readers
<1>14. /\ \A a \in Buffers : Alike(a, a)
       /\ \A a \in Buffers : buf'[a].req = IF a = b THEN reader[c].msg ELSE buf[a].req
       /\ \A a \in Buffers : Items(buf[a].to_wake) \subseteq Items(buf'[a].to_wake)
       /\ \A a \in Buffers : a # q => buf'[a].to_wake = buf[a].to_wake
       /\ b \in Items(buf'[q].to_wake)
  BY <1>5, <1>6, <1>7, <1>8, <1>9, <1>11 DEF Alike
<1>15. QueryGoes(c, q)
  BY <1>1, <1>5, <1>12, <1>13, <1>14 DEF QueryGoes
<1>16. QED
  BY <1>1, <1>15, QueryGoesOrder

(* comm_conn_init()                                                        *)
LEMMA ConnInitOrder ==
  ASSUME TypeOK, Own, OrderInv, NEW c \in Conns, conn[c].state = 0, ConnInit(c, buf),
         UNCHANGED <<wait, worker, seen, decided, initDone>>,
         \A d \in Conns : state_lock'[d] = state_lock[d] \/ (d = c /\ state_lock'[c] = c /\ state_lock[c] = None),
         \A d \in Conns \ {c} : reader'[d] = reader[d],
         reader'[c].p = reader[c].p, reader'[c].b = reader[c].b,
         reader'[c].msg = reader[c].msg, reader[c].pc \in {"ready", "query"},
         \/ reader'[c].pc \in {reader[c].pc, "free"}
         \/ reader'[c].pc = "readyanswer" /\ ~conn[c].function_init
  PROVE  OrderInv'
<1> DEFINE fi == conn[c].function_init
           f == Fresh(mem)
           x == InitBuffer(c, f)
<1>1. \A d \in Conns : /\ conn'[d].version = conn[d].version
                       /\ conn'[d].function_init = conn[d].function_init
                       /\ conn'[d].state = IF d = c THEN 1 ELSE conn[d].state
                       /\ conn'[d].init_buffer = IF d = c /\ fi THEN f ELSE conn[d].init_buffer
  BY ConnInitGoesOn
<1>2. fi => /\ f \in Buffers /\ ~Busy(f)
            /\ \A d \in Conns : reader[d].pc \in Owning => reader[d].b # f
            /\ Items(todo') = Items(todo) \cup {f}
  <2>1. fi => Available(mem) /\ todo' = comm_buf_to_queue(todo, f)
    BY DEF ConnInit
  <2>2. QED
    BY <2>1, FreshFits, ToTodoItems
<1>3. \A a \in Buffers : buf'[a] = IF fi /\ a = f THEN x ELSE buf[a]
  <2>1. CASE fi
    BY <1>2, <2>1 DEF ConnInit, TypeOK, BufOK
  <2>2. CASE ~fi
    BY <2>2 DEF ConnInit
  <2>3. QED
    BY <2>1, <2>2
<1>4. /\ x.comm = c /\ x.init /\ x.phase = 0 /\ x.req = None /\ x.to_wake = <<>>
      /\ x.room = (f \notin Heap)
  BY DEF InitBuffer, For, Blank
<1>5. ~fi => todo' = todo
  BY DEF ConnInit
<1>0. /\ None \notin Buffers /\ None \notin Workers /\ c \notin Workers
      /\ \A w \in Workers : worker[w].pc \in {"send", "park", "initfree"} => worker[w].b \in Buffers
      /\ \A w \in Workers : worker[w].pc = "initfree" => buf[worker[w].b].comm \in Conns
  BY Others, ServedKnown DEF TypeOK, WorkerOK
<1> HIDE DEF fi, f, x
<1>6. /\ \A a \in Buffers : Busy(a) => Busy(a)' /\ buf'[a] = buf[a]
      /\ \A a \in Buffers : fi /\ a = f => Busy(a)'
  <2>1. \A d \in Conns : reader'[d].p = reader[d].p
    OBVIOUS
  <2>2. Items(todo) \subseteq Items(todo')
    BY <1>2, <1>5
  <2>3. \A a \in Buffers : Busy(a) => Busy(a)'
    BY <2>1, <2>2 DEF Busy
  <2>4. \A a \in Buffers : Busy(a) => buf'[a] = buf[a]
    BY <1>2, <1>3
  <2>5. \A a \in Buffers : fi /\ a = f => Busy(a)'
    BY <1>2 DEF Busy
  <2>6. QED
    BY <2>3, <2>4, <2>5
<1>7. Parked'
  BY <1>0, <1>6 DEF OrderInv, Parked
<1>8. Inits'
  <2>1. ASSUME NEW a \in Buffers, fi, a = f
        PROVE  /\ buf'[a].init => /\ Busy(a)' /\ conn'[buf'[a].comm].state = 1
                                  /\ buf'[a].phase >= 1000 => buf'[a].comm \in initDone'
                                  /\ buf'[a].req = None
               /\ buf'[a].to_wake # <<>> => buf'[a].init
               /\ ~buf'[a].room => a \in Heap /\ buf'[a].init
    <3>1. buf'[a] = x /\ Busy(a)'
      BY <1>3, <1>6, <2>1
    <3>2. conn'[c].state = 1
      BY <1>1
    <3>3. /\ buf'[a].comm = c /\ buf'[a].phase = 0 /\ buf'[a].req = None
          /\ buf'[a].to_wake = <<>> /\ buf'[a].init /\ (~buf'[a].room => a \in Heap)
      BY <1>4, <2>1, <3>1
    <3>4. QED
      BY <3>1, <3>2, <3>3
  <2>2. ASSUME NEW a \in Buffers, ~(fi /\ a = f)
        PROVE  /\ buf'[a].init => /\ Busy(a)' /\ conn'[buf'[a].comm].state = 1
                                  /\ buf'[a].phase >= 1000 => buf'[a].comm \in initDone'
                                  /\ buf'[a].req = None
               /\ buf'[a].to_wake # <<>> => buf'[a].init
               /\ ~buf'[a].room => a \in Heap /\ buf'[a].init
    <3>1. buf'[a] = buf[a]
      BY <1>3, <2>2
    <3>2. buf[a].init => buf[a].comm \in Conns
      <4>1. buf[a].init => conn[buf[a].comm].state = 1 /\ Busy(a)
        BY DEF OrderInv, Inits
      <4>2. Busy(a) => buf[a].comm \in Conns
        BY BusyKnown
      <4>3. QED
        BY <4>1, <4>2
    <3>3. QED
      BY <1>1, <1>6, <3>1, <3>2 DEF OrderInv, Inits
  <2>3. QED
    BY <2>1, <2>2 DEF Inits
<1>9. StateLocks'
  <2>1. \A w \in Workers : worker[w].pc = "initfree" => Busy(worker[w].b)
    BY DEF Busy
  <2>2. \A d \in Conns, w \in Workers : Ending(w, d)' <=> Ending(w, d)
    BY <1>0, <1>6, <2>1 DEF Ending
  <2>3. \A d \in Conns, w \in Workers : state_lock'[d] = w <=> state_lock[d] = w
    BY <1>0
  <2>4. ASSUME NEW w \in Workers, worker'[w].pc = "initfree"
        PROVE  /\ state_lock'[buf'[worker'[w].b].comm] = w
               /\ buf'[worker'[w].b].lock = None /\ buf'[worker'[w].b].init
    BY <1>0, <1>6, <2>1, <2>3, <2>4 DEF OrderInv, StateLocks
  <2>5. \A d \in Conns, w \in Workers : state_lock'[d] = w => Ending(w, d)'
    BY <2>2, <2>3 DEF OrderInv, StateLocks
  <2>6. \A d, e \in Conns : state_lock'[d] = state_lock'[e] /\ state_lock'[d] \in Workers => d = e
    BY <1>0 DEF OrderInv, StateLocks
  <2>7. QED
    BY <2>4, <2>5, <2>6 DEF StateLocks
<1>10. InitBuffers'
  <2>1. ASSUME NEW d \in Conns, d # c, conn[d].init_buffer # None
        PROVE  \/ buf'[conn[d].init_buffer].init /\ buf'[conn[d].init_buffer].comm = d
               \/ VarData /\ conn[d].init_buffer \in Heap
               \/ \E w \in Workers : state_lock'[d] = w /\ worker'[w].pc = "initclear"
    <3>1. conn[d].init_buffer \in Buffers
      BY <2>1 DEF TypeOK, ConnOK, Connections
    <3>2. buf[conn[d].init_buffer].init => buf'[conn[d].init_buffer] = buf[conn[d].init_buffer]
      BY <1>6, <3>1 DEF OrderInv, Inits
    <3>3. QED
      BY <2>1, <3>2 DEF OrderInv, InitBuffers
  <2>2. conn[c].init_buffer = None
    BY DEF OrderInv, InitBuffers
  <2>3. fi => buf'[f].init /\ buf'[f].comm = c
    BY <1>2, <1>3, <1>4
  <2>4. fi <=> conn[c].function_init
    BY DEF fi
  <2>5. ASSUME NEW d \in Conns, d # c
        PROVE  /\ conn'[d].init_buffer # None =>
                  /\ conn'[d].state = 1 /\ conn'[d].function_init
                  /\ LET p == conn'[d].init_buffer
                     IN  \/ buf'[p].init /\ buf'[p].comm = d
                         \/ VarData /\ p \in Heap
                         \/ \E w \in Workers : state_lock'[d] = w /\ worker'[w].pc = "initclear"
               /\ conn'[d].state = 1 /\ conn'[d].function_init /\ conn'[d].init_buffer = None
                    => d \in initDone'
               /\ conn'[d].state = 0 => conn'[d].init_buffer = None
               /\ reader'[d].pc = "readyanswer" => ~conn'[d].function_init /\ conn'[d].state = 1
    BY <1>1, <2>1, <2>5 DEF OrderInv, InitBuffers
  <2>6. /\ conn'[c].init_buffer # None =>
           /\ conn'[c].state = 1 /\ conn'[c].function_init
           /\ LET p == conn'[c].init_buffer
              IN  \/ buf'[p].init /\ buf'[p].comm = c
                  \/ VarData /\ p \in Heap
                  \/ \E w \in Workers : state_lock'[c] = w /\ worker'[w].pc = "initclear"
        /\ conn'[c].state = 1 /\ conn'[c].function_init /\ conn'[c].init_buffer = None
             => c \in initDone'
        /\ conn'[c].state = 0 => conn'[c].init_buffer = None
        /\ reader'[c].pc = "readyanswer" => ~conn'[c].function_init /\ conn'[c].state = 1
    BY <1>0, <1>1, <1>2, <2>2, <2>3, <2>4
  <2>7. QED
    BY <2>5, <2>6 DEF InitBuffers
<1>11. Queries'
  <2>1. \A d \in Conns : Up(d) = "up" => Up(d)' = "up"
    BY <1>1 DEF Up
  <2>2. \A e \in Buffers : buf[e].init => buf'[e] = buf[e]
    BY <1>6 DEF OrderInv, Inits
  <2>3. \A a \in Buffers : buf'[a].req # None => buf'[a] = buf[a]
    BY <1>3, <1>4
  <2>4. \A a \in Buffers : buf[a].req # None => ConnOf[buf[a].req] \in Conns
    BY CommAssumption DEF TypeOK, BufOK, Contents
  <2>5. QED
    BY <2>1, <2>2, <2>3, <2>4 DEF OrderInv, Queries
<1>12. Undecided'
  BY DEF OrderInv, Undecided
<1>13. Reading'
  <2>1. {"ready", "query"} \subseteq Filling /\ Filling \subseteq Owning
    BY DEF Filling, Owning
  <2>2. ASSUME NEW d \in Conns, reader'[d].pc \in Filling PROVE Inert(buf'[reader'[d].b])
    <3>1. reader[d].pc \in Filling /\ reader'[d].b = reader[d].b
      BY <2>1, <2>2
    <3>2. reader[d].b \in Buffers /\ reader[d].pc \in Owning
      BY <2>1, <3>1 DEF TypeOK, ReaderOK
    <3>3. buf'[reader[d].b] = buf[reader[d].b]
      BY <1>2, <1>3, <3>2
    <3>4. QED
      BY <3>1, <3>3 DEF OrderInv, Reading
  <2>3. QED
    BY <2>2 DEF Reading
<1>14. QED
  BY <1>7, <1>8, <1>9, <1>10, <1>11, <1>12, <1>13 DEF OrderInv

LEMMA ReaderInitsOrder ==
  ASSUME TypeOK, Own, OrderInv, Unbroken, NEW c \in Conns, ReadyRequest(c) \/ QueryInits(c)
  PROVE  OrderInv'
<1>1. CASE ReadyRequest(c)
  <2> DEFINE pc == IF conn[c].function_init THEN "free" ELSE "readyanswer"
  <2>1. /\ reader[c].pc = "ready" /\ ConnInit(c, buf)
        /\ reader' = [reader EXCEPT ![c].pc = pc]
        /\ UNCHANGED <<state_lock, wait, worker, seen, decided, initDone>>
    BY <1>1 DEF ReadyRequest, ReaderAt, kernel, history
  <2>2. conn[c].state = 0
    BY <2>1 DEF Unbroken
  <2>3. /\ \A d \in Conns \ {c} : reader'[d] = reader[d]
        /\ reader'[c].pc = pc /\ reader'[c].b = reader[c].b /\ reader'[c].p = reader[c].p
        /\ reader'[c].msg = reader[c].msg
    BY <2>1 DEF TypeOK, ReaderOK, Readers
  <2>4. \/ reader'[c].pc \in {reader[c].pc, "free"}
        \/ reader'[c].pc = "readyanswer" /\ ~conn[c].function_init
    BY <2>3
  <2>5. QED
    <3>1. UNCHANGED <<wait, worker, seen, decided, initDone>> /\ state_lock' = state_lock
      BY <2>1
    <3>2. reader[c].pc \in {"ready", "query"} /\ ConnInit(c, buf)
      BY <2>1
    <3>3. \A d \in Conns : state_lock'[d] = state_lock[d] \/ (d = c /\ state_lock'[c] = c /\ state_lock[c] = None)
      BY <3>1
    <3>4. /\ \A d \in Conns \ {c} : reader'[d] = reader[d]
          /\ reader'[c].b = reader[c].b /\ reader'[c].p = reader[c].p
          /\ reader'[c].msg = reader[c].msg
      BY <2>3
    <3> HIDE DEF pc
    <3>5. QED
      BY <2>2, <2>4, <3>1, <3>2, <3>3, <3>4, ConnInitOrder
<1>2. CASE QueryInits(c)
  <2>1. /\ reader[c].pc = "query" /\ ConnInit(c, buf) /\ conn[c].state = 0
        /\ state_lock[c] = None /\ state_lock' = [state_lock EXCEPT ![c] = c]
        /\ UNCHANGED <<reader, wait, worker, seen, decided, initDone>>
    BY <1>2 DEF QueryInits, ReaderAt, kernel, history
  <2>2. \A d \in Conns : state_lock'[d] = state_lock[d] \/ (d = c /\ state_lock'[c] = c /\ state_lock[c] = None)
    BY <2>1 DEF TypeOK, LockOK
  <2>3. QED
    BY <2>1, <2>2, ConnInitOrder
<1>3. QED
  BY <1>1, <1>2

LEMMA ReaderOrder ==
  ASSUME TypeOK, Own, BeginInv, OrderInv, Orderly, Unbroken, NEW c \in Conns, ReaderStep(c)
  PROVE  OrderInv'
<1>1. CASE QueryDangles(c) \/ AnswerUnexpected(c)
  BY <1>1, EndsOrder DEF QueryDangles, AnswerUnexpected
<1>2. QED
  BY <1>1, ReaderGetsOrder, ReadyAnswerOrder, ReaderAnswersOrder, ReaderFreesOrder,
     QueryPassesOrder, QueryWaitsOrder, ReaderInitsOrder, NoneCloses DEF ReaderStep

(* A worker goes on with the buffer it serves, or parks it.                *)
Works(w, b) ==
  /\ worker[w].b = b
  /\ \/ worker[w].pc = "got" /\ buf[b].lock = None
     \/ worker[w].pc = "park"
  /\ UNCHANGED <<reader, conn, state_lock, seen>> /\ initDone \subseteq initDone'
  /\ \A v \in Workers \ {w} : worker'[v] = worker[v]
  /\ \A a \in Buffers \ {b} : Busy(a) => Busy(a)' /\ Same(a)
  /\ \A a \in Buffers \ {b} : Same(a) \/ Inert(buf'[a])
  /\ \A a \in Buffers : a = b /\ buf[b].init => Busy(a)'
  /\ buf'[b].comm = buf[b].comm /\ buf'[b].init = buf[b].init /\ buf'[b].req = buf[b].req
  /\ buf'[b].to_wake = buf[b].to_wake /\ buf'[b].room = buf[b].room
  /\ buf[b].init /\ buf'[b].phase >= 1000 => buf[b].comm \in initDone'
  /\ \/ worker'[w].pc \in {"idle", "free"}
     \/ /\ worker'[w].pc = "send" /\ worker'[w].b = b /\ buf'[b].lock = w
        /\ \A a \in Buffers : a = b => Busy(a)'
        /\ worker'[w].phase = 1 <=> buf'[b].phase < 1000
  /\ \A r \in Requests : decided'[r] = decided[r] \/ r = buf[b].req
  /\ buf[b].req # None =>
       /\ buf'[b].phase < 1000 => decided'[buf[b].req] = None
       /\ buf'[b].phase >= 1000 => /\ decided'[buf[b].req] \in Verdicts
                                   /\ buf'[b].verdict = decided'[buf[b].req]

LEMMA WorksOrder ==
  ASSUME TypeOK, Own, BeginInv, OrderInv, NEW w \in Workers, NEW b \in Buffers, Works(w, b)
  PROVE  OrderInv'
<1>0. /\ None \notin Buffers /\ None \notin Workers /\ None \notin Requests
      /\ \A v \in Workers : worker[v].pc \in {"send", "park", "initfree"} => worker[v].b \in Buffers
      /\ \A v \in Workers : worker[v].pc = "initfree" =>
           buf[worker[v].b].comm \in Conns /\ Busy(worker[v].b)
  BY Others, ServedKnown DEF TypeOK, WorkerOK, Busy
<1>1. Busy(b)
  BY DEF Works, OrderInv, Parked, Busy
<1>2. \A v \in Workers \ {w} :
        worker[v].pc \in {"send", "park", "initfree"} => worker[v].b # b
  <2>1. ASSUME NEW v \in Workers \ {w}, worker[v].pc \in {"send", "park"} PROVE worker[v].b # b
    BY <1>0, <2>1 DEF Works, OrderInv, Parked
  <2>2. ASSUME NEW v \in Workers \ {w}, worker[v].pc = "initfree", worker[v].b = b PROVE FALSE
    <3>1. buf[b].lock = None
      BY <2>2 DEF OrderInv, StateLocks
    <3>2. worker[w].pc = "got"
      BY <1>0, <3>1 DEF Works, OrderInv, Parked
    <3>3. Holds("worker", w, b) /\ Holds("worker", v, b)
      BY <2>2, <3>2 DEF Holds, InWorker, Works
    <3>4. QED
      BY <3>3 DEF Own, Apart
  <2>3. QED
    BY <2>1, <2>2
<1>3. \A a \in Buffers \ {b} : buf'[a].init \/ buf'[a].req # None \/ buf'[a].to_wake # <<>>
                               \/ ~buf'[a].room => Same(a)
  BY DEF Works, Inert
<1>4. /\ \A v \in Workers \ {w} : worker'[v] = worker[v]
      /\ worker'[w].pc \notin {"park", "initfree", "initclear"}
      /\ worker[w].pc \notin {"initfree", "initclear"}
  BY DEF Works
<1>5. Parked'
  <2>1. ASSUME NEW v \in Workers \ {w}, worker[v].pc \in {"send", "park"}
        PROVE  /\ Busy(worker[v].b)' /\ buf'[worker[v].b].lock = v
               /\ worker[v].phase = 1 <=> buf'[worker[v].b].phase < 1000
    <3>1. worker[v].b \in Buffers \ {b} /\ Busy(worker[v].b) /\ buf[worker[v].b].lock = v
          /\ (worker[v].phase = 1 <=> buf[worker[v].b].phase < 1000)
      BY <1>0, <1>2, <2>1 DEF OrderInv, Parked
    <3>2. \A a \in Buffers \ {b} : Busy(a) => Busy(a)' /\ Same(a)
      BY DEF Works
    <3>3. worker'[v] = worker[v]
      BY <1>4
    <3>4. Busy(worker[v].b)' /\ Same(worker[v].b)
      BY <3>1, <3>2, <3>3
    <3>5. QED
      BY <3>1, <3>3, <3>4 DEF Same
  <2>2. worker'[w].pc = "send" =>
          /\ Busy(worker[w].b)' /\ buf'[worker'[w].b].lock = w
          /\ worker'[w].phase = 1 <=> buf'[worker'[w].b].phase < 1000
    BY DEF Works
  <2>3. QED
    BY <1>4, <2>1, <2>2 DEF Parked
<1>6. Inits'
  <2>1. ASSUME NEW a \in Buffers \ {b}
        PROVE  /\ buf'[a].init => /\ Busy(a)' /\ conn'[buf'[a].comm].state = 1
                                  /\ buf'[a].phase >= 1000 => buf'[a].comm \in initDone'
                                  /\ buf'[a].req = None
               /\ buf'[a].to_wake # <<>> => buf'[a].init
               /\ ~buf'[a].room => a \in Heap /\ buf'[a].init
    <3>1. CASE Same(a)
      <4>1. buf[a].init => Busy(a)'
        BY DEF OrderInv, Inits, Works
      <4>2. conn' = conn /\ initDone \subseteq initDone'
        BY DEF Works
      <4>3. QED
        BY <3>1, <4>1, <4>2 DEF OrderInv, Inits, Same
    <3>2. CASE ~Same(a)
      BY <1>3, <3>2
    <3>3. QED
      BY <3>1, <3>2
  <2>2. ASSUME NEW a \in Buffers, a = b
        PROVE  /\ buf'[a].init => /\ Busy(a)' /\ conn'[buf'[a].comm].state = 1
                                  /\ buf'[a].phase >= 1000 => buf'[a].comm \in initDone'
                                  /\ buf'[a].req = None
               /\ buf'[a].to_wake # <<>> => buf'[a].init
               /\ ~buf'[a].room => a \in Heap /\ buf'[a].init
    BY <2>2 DEF OrderInv, Inits, Works
  <2>3. QED
    BY <2>1, <2>2 DEF Inits
<1>7. StateLocks'
  <2>1. \A d \in Conns, v \in Workers : Ending(v, d) => Ending(v, d)'
    <3>1. ASSUME NEW d \in Conns, NEW v \in Workers, Ending(v, d) PROVE Ending(v, d)'
      <4>1. v # w /\ worker'[v] = worker[v] /\ d \in initDone'
        BY <1>4, <3>1 DEF Ending, Works
      <4>2. worker[v].pc = "initfree" => Same(worker[v].b)
        BY <1>0, <1>2, <4>1 DEF Works
      <4>3. QED
        BY <3>1, <4>1, <4>2 DEF Ending, Same
    <3>2. QED
      BY <3>1
  <2>2. ASSUME NEW v \in Workers, worker'[v].pc = "initfree"
        PROVE  /\ state_lock'[buf'[worker'[v].b].comm] = v
               /\ buf'[worker'[v].b].lock = None /\ buf'[worker'[v].b].init
    <3>1. v # w /\ worker'[v] = worker[v]
      BY <1>4, <2>2
    <3>2. Same(worker[v].b)
      BY <1>0, <1>2, <2>2, <3>1 DEF Works
    <3>3. QED
      BY <2>2, <3>1, <3>2 DEF OrderInv, StateLocks, Same, Works
  <2>3. state_lock' = state_lock
    BY DEF Works
  <2>4. QED
    BY <2>1, <2>2, <2>3 DEF OrderInv, StateLocks
<1>8. InitBuffers'
  <2>1. ASSUME NEW p \in Buffers, buf[p].init
        PROVE  buf'[p].init = buf[p].init /\ buf'[p].comm = buf[p].comm
    BY <2>1, ZenonT(60) DEF OrderInv, Inits, Works, Same
  <2>2. \A c \in Conns : conn[c].init_buffer \in Buffers \cup {None}
    BY DEF TypeOK, ConnOK, Connections
  <2>3. UNCHANGED <<reader, conn, state_lock>> /\ initDone \subseteq initDone'
    BY DEF Works
  <2>4. \A v \in Workers : worker[v].pc = "initclear" => worker'[v] = worker[v]
    BY <1>4
  <2>5. ASSUME NEW c \in Conns, conn[c].init_buffer # None
        PROVE  \/ buf'[conn[c].init_buffer].init /\ buf'[conn[c].init_buffer].comm = c
               \/ VarData /\ conn[c].init_buffer \in Heap
               \/ \E v \in Workers : state_lock'[c] = v /\ worker'[v].pc = "initclear"
    BY <2>1, <2>2, <2>3, <2>4, <2>5 DEF OrderInv, InitBuffers
  <2>6. QED
    BY <2>3, <2>5 DEF OrderInv, InitBuffers
<1>9. Queries'
  <2>1. \A d : Up(d) = "up" => Up(d)' = "up"
    BY DEF Up, Works
  <2>2. \A e \in Buffers : buf[e].init =>
          buf'[e].init /\ buf'[e].comm = buf[e].comm /\ buf'[e].to_wake = buf[e].to_wake
    BY DEF OrderInv, Inits, Works, Same
  <2>3. ASSUME NEW a \in Buffers, buf'[a].req # None, NEW d, d = ConnOf[buf'[a].req]
        PROVE  \/ Up(d)' = "up"
               \/ \E e \in Buffers : a \in Items(buf'[e].to_wake) /\ buf'[e].init /\ buf'[e].comm = d
    <3>1. buf'[a].req = buf[a].req
      BY <1>3, <2>3 DEF Works, Same
    <3>2. \/ Up(d) = "up"
          \/ \E e \in Buffers : a \in Items(buf[e].to_wake) /\ buf[e].init /\ buf[e].comm = d
      BY <2>3, <3>1 DEF OrderInv, Queries
    <3>3. QED
      BY <2>1, <2>2, <3>2
  <2>4. ASSUME NEW a \in Buffers \ {b}, buf'[a].req # None
        PROVE  /\ buf'[a].req \in seen'
               /\ buf'[a].phase < 1000 => decided'[buf'[a].req] = None
               /\ buf'[a].phase >= 1000 => /\ decided'[buf'[a].req] \in Verdicts
                                           /\ buf'[a].verdict = decided'[buf'[a].req]
    <3>1. Same(a)
      BY <1>3, <2>4
    <3>2. buf[a].req # buf[b].req /\ buf[a].req \in Requests
      BY <2>4, <3>1 DEF BeginInv, OneBuffer, Same, TypeOK, BufOK, Contents
    <3>3. decided'[buf[a].req] = decided[buf[a].req] /\ seen' = seen
      BY <3>2 DEF Works
    <3>4. QED
      BY <2>4, <3>1, <3>3 DEF OrderInv, Queries, Same
  <2>5. buf'[b].req # None =>
          /\ buf'[b].req \in seen'
          /\ buf'[b].phase < 1000 => decided'[buf'[b].req] = None
          /\ buf'[b].phase >= 1000 => /\ decided'[buf'[b].req] \in Verdicts
                                      /\ buf'[b].verdict = decided'[buf'[b].req]
    BY DEF OrderInv, Queries, Works
  <2>6. QED
    BY <2>3, <2>4, <2>5 DEF Queries
<1>10. Undecided'
  <2>1. \A r \in Requests \ seen : r # buf[b].req
    BY <1>0 DEF OrderInv, Queries
  <2>2. \A c \in Conns : reader[c].pc = "query" =>
          reader[c].msg # buf[b].req /\ reader[c].msg \in Requests
    BY DEF BeginInv, ReadOnce, Unbegun, TypeOK, ReaderOK
  <2>3. QED
    BY <2>1, <2>2 DEF OrderInv, Undecided, Works
<1>11. Reading'
  <2>1. ASSUME NEW c \in Conns, reader'[c].pc \in Filling PROVE Inert(buf'[reader'[c].b])
    <3>1. reader'[c] = reader[c] /\ reader[c].pc \in Owning /\ reader[c].pc \in Filling
      BY <2>1 DEF Works, Filling
    <3>2. reader[c].b \in Buffers \ {b}
      BY <1>1, <3>1, ReaderFits
    <3>3. Same(reader[c].b) \/ Inert(buf'[reader[c].b])
      BY <3>2 DEF Works
    <3>4. QED
      BY <3>1, <3>3 DEF OrderInv, Reading, Same, Inert
  <2>2. QED
    BY <2>1 DEF Reading
<1>12. QED
  BY <1>5, <1>6, <1>7, <1>8, <1>9, <1>10, <1>11 DEF OrderInv

LEMMA ServesBuffer ==
  ASSUME TypeOK, Own, NEW w \in Workers, NEW b \in Buffers, Serves(w, b)
  PROVE  /\ worker[w].pc = "got" /\ worker[w].b = b /\ buf[b].lock = None
         /\ buf[b].comm \in Conns /\ Holds("worker", w, b) /\ Busy(b)
         /\ VarData => buf[b].room
<1>1. worker[w].pc = "got" /\ worker[w].b = b /\ buf[b].lock = None /\ (VarData => buf[b].room)
  BY Zenon DEF Serves, Locks, WorkerAt
<1>2. QED
  BY <1>1, ServedKnown DEF Busy

LEMMA AsksWorks ==
  ASSUME TypeOK, Own, OrderInv, NEW w \in Workers, NEW b \in Buffers, NEW k \in Kinds,
         NEW e \in Conns, NEW phase, Serves(w, b), Asks(w, b, e, k, phase),
         phase = 1 <=> buf[b].phase < 1000, UNCHANGED <<decided, initDone, seen>>
  PROVE  Works(w, b)
<1> DEFINE r == Fresh(mem)
           op == [comm |-> e, kind |-> k, seq |-> ids[k]]
           p == [buf[b] EXCEPT !.lock = w, !.user_data = "error", !.op = op,
                               !.ops = @ + 1, !.waiting = [to |-> k, seq |-> op.seq]]
           q == Outgoing(e, op)
           at == [pc |-> "send", b |-> b, r |-> r, phase |-> phase]
<1>1. /\ worker[w].pc = "got" /\ worker[w].b = b /\ buf[b].lock = None
      /\ buf[b].comm \in Conns /\ Holds("worker", w, b) /\ Busy(b)
  BY ServesBuffer
<1>2. /\ Available(mem) /\ buf' = [buf EXCEPT ![b] = p, ![r] = q]
      /\ worker' = [worker EXCEPT ![w] = at]
      /\ wait' = [wait EXCEPT ![buf[b].comm] = comm_buf_to_queue(@, b)]
      /\ UNCHANGED <<todo, conn, state_lock, reader>>
  BY DEF Asks
<1>4. /\ p.comm = buf[b].comm /\ p.init = buf[b].init /\ p.req = buf[b].req
      /\ p.verdict = buf[b].verdict /\ p.phase = buf[b].phase /\ p.lock = w
      /\ p.to_wake = buf[b].to_wake /\ p.room = buf[b].room
  BY DEF TypeOK, BufOK, Contents
<1>5. Inert(q)
  BY InertMade
<1>6. r \in Buffers /\ ~Busy(r)
  BY <1>2, FreshFits
<1>7. at.pc = "send" /\ at.b = b /\ at.phase = phase
  OBVIOUS
<1> HIDE DEF p, q, at, op, r
<1>8. \A a \in Buffers : buf'[a] = IF a = r THEN q ELSE IF a = b THEN p ELSE buf[a]
  BY <1>1, <1>2, <1>6 DEF TypeOK, BufOK
<1>9. worker'[w] = at /\ \A v \in Workers \ {w} : worker'[v] = worker[v]
  BY <1>2 DEF TypeOK, WorkerOK
<1>10. \A d \in Conns : Items(wait'[d]) = IF d = buf[b].comm THEN Items(wait[d]) \cup {b} ELSE Items(wait[d])
  BY <1>1, <1>2, AppendItems DEF TypeOK, WaitOK, Queues, comm_buf_to_queue
<1>11. \A a \in Buffers : a = b => Busy(a)'
  BY <1>1, <1>10 DEF Busy
<1>12. \A a \in Buffers \ {b} : Busy(a) => Busy(a)'
  <2>1. Busy(r) <=> FALSE
    BY <1>6
  <2>2. ASSUME NEW a \in Buffers \ {b}, Busy(a) PROVE Busy(a)'
    <3>1. CASE a \in Items(todo)
      BY <1>2, <3>1 DEF Busy
    <3>2. CASE \E c \in Conns : a \in Items(wait[c])
      BY <1>10, <3>2 DEF Busy
    <3>3. CASE \E c \in Conns : reader[c].p = a
      BY <1>2, <3>3 DEF Busy
    <3>4. CASE \E v \in Workers : worker[v].b = a /\ worker[v].pc \in {"got", "initfree"}
      BY <1>1, <1>9, <3>4 DEF Busy
    <3>5. QED
      BY <2>2, <3>1, <3>2, <3>3, <3>4 DEF Busy
  <2>3. QED
    BY <2>2
<1>13. buf'[b] = p
  BY <1>1, <1>6, <1>8
<1>14. \A a \in Buffers \ {b} : (Busy(a) => Same(a)) /\ (Same(a) \/ Inert(buf'[a]))
  BY <1>5, <1>6, <1>8 DEF Same
<1>15. /\ buf[b].init /\ buf[b].phase >= 1000 => buf[b].comm \in initDone
       /\ buf[b].req # None =>
            /\ buf[b].phase < 1000 => decided[buf[b].req] = None
            /\ buf[b].phase >= 1000 => /\ decided[buf[b].req] \in Verdicts
                                       /\ buf[b].verdict = decided[buf[b].req]
  BY DEF OrderInv, Inits, Queries
<1>16. /\ buf'[b].comm = buf[b].comm /\ buf'[b].init = buf[b].init /\ buf'[b].req = buf[b].req
       /\ buf'[b].to_wake = buf[b].to_wake /\ buf'[b].room = buf[b].room
       /\ buf'[b].phase = buf[b].phase /\ buf'[b].verdict = buf[b].verdict /\ buf'[b].lock = w
       /\ worker'[w].pc = "send" /\ worker'[w].b = b /\ worker'[w].phase = phase
  BY <1>4, <1>7, <1>9, <1>13
<1>17. /\ UNCHANGED <<reader, conn, state_lock, seen, decided, initDone>>
       /\ worker'[w].phase = 1 <=> buf'[b].phase < 1000
  BY <1>2, <1>16
<1>18. QED
  BY <1>1, <1>9, <1>11, <1>12, <1>14, <1>15, <1>16, <1>17 DEF Works

LEMMA WorkerAsksOrder ==
  ASSUME TypeOK, Own, BeginInv, OrderInv, NEW w \in Workers, EventAsks(w) \/ AnswerUpdates(w)
  PROVE  OrderInv'
<1>1. CASE EventAsks(w)
  <2>1. PICK b \in Buffers, k \in Kinds, e \in Conns :
          Serves(w, b) /\ buf[b].phase < 1000 /\ Asks(w, b, e, k, 1)
    BY <1>1, Zenon DEF EventAsks
  <2>2. UNCHANGED <<decided, initDone, seen>>
    BY <1>1, <2>1, ZenonT(60) DEF EventAsks, Asks, kernel
  <2>3. QED
    BY <2>1, <2>2, AsksWorks, WorksOrder
<1>2. CASE AnswerUpdates(w)
  <2>1. PICK b \in Buffers :
          Serves(w, b) /\ ToUpdate(b) /\ Asks(w, b, buf[b].comm, "update", 1003)
    BY <1>2, Zenon DEF AnswerUpdates
  <2>2. UNCHANGED <<decided, initDone>>
    BY <1>2, Zenon DEF AnswerUpdates, history
  <2>4. UNCHANGED seen /\ "update" \in Kinds /\ buf[b].phase = 1000
    BY <2>1 DEF Asks, kernel, Kinds, ToUpdate
  <2>5. buf[b].comm \in Conns
    BY <2>1, ServesBuffer
  <2>3. QED
    BY <2>1, <2>2, <2>4, <2>5, AsksWorks, WorksOrder
<1>3. QED
  BY <1>1, <1>2

LEMMA EventDecidesOrder ==
  ASSUME TypeOK, Own, BeginInv, OrderInv, DecidedOK, NEW w \in Workers, EventDecides(w)
  PROVE  OrderInv'
<1>1. PICK b \in Buffers :
        /\ Serves(w, b) /\ buf[b].phase < 1000
        /\ IF buf[b].init
           THEN /\ buf' = [buf EXCEPT ![b].phase = 1000]
                /\ initDone' = initDone \cup {buf[b].comm}
                /\ UNCHANGED decided
           ELSE \E v \in Verdicts :
                  /\ buf' = [buf EXCEPT ![b] = [@ EXCEPT !.phase = 1000, !.verdict = v]]
                  /\ decided' = [decided EXCEPT ![buf[b].req] = v]
                  /\ UNCHANGED initDone
        /\ todo' = comm_buf_to_queue(todo, b)
        /\ worker' = [worker EXCEPT ![w] = WorkerIdle]
  BY Zenon DEF EventDecides
<1>2. UNCHANGED <<wait, reader, conn, state_lock, seen>>
  BY Zenon DEF EventDecides, kernel
<1>0. /\ Serves(w, b) /\ buf[b].phase < 1000 /\ todo' = comm_buf_to_queue(todo, b)
      /\ worker' = [worker EXCEPT ![w] = WorkerIdle]
  BY <1>1, Zenon
<1>3. /\ worker[w].pc = "got" /\ worker[w].b = b /\ buf[b].lock = None
      /\ buf[b].comm \in Conns /\ Busy(b)
  BY <1>0, ServesBuffer
<1>4. /\ worker'[w].pc = "idle" /\ \A v \in Workers \ {w} : worker'[v] = worker[v]
  BY <1>0 DEF TypeOK, WorkerOK, WorkerIdle
<1>5. Items(todo') = Items(todo) \cup {b}
  BY <1>0, ToTodoItems
<1>6. \A a \in Buffers : Busy(a) => Busy(a)'
  BY <1>2, <1>3, <1>4, <1>5 DEF Busy
<1>7. /\ \A a \in Buffers \ {b} : buf'[a] = buf[a]
      /\ buf'[b].comm = buf[b].comm /\ buf'[b].init = buf[b].init /\ buf'[b].req = buf[b].req
      /\ buf'[b].to_wake = buf[b].to_wake /\ buf'[b].room = buf[b].room /\ buf'[b].phase = 1000
      /\ buf[b].init => buf[b].comm \in initDone'
      /\ initDone \subseteq initDone'
      /\ \A r \in Requests : decided'[r] = decided[r] \/ r = buf[b].req
      /\ buf[b].req # None => /\ decided'[buf[b].req] \in Verdicts
                              /\ buf'[b].verdict = decided'[buf[b].req]
  <2>0. buf[b] \in Contents /\ (buf[b].req # None => buf[b].req \in Requests)
    BY DEF TypeOK, BufOK, Contents
  <2>1. CASE buf[b].init
    <3>3. buf[b].req = None
      BY <2>1 DEF OrderInv, Inits
    <3>1. buf' = [buf EXCEPT ![b].phase = 1000] /\ decided' = decided
          /\ initDone' = initDone \cup {buf[b].comm} /\ buf[b].req = None
      BY <1>1, <2>1, <3>3
    <3>2. QED
      BY <2>0, <3>1 DEF TypeOK, BufOK, Contents
  <2>2. CASE ~buf[b].init
    <3>1. PICK v \in Verdicts :
            /\ buf' = [buf EXCEPT ![b] = [@ EXCEPT !.phase = 1000, !.verdict = v]]
            /\ decided' = [decided EXCEPT ![buf[b].req] = v]
            /\ initDone' = initDone
      BY <1>1, <2>2
    <3>2. /\ \A a \in Buffers \ {b} : buf'[a] = buf[a]
          /\ buf'[b] = [buf[b] EXCEPT !.phase = 1000, !.verdict = v]
      BY <3>1 DEF TypeOK, BufOK
    <3>3. /\ buf'[b].comm = buf[b].comm /\ buf'[b].init = buf[b].init /\ buf'[b].req = buf[b].req
          /\ buf'[b].to_wake = buf[b].to_wake /\ buf'[b].room = buf[b].room
          /\ buf'[b].phase = 1000 /\ buf'[b].verdict = v
      BY <2>0, <3>2 DEF Contents
    <3>4. /\ \A r \in Requests : decided'[r] = decided[r] \/ r = buf[b].req
          /\ buf[b].req # None => decided'[buf[b].req] = v
      BY <2>0, <3>1 DEF DecidedOK
    <3>5. QED
      BY <2>2, <3>1, <3>2, <3>3, <3>4
  <2>3. QED
    BY <2>1, <2>2
<1>8. \A a \in Buffers \ {b} : Same(a)
  BY <1>7 DEF Same
<1>9. Works(w, b)
  BY <1>2, <1>3, <1>4, <1>6, <1>7, <1>8 DEF Works
<1>10. QED
  BY <1>9, WorksOrder

LEMMA AnswerSendsOrder ==
  ASSUME TypeOK, Own, BeginInv, OrderInv, NEW w \in Workers, AnswerSends(w)
  PROVE  OrderInv'
<1>1. PICK b \in Buffers :
        /\ Serves(w, b) /\ ~buf[b].init /\ buf[b].phase >= 1000
        /\ Available(mem)
        /\ buf' = [buf EXCEPT ![b].lock = w,
                     ![Fresh(mem)] = Outgoing(buf[b].comm,
                       [kind |-> "answer", req |-> buf[b].req, verdict |-> buf[b].verdict])]
  BY Zenon DEF AnswerSends
<1>2. /\ worker' = [worker EXCEPT ![w].pc = "free"]
      /\ UNCHANGED <<todo, wait, reader, conn, state_lock, seen, decided, initDone>>
  BY DEF AnswerSends, kernel, history
<1> DEFINE q == Outgoing(buf[b].comm,
                  [kind |-> "answer", req |-> buf[b].req, verdict |-> buf[b].verdict])
           p == [buf[b] EXCEPT !.lock = w]
           r == Fresh(mem)
<1>3. /\ worker[w].pc = "got" /\ worker[w].b = b /\ buf[b].lock = None
      /\ buf[b].comm \in Conns /\ Busy(b)
  BY <1>1, ServesBuffer
<1>4. r \in Buffers /\ ~Busy(r)
  BY <1>1, FreshFits
<1>5. Inert(q)
  BY InertMade
<1>6. /\ p.comm = buf[b].comm /\ p.init = buf[b].init /\ p.req = buf[b].req
      /\ p.verdict = buf[b].verdict /\ p.phase = buf[b].phase
      /\ p.to_wake = buf[b].to_wake /\ p.room = buf[b].room
  BY DEF TypeOK, BufOK, Contents
<1>7. buf' = [buf EXCEPT ![b] = p, ![r] = q]
  BY <1>1 DEF TypeOK, BufOK
<1> HIDE DEF p, q, r
<1>8. \A a \in Buffers : buf'[a] = IF a = r THEN q ELSE IF a = b THEN p ELSE buf[a]
  BY <1>3, <1>4, <1>7 DEF TypeOK, BufOK
<1>9. buf'[b] = p
  BY <1>3, <1>4, <1>8
<1>10. \A a \in Buffers \ {b} : (Busy(a) => Same(a)) /\ (Same(a) \/ Inert(buf'[a]))
  BY <1>4, <1>5, <1>8 DEF Same
<1>11. worker'[w].pc = "free" /\ \A v \in Workers \ {w} : worker'[v] = worker[v]
  BY <1>2 DEF TypeOK, WorkerOK, WorkersAt
<1>12. \A a \in Buffers \ {b} : Busy(a) => Busy(a)'
  BY <1>2, <1>3, <1>11 DEF Busy
<1>13. buf[b].req # None =>
         /\ buf[b].phase < 1000 => decided[buf[b].req] = None
         /\ buf[b].phase >= 1000 => /\ decided[buf[b].req] \in Verdicts
                                    /\ buf[b].verdict = decided[buf[b].req]
  BY DEF OrderInv, Queries
<1>14. /\ buf'[b].comm = buf[b].comm /\ buf'[b].init = buf[b].init /\ buf'[b].req = buf[b].req
       /\ buf'[b].to_wake = buf[b].to_wake /\ buf'[b].room = buf[b].room
       /\ buf'[b].phase = buf[b].phase /\ buf'[b].verdict = buf[b].verdict
  BY <1>6, <1>9
<1>15. ~buf[b].init
  BY <1>1, Zenon
<1>16. Works(w, b)
  BY <1>2, <1>3, <1>10, <1>11, <1>12, <1>13, <1>14, <1>15 DEF Works
<1>17. QED
  BY <1>16, WorksOrder

(* do_phase is saved where the handler stopped.                            *)
LEMMA WorkerParksOrder ==
  ASSUME TypeOK, Own, BeginInv, OrderInv, NEW w \in Workers, WorkerParks(w)
  PROVE  OrderInv'
<1> DEFINE b == worker[w].b
           x == [buf[b] EXCEPT !.phase = worker[w].phase]
           y == [x EXCEPT !.lock = None]
<1>1. /\ worker[w].pc = "park" /\ worker' = [worker EXCEPT ![w] = WorkerIdle]
      /\ buf' = [buf EXCEPT ![b].phase = worker[w].phase, ![b].lock = None]
      /\ UNCHANGED <<todo, wait, reader, conn, state_lock, seen, decided, initDone>>
  BY DEF WorkerParks, WorkerAt, kernel, history
<1>2. b \in Buffers /\ worker[w].phase \in {1, 1003}
  BY <1>1 DEF TypeOK, WorkerOK, WorkersAt, Resumes
<1>3. Busy(b) /\ buf[b].lock = w /\ (worker[w].phase = 1 <=> buf[b].phase < 1000)
  BY <1>1 DEF OrderInv, Parked
<1>4. buf' = [buf EXCEPT ![b] = y]
  <2>1. buf' = [buf EXCEPT ![b] = [x EXCEPT !.lock = None]]
    BY <1>1 DEF TypeOK, BufOK
  <2>2. QED
    BY <2>1
<1>5. /\ y.comm = buf[b].comm /\ y.init = buf[b].init /\ y.req = buf[b].req
      /\ y.verdict = buf[b].verdict /\ y.phase = worker[w].phase
      /\ y.to_wake = buf[b].to_wake /\ y.room = buf[b].room
  BY <1>2 DEF TypeOK, BufOK, Contents
<1> HIDE DEF y
<1>6. buf'[b] = y /\ \A a \in Buffers \ {b} : buf'[a] = buf[a]
  BY <1>2, <1>4 DEF TypeOK, BufOK
<1>7. worker'[w].pc = "idle" /\ \A v \in Workers \ {w} : worker'[v] = worker[v]
  BY <1>1 DEF TypeOK, WorkerOK, WorkerIdle
<1>8. \A a \in Buffers : Busy(a) => Busy(a)'
  BY <1>1, <1>7 DEF Busy
<1>9. y.phase < 1000 <=> buf[b].phase < 1000
  BY <1>2, <1>3, <1>5
<1>10. y.phase >= 1000 <=> buf[b].phase >= 1000
  <2>1. buf[b].phase \in {0, 1, 1000, 1003}
    BY <1>2 DEF TypeOK, BufOK, Contents, Phases, Resumes
  <2>2. QED
    BY <1>2, <1>5, <1>9, <2>1
<1>11. /\ buf[b].init /\ buf[b].phase >= 1000 => buf[b].comm \in initDone
       /\ buf[b].req # None =>
            /\ buf[b].phase < 1000 => decided[buf[b].req] = None
            /\ buf[b].phase >= 1000 => /\ decided[buf[b].req] \in Verdicts
                                       /\ buf[b].verdict = decided[buf[b].req]
  BY <1>2 DEF OrderInv, Inits, Queries
<1>12. \A a \in Buffers \ {b} : Same(a)
  BY <1>6 DEF Same
<1>13. \A a \in Buffers : a = b /\ buf[b].init => Busy(a)'
  BY <1>3, <1>8
<1>14. /\ buf'[b].comm = buf[b].comm /\ buf'[b].init = buf[b].init /\ buf'[b].req = buf[b].req
       /\ buf'[b].to_wake = buf[b].to_wake /\ buf'[b].room = buf[b].room
       /\ buf'[b].verdict = buf[b].verdict
       /\ buf'[b].phase < 1000 <=> buf[b].phase < 1000
       /\ buf'[b].phase >= 1000 <=> buf[b].phase >= 1000
  BY <1>5, <1>6, <1>9, <1>10
<1> HIDE DEF b
<1>15. UNCHANGED <<reader, conn, state_lock, seen, decided, initDone>>
  BY <1>1
<1>16. /\ buf[b].init /\ buf'[b].phase >= 1000 => buf[b].comm \in initDone'
       /\ \A r \in Requests : decided'[r] = decided[r] \/ r = buf[b].req
       /\ buf[b].req # None =>
            /\ buf'[b].phase < 1000 => decided'[buf[b].req] = None
            /\ buf'[b].phase >= 1000 => /\ decided'[buf[b].req] \in Verdicts
                                        /\ buf'[b].verdict = decided'[buf[b].req]
  BY <1>11, <1>14, <1>15
<1>17. worker[w].b = b /\ worker[w].pc = "park"
  BY <1>1 DEF b
<1>18. Works(w, b)
  BY <1>7, <1>8, <1>12, <1>13, <1>14, <1>15, <1>16, <1>17 DEF Works
<1>19. QED
  BY <1>2, <1>18, WorksOrder

(* Nobody else has to do with a buffer that a worker serves unlocked.      *)
LEMMA ServedAlone ==
  ASSUME TypeOK, Own, OrderInv, NEW w \in Workers, NEW b \in Buffers,
         worker[w].b = b, worker[w].pc \in {"got", "initfree"}, buf[b].lock = None,
         NEW v \in Workers \ {w}, worker[v].pc \in {"got", "send", "park", "initfree"}
  PROVE  worker[v].b # b
<1>1. CASE worker[v].pc \in {"send", "park"}
  BY <1>1, Others DEF OrderInv, Parked
<1>2. CASE worker[v].pc \in {"got", "initfree"}
  <2>1. Holds("worker", w, b) /\ Holds("worker", v, worker[v].b)
    BY <1>2 DEF Holds, InWorker
  <2>2. QED
    BY <2>1 DEF Own, Apart
<1>3. QED
  BY <1>1, <1>2

LEMMA InitWakesOrder ==
  ASSUME TypeOK, Own, OrderInv, NEW w \in Workers, InitWakes(w)
  PROVE  OrderInv'
<1>1. PICK b \in Buffers :
        /\ Serves(w, b)
        /\ buf[b].init /\ buf[b].phase >= 1000
        /\ state_lock[buf[b].comm] = None
        /\ state_lock' = [state_lock EXCEPT ![buf[b].comm] = w]
        /\ todo' = todo \o buf[b].to_wake
        /\ buf' = [buf EXCEPT ![b].to_wake = <<>>]
  BY Zenon DEF InitWakes
<1>2. /\ worker' = [worker EXCEPT ![w].pc = "initfree"]
      /\ UNCHANGED <<wait, reader, conn, seen, decided, initDone>>
  BY DEF InitWakes, kernel, history
<1> DEFINE c == buf[b].comm
           x == [buf[b] EXCEPT !.to_wake = <<>>]
<1>3. /\ worker[w].pc = "got" /\ worker[w].b = b /\ buf[b].lock = None /\ c \in Conns /\ Busy(b)
  BY <1>1, ServesBuffer
<1>4. /\ x.comm = c /\ x.init /\ x.req = buf[b].req
      /\ x.verdict = buf[b].verdict /\ x.phase = buf[b].phase /\ x.lock = buf[b].lock
      /\ x.to_wake = <<>> /\ x.room = buf[b].room
  BY <1>1 DEF TypeOK, BufOK, Contents
<1> HIDE DEF x
<1>5. \A a \in Buffers : buf'[a] = IF a = b THEN x ELSE buf[a]
  BY <1>1 DEF TypeOK, BufOK, x
<1>6. /\ worker'[w].pc = "initfree" /\ worker'[w].b = b
      /\ \A v \in Workers \ {w} : worker'[v] = worker[v]
  BY <1>2, <1>3 DEF TypeOK, WorkerOK, WorkersAt
<1>7. \A a \in Buffers : Busy(a) => Busy(a)'
  <2>1. Items(todo) \subseteq Items(todo')
    BY <1>1, ConcatItems DEF TypeOK, TodoOK, BufOK, Contents
  <2>2. QED
    BY <1>2, <1>3, <1>6, <2>1 DEF Busy
<1>8. c \in initDone /\ conn[c].state = 1 /\ Up(c) = "up"
  BY <1>1 DEF OrderInv, Inits, Up
<1>9. \A d \in Conns : state_lock'[d] = IF d = c THEN w ELSE state_lock[d]
  BY <1>1, <1>3 DEF TypeOK, LockOK
<1>10. \A a \in Buffers : Alike(a, a) /\ buf'[a].req = buf[a].req
                         /\ (a # b => buf'[a].to_wake = buf[a].to_wake)
  BY <1>1, <1>4, <1>5 DEF Alike
<1>11. /\ \A v \in Workers : worker[v].pc \in {"send", "park", "initfree"} => worker[v].b \in Buffers
       /\ \A v \in Workers : worker[v].pc = "initfree" => buf[worker[v].b].comm \in Conns
       /\ None \notin Workers
  BY ServedKnown, Others DEF TypeOK, WorkerOK
<1> HIDE DEF c
<1>12. Parked'
  <2>1. \A a \in Buffers : buf'[a].lock = buf[a].lock /\ buf'[a].phase = buf[a].phase
    BY <1>10 DEF Alike
  <2>2. QED
    BY <1>6, <1>7, <1>11, <2>1 DEF OrderInv, Parked
<1>13. Inits'
  <2>1. \A a \in Buffers : buf'[a].to_wake # <<>> => buf'[a].to_wake = buf[a].to_wake
    BY <1>4, <1>5
  <2>2. QED
    BY <1>2, <1>7, <1>10, <2>1 DEF OrderInv, Inits, Alike
<1>14. StateLocks'
  <2>1. \A d \in Conns, v \in Workers \ {w} : Ending(v, d) => Ending(v, d)'
    BY <1>2, <1>6, <1>10, <1>11 DEF Ending, Alike
  <2>2. buf'[b].init /\ buf'[b].comm = c /\ buf'[b].lock = None
    BY <1>3, <1>4, <1>5
  <2>3. \A d \in Conns : d = c => Ending(w, d)'
    BY <1>2, <1>6, <1>8, <2>2 DEF Ending
  <2>4. \A d \in Conns : state_lock[d] # w
    BY <1>3 DEF OrderInv, StateLocks, Ending
  <2>5. \A d \in Conns, v \in Workers : state_lock'[d] = v => Ending(v, d)'
    BY <1>9, <2>1, <2>3, <2>4 DEF OrderInv, StateLocks
  <2>6. ASSUME NEW v \in Workers, worker'[v].pc = "initfree"
        PROVE  /\ state_lock'[buf'[worker'[v].b].comm] = v
               /\ buf'[worker'[v].b].lock = None /\ buf'[worker'[v].b].init
    <3>1. CASE v = w
      BY <1>3, <1>6, <1>9, <2>2, <3>1
    <3>2. CASE v # w
      <4>1. /\ worker'[v] = worker[v] /\ worker[v].pc = "initfree"
            /\ state_lock[buf[worker[v].b].comm] = v
            /\ buf[worker[v].b].lock = None /\ buf[worker[v].b].init
            /\ worker[v].b \in Buffers /\ buf[worker[v].b].comm \in Conns
        BY <1>6, <1>11, <2>6, <3>2 DEF OrderInv, StateLocks
      <4>2. buf[worker[v].b].comm # c
        BY <1>1, <1>11, <4>1 DEF c
      <4>3. QED
        BY <1>9, <1>10, <4>1, <4>2 DEF Alike
    <3>3. QED
      BY <3>1, <3>2
  <2>7. \A d, e \in Conns : state_lock'[d] = state_lock'[e] /\ state_lock'[d] \in Workers => d = e
    BY <1>9, <2>4 DEF OrderInv, StateLocks
  <2>8. QED
    BY <2>5, <2>6, <2>7 DEF StateLocks
<1>15. InitBuffers'
  <2>1. \A d \in Conns : conn[d].init_buffer \in Buffers \cup {None}
    BY DEF TypeOK, ConnOK, Connections
  <2>2. \A d \in Conns, v \in Workers : state_lock[d] = v /\ worker[v].pc = "initclear" =>
          state_lock'[d] = v /\ worker'[v].pc = "initclear"
    BY <1>1, <1>3, <1>6, <1>9, <1>11 DEF c
  <2>3. ASSUME NEW d \in Conns, conn[d].init_buffer # None
        PROVE  \/ buf'[conn[d].init_buffer].init /\ buf'[conn[d].init_buffer].comm = d
               \/ VarData /\ conn[d].init_buffer \in Heap
               \/ \E v \in Workers : state_lock'[d] = v /\ worker'[v].pc = "initclear"
    BY <1>10, <2>1, <2>2, <2>3 DEF OrderInv, InitBuffers, Alike
  <2>4. QED
    BY <1>2, <2>3 DEF OrderInv, InitBuffers
<1>16. Queries'
  <2>1. \A d : Up(d)' = Up(d)
    BY <1>2 DEF Up
  <2>2. ASSUME NEW a \in Buffers, buf[a].req # None, NEW d, d = ConnOf[buf[a].req]
        PROVE  \/ Up(d)' = "up"
               \/ \E e \in Buffers : a \in Items(buf'[e].to_wake) /\ buf'[e].init /\ buf'[e].comm = d
    <3>1. CASE Up(d) = "up"
      BY <2>1, <3>1
    <3>2. ASSUME NEW e \in Buffers, a \in Items(buf[e].to_wake), buf[e].init, buf[e].comm = d
          PROVE  \/ Up(d)' = "up"
                 \/ \E f \in Buffers : a \in Items(buf'[f].to_wake) /\ buf'[f].init /\ buf'[f].comm = d
      <4>1. CASE e = b
        BY <1>8, <2>1, <3>2, <4>1 DEF c
      <4>2. CASE e # b
        BY <1>10, <3>2, <4>2 DEF Alike
      <4>3. QED
        BY <4>1, <4>2
    <3>3. QED
      BY <2>2, <3>1, <3>2 DEF OrderInv, Queries
  <2>3. QED
    BY <1>2, <1>10, <2>2 DEF OrderInv, Queries, Alike
<1>17. Undecided'
  BY <1>2 DEF OrderInv, Undecided
<1>18. Reading'
  <2>1. ASSUME NEW d \in Conns, reader[d].pc \in Filling PROVE Inert(buf'[reader[d].b])
    <3>1. Inert(buf[reader[d].b]) /\ reader[d].b \in Buffers
      BY <2>1 DEF OrderInv, Reading, TypeOK, ReaderOK, Filling
    <3>2. buf'[reader[d].b] = buf[reader[d].b]
      BY <1>1, <1>5, <3>1 DEF Inert
    <3>3. QED
      BY <3>1, <3>2
  <2>2. QED
    BY <1>2, <2>1 DEF Reading
<1>19. QED
  BY <1>12, <1>13, <1>14, <1>15, <1>16, <1>17, <1>18 DEF OrderInv

LEMMA InitClearsOrder ==
  ASSUME TypeOK, Own, OrderInv, NEW w \in Workers, InitClears(w)
  PROVE  OrderInv'
<1>1. PICK c \in Conns :
        /\ state_lock[c] = w
        /\ conn' = [conn EXCEPT ![c].init_buffer = None]
        /\ state_lock' = [state_lock EXCEPT ![c] = None]
  BY DEF InitClears
<1>2. /\ worker[w].pc = "initclear" /\ worker' = [worker EXCEPT ![w] = WorkerIdle]
      /\ UNCHANGED <<buf, todo, wait, reader, seen, decided, initDone>>
  BY DEF InitClears, WorkerAt, kernel, history
<1>3. /\ worker'[w].pc = "idle" /\ \A v \in Workers \ {w} : worker'[v] = worker[v]
  BY <1>2 DEF TypeOK, WorkerOK, WorkerIdle
<1>4. \A d \in Conns : /\ conn'[d].state = conn[d].state
                       /\ conn'[d].function_init = conn[d].function_init
                       /\ conn'[d].init_buffer = IF d = c THEN None ELSE conn[d].init_buffer
  BY <1>1 DEF TypeOK, ConnOK, Connections
<1>5. \A d \in Conns : state_lock'[d] = IF d = c THEN None ELSE state_lock[d]
  BY <1>1 DEF TypeOK, LockOK
<1>6. \A a \in Buffers : Busy(a) => Busy(a)'
  BY <1>2, <1>3 DEF Busy
<1>7. c \in initDone /\ \A d \in Conns \ {c} : state_lock[d] # w
  BY <1>1 DEF OrderInv, StateLocks, Ending
<1>8. /\ \A v \in Workers : worker[v].pc = "initfree" => buf[worker[v].b].comm \in Conns
      /\ None \notin Workers
  BY ServedKnown, Others
<1>9. Parked'
  <2>1. \A v \in Workers : worker'[v].pc \in {"send", "park"} =>
          /\ worker'[v] = worker[v] /\ worker[v].b \in Buffers
    BY <1>3 DEF TypeOK, WorkerOK
  <2>2. QED
    BY <1>2, <1>6, <2>1 DEF OrderInv, Parked
<1>10. Inits'
  <2>1. \A a \in Buffers : buf[a].init => buf[a].comm \in Conns
    BY BusyKnown DEF OrderInv, Inits
  <2>2. QED
    BY <1>2, <1>4, <1>6, <2>1 DEF OrderInv, Inits
<1>11. StateLocks'
  <2>1. \A d \in Conns, v \in Workers \ {w} : Ending(v, d) => Ending(v, d)'
    BY <1>2, <1>3 DEF Ending
  <2>2. \A d \in Conns, v \in Workers : state_lock'[d] = v => Ending(v, d)'
    BY <1>5, <1>7, <1>8, <2>1 DEF OrderInv, StateLocks
  <2>3. ASSUME NEW v \in Workers, worker'[v].pc = "initfree"
        PROVE  /\ state_lock'[buf'[worker'[v].b].comm] = v
               /\ buf'[worker'[v].b].lock = None /\ buf'[worker'[v].b].init
    <3>1. v # w /\ worker'[v] = worker[v] /\ worker[v].pc = "initfree"
      BY <1>3, <2>3
    <3>2. /\ state_lock[buf[worker[v].b].comm] = v /\ buf[worker[v].b].comm \in Conns
          /\ buf[worker[v].b].lock = None /\ buf[worker[v].b].init
      BY <1>8, <3>1 DEF OrderInv, StateLocks
    <3>3. QED
      BY <1>1, <1>2, <1>5, <3>1, <3>2
  <2>4. \A d, e \in Conns : state_lock'[d] = state_lock'[e] /\ state_lock'[d] \in Workers => d = e
    BY <1>5, <1>8 DEF OrderInv, StateLocks
  <2>5. QED
    BY <2>2, <2>3, <2>4 DEF StateLocks
<1>12. InitBuffers'
  <2>1. ASSUME NEW d \in Conns \ {c}, conn[d].init_buffer # None
        PROVE  \/ buf'[conn[d].init_buffer].init /\ buf'[conn[d].init_buffer].comm = d
               \/ VarData /\ conn[d].init_buffer \in Heap
               \/ \E v \in Workers : state_lock'[d] = v /\ worker'[v].pc = "initclear"
    <3>1. \A v \in Workers : state_lock[d] = v /\ worker[v].pc = "initclear" =>
            state_lock'[d] = v /\ worker'[v].pc = "initclear"
      BY <1>3, <1>5, <1>7
    <3>2. QED
      BY <1>2, <2>1, <3>1 DEF OrderInv, InitBuffers
  <2>2. QED
    BY <1>2, <1>4, <1>7, <2>1 DEF OrderInv, InitBuffers
<1>13. Queries'
  <2>1. \A a \in Buffers : buf[a].req # None => ConnOf[buf[a].req] \in Conns
    BY CommAssumption DEF TypeOK, BufOK, Contents
  <2>2. \A d \in Conns : Up(d)' = Up(d)
    BY <1>2, <1>4 DEF Up
  <2>3. QED
    BY <1>2, <2>1, <2>2 DEF OrderInv, Queries
<1>14. Undecided' /\ Reading'
  BY <1>2 DEF OrderInv, Undecided, Reading
<1>15. QED
  BY <1>9, <1>10, <1>11, <1>12, <1>13, <1>14 DEF OrderInv

(* comm_buf_free() at the end of _init().                                  *)
LEMMA InitFreesOrder ==
  ASSUME TypeOK, Own, OrderInv, NEW w \in Workers, InitFrees(w)
  PROVE  OrderInv'
<1> DEFINE b == worker[w].b
           c == buf[b].comm
           r == Fresh(mem)
           x == Outgoing(c, [kind |-> "ready"])
<1>1. /\ worker[w].pc = "initfree" /\ Free(b, buf, mem, output)
      /\ worker' = [worker EXCEPT ![w] = [WorkerIdle EXCEPT !.pc = "initclear"]]
      /\ UNCHANGED <<wait, reader, conn, state_lock, seen, decided, initDone>>
  BY DEF InitFrees, WorkerAt, kernel, history
<1>2. /\ b \in Buffers /\ Holds("worker", w, b) /\ c \in Conns /\ Busy(b)
      /\ buf[b].lock = None /\ buf[b].init /\ state_lock[c] = w
  BY <1>1, ServedKnown DEF OrderInv, StateLocks, Busy
<1>3. /\ worker'[w].pc = "initclear" /\ \A v \in Workers \ {w} : worker'[v] = worker[v]
  BY <1>1 DEF TypeOK, WorkerOK, WorkerIdle
<1>4. c \in initDone /\ conn[c].state = 1 /\ Up(c) = "up"
  BY <1>1, <1>2 DEF OrderInv, Inits, StateLocks, Ending, Up
<1>5. SendsReady(b) => r \in Buffers /\ ~Busy(r) /\ r # b
  <2>1. SendsReady(b) => Available(mem)
    BY <1>1 DEF Free
  <2>2. QED
    BY <1>2, <2>1, FreshFits
<1>6. Inert(x) /\ Inert(Blank)
  BY InertMade
<1>7. buf' = IF SendsReady(b) THEN [buf EXCEPT ![b] = Blank, ![r] = x]
             ELSE [buf EXCEPT ![b] = Blank]
  BY <1>1 DEF Free
<1> HIDE DEF x
<1>8. \A a \in Buffers : buf'[a] = IF SendsReady(b) /\ a = r THEN x
                                   ELSE IF a = b THEN Blank ELSE buf[a]
  BY <1>2, <1>5, <1>7 DEF TypeOK, BufOK
<1>9. \A a \in Buffers \ {b} : Busy(a) => buf'[a] = buf[a]
  BY <1>5, <1>8
<1>10. \A a \in Buffers : (buf'[a] = buf[a] /\ a # b) \/ Inert(buf'[a])
  BY <1>2, <1>5, <1>6, <1>8
<1>11. \A a \in Buffers \ {b} : Busy(a) => Busy(a)'
  <2>1. Items(todo) \subseteq Items(todo')
    <3>1. todo' = todo \o buf[b].to_wake
      BY <1>1 DEF Free
    <3>2. QED
      BY <1>2, <3>1, ConcatItems DEF TypeOK, TodoOK, BufOK, Contents
  <2>2. QED
    BY <1>1, <1>3, <2>1 DEF Busy
<1>12. \A v \in Workers \ {w} : worker[v].pc \in {"send", "park", "initfree"} =>
         /\ worker[v].b \in Buffers \ {b} /\ Busy(worker[v].b)
  <2>1. \A v \in Workers \ {w} : worker[v].pc \in {"send", "park", "initfree"} =>
          worker[v].b \in Buffers
    BY DEF TypeOK, WorkerOK
  <2>2. \A v \in Workers \ {w} : worker[v].pc \in {"send", "park", "initfree"} =>
          worker[v].b # b
    BY <1>1, <1>2, ServedAlone
  <2>3. \A v \in Workers \ {w} : worker[v].pc \in {"send", "park", "initfree"} => Busy(worker[v].b)
    BY DEF OrderInv, Parked, Busy
  <2>4. QED
    BY <2>1, <2>2, <2>3
<1> HIDE DEF b, c, r
<1>13. Parked'
  <2>1. ASSUME NEW v \in Workers, worker'[v].pc \in {"send", "park"}
        PROVE  /\ Busy(worker[v].b)' /\ buf'[worker'[v].b].lock = v
               /\ worker'[v].phase = 1 <=> buf'[worker'[v].b].phase < 1000
    <3>1. v # w /\ worker'[v] = worker[v]
      BY <1>3, <2>1
    <3>2. Busy(worker[v].b)' /\ buf'[worker[v].b] = buf[worker[v].b]
      BY <1>9, <1>11, <1>12, <2>1, <3>1
    <3>3. QED
      BY <2>1, <3>1, <3>2 DEF OrderInv, Parked
  <2>2. QED
    BY <2>1 DEF Parked
<1>14. Inits'
  <2>1. \A a \in Buffers : Inert(buf'[a]) => ~buf'[a].init /\ buf'[a].to_wake = <<>> /\ buf'[a].room
    BY DEF Inert
  <2>2. QED
    BY <1>1, <1>10, <1>11, <2>1 DEF OrderInv, Inits
<1>15. StateLocks'
  <2>1. \A d \in Conns, v \in Workers \ {w} : Ending(v, d) => Ending(v, d)'
    BY <1>1, <1>3, <1>9, <1>12 DEF Ending
  <2>2. \A d \in Conns : Ending(w, d) => Ending(w, d)'
    BY <1>1, <1>3 DEF Ending
  <2>3. ASSUME NEW v \in Workers, worker'[v].pc = "initfree"
        PROVE  /\ state_lock'[buf'[worker'[v].b].comm] = v
               /\ buf'[worker'[v].b].lock = None /\ buf'[worker'[v].b].init
    BY <1>1, <1>3, <1>9, <1>12, <2>3 DEF OrderInv, StateLocks
  <2>4. QED
    BY <1>1, <2>1, <2>2, <2>3 DEF OrderInv, StateLocks
<1>16. InitBuffers'
  <2>1. ASSUME NEW d \in Conns, conn[d].init_buffer # None
        PROVE  \/ buf'[conn[d].init_buffer].init /\ buf'[conn[d].init_buffer].comm = d
               \/ VarData /\ conn[d].init_buffer \in Heap
               \/ \E v \in Workers : state_lock'[d] = v /\ worker'[v].pc = "initclear"
    <3> DEFINE p == conn[d].init_buffer
    <3>0. p \in Buffers
      BY <2>1 DEF TypeOK, ConnOK, Connections
    <3>1. CASE buf[p].init /\ buf[p].comm = d
      <4>1. CASE p = b
        BY <1>1, <1>2, <1>3, <3>1, <4>1 DEF c
      <4>2. CASE p # b
        <5>1. Busy(p)
          BY <3>0, <3>1 DEF OrderInv, Inits
        <5>2. QED
          BY <1>9, <3>0, <3>1, <4>2, <5>1
      <4>3. QED
        BY <4>1, <4>2
    <3>2. CASE VarData /\ p \in Heap
      BY <3>2
    <3>3. CASE \E v \in Workers : state_lock[d] = v /\ worker[v].pc = "initclear"
      BY <1>1, <1>3, <3>3
    <3>4. QED
      BY <2>1, <3>1, <3>2, <3>3 DEF OrderInv, InitBuffers
  <2>2. QED
    BY <1>1, <2>1 DEF OrderInv, InitBuffers
<1>17. Queries'
  <2>1. \A d : Up(d)' = Up(d)
    BY <1>1 DEF Up
  <2>2. ASSUME NEW a \in Buffers, buf[a].req # None, NEW d, d = ConnOf[buf[a].req]
        PROVE  \/ Up(d)' = "up"
               \/ \E e \in Buffers : a \in Items(buf'[e].to_wake) /\ buf'[e].init /\ buf'[e].comm = d
    <3>1. CASE Up(d) = "up"
      BY <2>1, <3>1
    <3>2. ASSUME NEW e \in Buffers, a \in Items(buf[e].to_wake), buf[e].init, buf[e].comm = d
          PROVE  \/ Up(d)' = "up"
                 \/ \E f \in Buffers : a \in Items(buf'[f].to_wake) /\ buf'[f].init /\ buf'[f].comm = d
      <4>1. CASE e = b
        BY <1>4, <2>1, <3>2, <4>1 DEF c
      <4>2. CASE e # b
        BY <1>9, <3>2, <4>2 DEF OrderInv, Inits
      <4>3. QED
        BY <4>1, <4>2
    <3>3. QED
      BY <2>2, <3>1, <3>2 DEF OrderInv, Queries
  <2>3. \A a \in Buffers : buf'[a].req # None => buf'[a] = buf[a]
    BY <1>10 DEF Inert
  <2>4. QED
    BY <1>1, <2>2, <2>3 DEF OrderInv, Queries
<1>18. Undecided'
  BY <1>1 DEF OrderInv, Undecided
<1>19. Reading'
  <2>1. ASSUME NEW d \in Conns, reader[d].pc \in Filling PROVE Inert(buf'[reader[d].b])
    <3>1. Inert(buf[reader[d].b]) /\ reader[d].b \in Buffers
      BY <2>1 DEF OrderInv, Reading, TypeOK, ReaderOK, Filling
    <3>2. QED
      BY <1>10, <3>1
  <2>2. QED
    BY <1>1, <2>1 DEF Reading
<1>20. QED
  BY <1>13, <1>14, <1>15, <1>16, <1>17, <1>18, <1>19 DEF OrderInv

(* comm_alloc_var_data(): who has which buffer afterwards.                 *)
LEMMA ResizesMoves ==
  ASSUME TypeOK, Own, NEW w \in Workers, Resizes(w),
         NEW b, b = worker[w].b, NEW n, n = Fresh(mem), NEW r, r = Fresh(Taken(mem))
  PROVE  /\ worker[w].pc = "got" /\ b \in Buffers /\ n \in Buffers /\ n # b
         /\ buf[b].comm \in Conns /\ buf[b].lock = None /\ VarData /\ ~buf[b].room
         /\ ~Busy(n) /\ \A d \in Conns : reader[d].pc \in Owning => reader[d].b \notin {b, n}
         /\ SendsReady(b) => r \in Buffers \ {b, n} /\ ~Busy(r)
         /\ \A a \in Buffers :
              buf'[a] = IF SendsReady(b) /\ a = r THEN Outgoing(buf[b].comm, [kind |-> "ready"])
                        ELSE IF a = b THEN Blank
                        ELSE IF a = n THEN [buf[b] EXCEPT !.room = TRUE]
                        ELSE buf[a]
         /\ todo' = todo /\ (SendsReady(b) => Available(Taken(mem)))
         /\ output' = IF SendsReady(b) THEN [output EXCEPT ![buf[b].comm] = comm_buf_to_queue(@, r)]
                      ELSE output
         /\ worker' = [worker EXCEPT ![w].b = n]
         /\ UNCHANGED <<wait, reader, writer, conn, state_lock, kernel, history>>
<1> DEFINE bufs == Resized(b, n)
           x == [buf[b] EXCEPT !.room = TRUE]
           y == Outgoing(buf[b].comm, [kind |-> "ready"])
           m == Taken(mem)
<1>1. /\ worker[w].pc = "got" /\ buf[b].lock = None /\ VarData /\ ~buf[b].room
      /\ Available(mem) /\ Free(b, bufs, m, output)
      /\ worker' = [worker EXCEPT ![w].b = n]
      /\ UNCHANGED <<wait, reader, writer, conn, state_lock, kernel, history>>
  BY DEF Resizes, Locks, WorkerAt, Resized
<1>2. b \in Buffers /\ Holds("worker", w, b) /\ buf[b].comm \in Conns
  BY <1>1, ServedKnown
<1>3. n \in Buffers /\ ~Busy(n) /\ Holds(Slot(mem), None, n) /\ Slot(mem) \in Slots
  BY <1>1, FreshFits, TakesFresh
<1>4. n # b
  BY <1>2, <1>3 DEF Own, Apart, Slots
<1>5. /\ bufs[b].to_wake = <<>> /\ bufs[b].comm = buf[b].comm
      /\ bufs \in [Buffers -> Contents]
      /\ \A a \in Buffers \ {b, n} : bufs[a] = buf[a]
  BY <1>2, <1>3, ResizedOK
<1>6. bufs[n] = x
  <2> DEFINE step == [buf EXCEPT ![n] = x]
  <2>1. step \in [Buffers -> Contents] /\ step[n] = x
    <3>1. x \in Contents
      BY <1>2, RoomSet DEF TypeOK, BufOK
    <3> HIDE DEF x
    <3>2. QED
      BY <1>3, <3>1 DEF TypeOK, BufOK
  <2>2. bufs = [step EXCEPT ![b] = [step[b] EXCEPT !.to_wake = <<>>]]
    BY <2>1 DEF Resized
  <2> HIDE DEF step, x
  <2>3. QED
    BY <1>3, <1>4, <2>1, <2>2
<1>7. \A d \in Conns : reader[d].pc \in Owning => reader[d].b \notin {b, n}
  <2>1. \A d \in Conns : reader[d].pc \in Owning => reader[d].b # b
    BY <1>1, <1>2, ReaderFits DEF Busy
  <2>2. QED
    BY <1>1, <2>1, FreshFits
<1>8. SendsReady(b) => r \in Buffers \ {b, n} /\ ~Busy(r) /\ Available(m)
  <2> SUFFICES ASSUME SendsReady(b) PROVE r \in Buffers \ {b, n} /\ ~Busy(r) /\ Available(m)
    OBVIOUS
  <2>1. Available(m)
    BY <1>1 DEF Free
  <2>0. /\ Once(m.slot0) /\ Once(m.slot1) /\ m \in Memory
        /\ \A k, z, a : InMem(m, k, z, a) =>
             InMem(mem, k, z, a) /\ ~(a = n /\ k = Slot(mem) /\ z = None)
    BY <1>1, TakesFresh, TakenOK DEF TypeOK, MemOK
  <2> HIDE DEF m
  <2>2. Fresh(m) \in Buffers /\ InMem(m, Slot(m), None, Fresh(m)) /\ Slot(m) \in Slots
    BY <2>0, <2>1, TakenOK, TakenFrom DEF Slot, Slots
  <2>3. r \in Buffers /\ InMem(m, Slot(m), None, r)
    BY <2>2 DEF m
  <2>4. Holds(Slot(m), None, r) /\ (r = n => Slot(m) # Slot(mem))
    BY <2>0, <2>3 DEF Holds
  <2>5. r # n /\ r # b
    BY <1>2, <1>3, <2>2, <2>3, <2>4 DEF Own, Apart, Slots
  <2>6. Slot(m) \notin {"todo", "wait", "fetched", "worker"}
    BY <2>2 DEF Slots
  <2>7. ~Busy(r)
    BY <2>3, <2>4, <2>6, NotBusy DEF Own
  <2>8. QED
    BY <2>1, <2>3, <2>5, <2>7
<1>9. /\ todo' = todo
      /\ output' = IF SendsReady(b) THEN [output EXCEPT ![buf[b].comm] = comm_buf_to_queue(@, r)]
                   ELSE output
      /\ buf' = IF SendsReady(b) THEN [bufs EXCEPT ![b] = Blank, ![r] = y]
                ELSE [bufs EXCEPT ![b] = Blank]
  BY <1>1, <1>5 DEF Free, TypeOK, TodoOK
<1> HIDE DEF bufs, x, y, m
<1>10. \A a \in Buffers : buf'[a] = IF SendsReady(b) /\ a = r THEN y
                                    ELSE IF a = b THEN Blank
                                    ELSE IF a = n THEN x ELSE buf[a]
  BY <1>2, <1>3, <1>4, <1>5, <1>6, <1>8, <1>9
<1>11. QED
  BY <1>1, <1>2, <1>3, <1>4, <1>7, <1>8, <1>9, <1>10 DEF x, y, m

LEMMA ResizesOrder ==
  ASSUME TypeOK, Own, OrderInv, NEW w \in Workers, Resizes(w)
  PROVE  OrderInv'
<1>0. PICK b, n, r : b = worker[w].b /\ n = Fresh(mem) /\ r = Fresh(Taken(mem))
  OBVIOUS
<1> DEFINE c == buf[b].comm
           x == [buf[b] EXCEPT !.room = TRUE]
           y == Outgoing(c, [kind |-> "ready"])
<1>1. /\ worker[w].pc = "got" /\ b \in Buffers /\ n \in Buffers /\ n # b
      /\ c \in Conns /\ buf[b].lock = None /\ VarData /\ ~buf[b].room
      /\ ~Busy(n) /\ \A d \in Conns : reader[d].pc \in Owning => reader[d].b \notin {b, n}
      /\ SendsReady(b) => r \in Buffers \ {b, n} /\ ~Busy(r)
      /\ \A a \in Buffers :
           buf'[a] = IF SendsReady(b) /\ a = r THEN y ELSE IF a = b THEN Blank
                     ELSE IF a = n THEN x ELSE buf[a]
      /\ todo' = todo /\ worker' = [worker EXCEPT ![w].b = n]
      /\ UNCHANGED <<wait, reader, conn, state_lock, kernel, history>>
  BY <1>0, ResizesMoves
<1>2. UNCHANGED <<wait, reader, conn, state_lock, seen, decided, initDone>>
  BY <1>1 DEF kernel, history
<1>3. buf[b].init /\ b \in Heap /\ buf[b].req = None
  BY <1>1 DEF OrderInv, Inits
<1>4. /\ x.comm = c /\ x.init /\ x.req = None /\ x.verdict = buf[b].verdict
      /\ x.phase = buf[b].phase /\ x.lock = None /\ x.to_wake = buf[b].to_wake /\ x.room
  BY <1>1, <1>3 DEF TypeOK, BufOK, Contents
<1>5. Inert(y) /\ Inert(Blank)
  BY InertMade
<1>6. /\ worker'[w].pc = "got" /\ worker'[w].b = n
      /\ \A v \in Workers \ {w} : worker'[v] = worker[v]
  BY <1>1 DEF TypeOK, WorkerOK, WorkersAt
<1> HIDE DEF x, y
<1>7. /\ \A a \in Buffers \ {b} : Busy(a) => buf'[a] = buf[a]
      /\ \A a \in Buffers : a = n \/ (a # b /\ buf'[a] = buf[a]) \/ Inert(buf'[a])
      /\ buf'[n] = x
  BY <1>1, <1>5
<1>8. /\ \A a \in Buffers \ {b} : Busy(a) => Busy(a)'
      /\ \A a \in Buffers : a = n => Busy(a)'
  BY <1>0, <1>1, <1>6 DEF Busy
<1>9. \A v \in Workers \ {w} : worker[v].pc \in {"send", "park", "initfree"} =>
        worker[v].b \in Buffers \ {b} /\ Busy(worker[v].b)
  <2>1. \A v \in Workers \ {w} : worker[v].pc \in {"send", "park", "initfree"} =>
          worker[v].b \in Buffers
    BY DEF TypeOK, WorkerOK
  <2>2. \A v \in Workers \ {w} : worker[v].pc \in {"send", "park", "initfree"} =>
          worker[v].b # b
    BY <1>0, <1>1, ServedAlone
  <2>3. \A v \in Workers \ {w} : worker[v].pc \in {"send", "park", "initfree"} => Busy(worker[v].b)
    BY DEF OrderInv, Parked, Busy
  <2>4. QED
    BY <2>1, <2>2, <2>3
<1> HIDE DEF c
<1>10. Parked'
  <2>1. ASSUME NEW v \in Workers, worker'[v].pc \in {"send", "park"}
        PROVE  /\ Busy(worker[v].b)' /\ buf'[worker'[v].b].lock = v
               /\ worker'[v].phase = 1 <=> buf'[worker'[v].b].phase < 1000
               /\ worker'[v].b = worker[v].b
    <3>1. v # w /\ worker'[v] = worker[v]
      BY <1>6, <2>1
    <3>2. Busy(worker[v].b)' /\ buf'[worker[v].b] = buf[worker[v].b]
      BY <1>7, <1>8, <1>9, <2>1, <3>1
    <3>3. QED
      BY <2>1, <3>1, <3>2 DEF OrderInv, Parked
  <2>2. QED
    BY <2>1 DEF Parked
<1>11. Inits'
  <2>1. \A a \in Buffers : Inert(buf'[a]) => ~buf'[a].init /\ buf'[a].to_wake = <<>> /\ buf'[a].room
    BY DEF Inert
  <2>2. buf[b].phase >= 1000 => c \in initDone
    BY <1>1, <1>3 DEF OrderInv, Inits, c
  <2>3. conn[c].state = 1
    BY <1>1, <1>3 DEF OrderInv, Inits, c
  <2>4. ASSUME NEW a \in Buffers, a = n
        PROVE  /\ buf'[a].init => /\ Busy(a)' /\ conn'[buf'[a].comm].state = 1
                                  /\ buf'[a].phase >= 1000 => buf'[a].comm \in initDone'
                                  /\ buf'[a].req = None
               /\ buf'[a].to_wake # <<>> => buf'[a].init
               /\ buf'[a].room
    BY <1>2, <1>4, <1>7, <1>8, <2>2, <2>3, <2>4
  <2>5. ASSUME NEW a \in Buffers, a # n
        PROVE  /\ buf'[a].init => /\ Busy(a)' /\ conn'[buf'[a].comm].state = 1
                                  /\ buf'[a].phase >= 1000 => buf'[a].comm \in initDone'
                                  /\ buf'[a].req = None
               /\ buf'[a].to_wake # <<>> => buf'[a].init
               /\ ~buf'[a].room => a \in Heap /\ buf'[a].init
    BY <1>2, <1>7, <1>8, <2>1, <2>5 DEF OrderInv, Inits
  <2>6. QED
    BY <2>4, <2>5 DEF Inits
<1>12. StateLocks'
  <2>1. \A d \in Conns, v \in Workers \ {w} : Ending(v, d) => Ending(v, d)'
    BY <1>2, <1>6, <1>7, <1>9 DEF Ending
  <2>2. \A d \in Conns : ~Ending(w, d)
    BY <1>1 DEF Ending
  <2>3. ASSUME NEW v \in Workers, worker'[v].pc = "initfree"
        PROVE  /\ state_lock'[buf'[worker'[v].b].comm] = v
               /\ buf'[worker'[v].b].lock = None /\ buf'[worker'[v].b].init
    BY <1>2, <1>6, <1>7, <1>9, <2>3 DEF OrderInv, StateLocks
  <2>4. QED
    BY <1>2, <2>1, <2>2, <2>3 DEF OrderInv, StateLocks
<1>13. InitBuffers'
  <2>1. ASSUME NEW d \in Conns, conn[d].init_buffer # None
        PROVE  \/ buf'[conn[d].init_buffer].init /\ buf'[conn[d].init_buffer].comm = d
               \/ VarData /\ conn[d].init_buffer \in Heap
               \/ \E v \in Workers : state_lock'[d] = v /\ worker'[v].pc = "initclear"
    <3> DEFINE p == conn[d].init_buffer
    <3>0. p \in Buffers
      BY <2>1 DEF TypeOK, ConnOK, Connections
    <3>1. CASE buf[p].init /\ buf[p].comm = d
      <4>1. CASE p = b
        BY <1>1, <1>3, <4>1
      <4>2. CASE p # b
        <5>1. Busy(p)
          BY <3>0, <3>1 DEF OrderInv, Inits
        <5>2. QED
          BY <1>7, <3>0, <3>1, <4>2, <5>1
      <4>3. QED
        BY <4>1, <4>2
    <3>2. CASE VarData /\ p \in Heap
      BY <3>2
    <3>3. CASE \E v \in Workers : state_lock[d] = v /\ worker[v].pc = "initclear"
      BY <1>1, <1>2, <1>6, <3>3
    <3>4. QED
      BY <2>1, <3>1, <3>2, <3>3 DEF OrderInv, InitBuffers
  <2>2. QED
    BY <1>2, <2>1 DEF OrderInv, InitBuffers
<1>14. Queries'
  <2>1. \A d : Up(d)' = Up(d)
    BY <1>2 DEF Up
  <2>2. ASSUME NEW a \in Buffers, buf[a].req # None, NEW d, d = ConnOf[buf[a].req]
        PROVE  \/ Up(d)' = "up"
               \/ \E e \in Buffers : a \in Items(buf'[e].to_wake) /\ buf'[e].init /\ buf'[e].comm = d
    <3>1. CASE Up(d) = "up"
      BY <2>1, <3>1
    <3>2. ASSUME NEW e \in Buffers, a \in Items(buf[e].to_wake), buf[e].init, buf[e].comm = d
          PROVE  \/ Up(d)' = "up"
                 \/ \E f \in Buffers : a \in Items(buf'[f].to_wake) /\ buf'[f].init /\ buf'[f].comm = d
      <4>1. CASE e = b
        BY <1>1, <1>4, <1>7, <3>2, <4>1 DEF c
      <4>2. CASE e # b
        BY <1>7, <3>2, <4>2 DEF OrderInv, Inits
      <4>3. QED
        BY <4>1, <4>2
    <3>3. QED
      BY <2>2, <3>1, <3>2 DEF OrderInv, Queries
  <2>3. \A a \in Buffers : buf'[a].req # None => buf'[a] = buf[a]
    BY <1>4, <1>7 DEF Inert
  <2>4. QED
    BY <1>2, <2>2, <2>3 DEF OrderInv, Queries
<1>15. Undecided'
  BY <1>2 DEF OrderInv, Undecided
<1>16. Reading'
  <2>1. ASSUME NEW d \in Conns, reader[d].pc \in Filling PROVE Inert(buf'[reader[d].b])
    <3>1. Inert(buf[reader[d].b]) /\ reader[d].b \in Buffers /\ reader[d].b \notin {b, n}
      BY <1>1, <2>1 DEF OrderInv, Reading, TypeOK, ReaderOK, Filling
    <3>2. QED
      BY <1>7, <3>1
  <2>2. QED
    BY <1>2, <2>1 DEF Reading
<1>17. QED
  BY <1>10, <1>11, <1>12, <1>13, <1>14, <1>15, <1>16 DEF OrderInv

LEMMA WorkerOrder ==
  ASSUME TypeOK, Own, BeginInv, OrderInv, DecidedOK, NEW w \in Workers, WorkerStep(w)
  PROVE  OrderInv'
BY WorkerPassesOrder, ResizesOrder, WorkerAsksOrder, EventDecidesOrder, AnswerSendsOrder,
   WorkerParksOrder, InitWakesOrder, InitFreesOrder, InitClearsOrder DEF WorkerStep

(* Every step keeps the order of the threads.                              *)
LEMMA NextOrder ==
  ASSUME Orderly, TypeOK, Own, BeginInv, Unbroken, OrderInv, DecidedOK, [Next]_vars
  PROVE  OrderInv'
<1>1. CASE UNCHANGED vars
  <2>1. UNCHANGED <<shared, reader, worker, seen, decided, initDone>>
    BY <1>1 DEF vars, kernel, history
  <2>2. Calm
    BY <2>1 DEF Calm, Same, shared, Busy
  <2>3. QED
    BY <2>2, CalmInv
<1>2. ASSUME NEW c \in Conns, KernelMoves(c) \/ ReadsAnswer(c) \/ ReaderStep(c) \/ WriterStep(c)
      PROVE  OrderInv'
  BY <1>2, KernelOrder, ReaderOrder, WriterOrder
<1>3. ASSUME NEW w \in Workers, WorkerStep(w) PROVE OrderInv'
  BY <1>3, WorkerOrder
<1>4. ~MainReturns /\ \A c \in Conns : ~CloseStep(c)
  BY CommAssumption, NoneCloses
<1>5. QED
  BY <1>1, <1>2, <1>3, <1>4 DEF Next, Done

LEMMA InitOrder == Init => Unbroken /\ OrderInv /\ HistoryOK
<1> SUFFICES ASSUME Init PROVE Unbroken /\ OrderInv /\ HistoryOK
  OBVIOUS
<1>1. Unbroken
  BY DEF Init, Unbroken, ReaderIdle, WriterIdle, Closing
<1>2. \A b \in Buffers : ~buf[b].init /\ buf[b].req = None /\ buf[b].to_wake = <<>> /\ buf[b].room
  BY DEF Init, Blank
<1>3. Parked /\ Inits
  BY <1>2 DEF Init, Parked, Inits, WorkerIdle
<1>4. StateLocks
  BY Others DEF Init, StateLocks, WorkerIdle
<1>5. InitBuffers
  <2>1. \A c \in Conns : conn[c].state = 0 /\ conn[c].init_buffer = None /\ reader[c].pc = "get"
    BY DEF Init, ReaderIdle
  <2>2. QED
    BY <2>1 DEF InitBuffers
<1>6. Queries /\ Undecided
  <2>1. \A r \in Requests : decided[r] = None
    BY DEF Init
  <2>2. \A c \in Conns : reader[c].pc = "get"
    BY DEF Init, ReaderIdle
  <2>3. QED
    BY <1>2, <2>1, <2>2 DEF Queries, Undecided
<1>7. Reading
  BY DEF Init, Reading, ReaderIdle, Filling, Owning
<1>8. HistoryOK
  BY DEF Init, HistoryOK
<1>9. QED
  BY <1>1, <1>3, <1>4, <1>5, <1>6, <1>7, <1>8 DEF OrderInv

(* A writer has a buffer in its hands only to free it.                     *)
WritersIdle == \A c \in Conns : writer[c].pc # "free" => writer[c].b = None

LEMMA NextWriters ==
  ASSUME TypeOK, WritersIdle, [Next]_vars PROVE WritersIdle'
<1>1. ASSUME UNCHANGED writer PROVE WritersIdle'
  BY <1>1 DEF WritersIdle
<1>2. ASSUME NEW c \in Conns, KernelMoves(c) \/ ReadsAnswer(c) PROVE UNCHANGED writer
  BY <1>2 DEF KernelMoves, ReadsReadyRequest, ReadsQuery, ReadsStrayAnswer, ReadFails, ReadsAnswer,
              Reads
<1>3. ASSUME NEW c \in Conns, ReaderStep(c) PROVE UNCHANGED writer
  BY <1>3 DEF ReaderStep, ReaderGets, ReadyRequest, ReadyAnswer, QueryInits, QueryRefused, InitRefused,
              QueryWaits, QueryDangles, QueryPasses, QueryQueued, ReaderChecks,
              UpdateAnswered, FetchFailed, FetchAnswered, FetchDone, AnswerUnexpected,
              ReaderFrees, ReaderFails, Ends
<1>4. ASSUME NEW w \in Workers, WorkerStep(w) PROVE UNCHANGED writer
  <2>1. \A b, e, k, phase : Asks(w, b, e, k, phase) => UNCHANGED writer
    BY DEF Asks
  <2>2. CASE EventAsks(w) \/ AnswerUpdates(w)
    <3>1. CASE EventAsks(w)
      <4>1. PICK b \in Buffers, k \in Kinds, e \in Conns : Asks(w, b, e, k, 1)
        BY <3>1, Zenon DEF EventAsks
      <4>2. QED
        BY <2>1, <4>1
    <3>2. CASE AnswerUpdates(w)
      <4>1. PICK b \in Buffers : Asks(w, b, buf[b].comm, "update", 1003)
        BY <3>2, Zenon DEF AnswerUpdates
      <4>2. QED
        BY <2>1, <4>1
    <3>3. QED
      BY <2>2, <3>1, <3>2
  <2>3. CASE EventDecides(w)
    BY <2>3, Zenon DEF EventDecides
  <2>4. CASE AnswerSends(w) \/ InitWakes(w)
    BY <2>4, Zenon DEF AnswerSends, InitWakes
  <2>5. CASE WorkerTakes(w) \/ Resizes(w) \/ WorkerFrees(w) \/ WorkerSends(w)
    BY <2>5 DEF WorkerTakes, Resizes, WorkerFrees, WorkerSends
  <2>6. CASE WorkerParks(w) \/ InitFrees(w) \/ InitClears(w)
    BY <2>6 DEF WorkerParks, InitFrees, InitClears
  <2>7. QED
    BY <1>4, <2>2, <2>3, <2>4, <2>5, <2>6 DEF WorkerStep
<1>5. ASSUME NEW c \in Conns, WriterStep(c) \/ CloseStep(c) PROVE WritersIdle'
  <2>1. \/ UNCHANGED writer
        \/ /\ \A d \in Conns \ {c} : writer'[d] = writer[d]
           /\ writer'[c].pc # "free" =>
                \/ writer'[c].b = None
                \/ writer[c].pc # "free" /\ writer'[c].b = writer[c].b
    <3>1. CASE WriterFindsNull(c) \/ CloseOutput(c) \/ CloseRelocks(c) \/ CloseWait(c)
      BY <3>1 DEF WriterFindsNull, CloseOutput, CloseRelocks, CloseWait, Ends
    <3>6. CASE WriterWaits(c)
      BY <3>6 DEF WriterWaits, WriterAt, TypeOK, WriterOK
    <3>2. CASE WriterSkips(c) \/ WriterFails(c) \/ WriterFrees(c)
      <4>1. \A x : writer' = [writer EXCEPT ![c] = x] =>
              writer'[c] = x /\ \A d \in Conns \ {c} : writer'[d] = writer[d]
        BY DEF TypeOK, WriterOK
      <4>2. /\ \A d \in Conns \ {c} : writer'[d] = writer[d]
            /\ writer'[c].b = None
        BY <3>2, <4>1 DEF WriterSkips, WriterFrees, WriterFails, WriterIdle
      <4>3. QED
        BY <4>2
    <3>5. CASE WriterWrites(c)
      <4>1. writer' = [writer EXCEPT ![c] = [pc |-> "free", b |-> First(c)]]
        BY <3>5 DEF WriterWrites
      <4>2. QED
        BY <4>1 DEF TypeOK, WriterOK
    <3>3. CASE Drained(c) \/ Closed(c)
      BY <3>3 DEF Drained, Closed, WriterAt, TypeOK, WriterOK
    <3>4. QED
      BY <1>5, <3>1, <3>2, <3>3, <3>5, <3>6 DEF WriterStep, CloseStep
  <2>2. QED
    BY <2>1 DEF WritersIdle
<1>6. CASE UNCHANGED vars \/ MainReturns \/ Done
  BY <1>1, <1>6 DEF vars, MainReturns, Ends, Done
<1>7. QED
  BY <1>1, <1>2, <1>3, <1>4, <1>5, <1>6 DEF Next

LEMMA NextDecided == ASSUME TypeOK, DecidedOK, [Next]_vars PROVE DecidedOK'
<1>1. ASSUME UNCHANGED decided PROVE DecidedOK'
  BY <1>1 DEF DecidedOK
<1>2. ASSUME NEW c \in Conns, KernelMoves(c) \/ ReadsAnswer(c) PROVE UNCHANGED decided
  BY <1>2 DEF KernelMoves, ReadsReadyRequest, ReadsQuery, ReadsStrayAnswer, ReadFails, ReadsAnswer,
              Reads, history
<1>3. ASSUME NEW c \in Conns, ReaderStep(c) PROVE UNCHANGED decided
  BY <1>3 DEF ReaderStep, ReaderGets, ReadyRequest, ReadyAnswer, QueryInits, QueryRefused, InitRefused,
              QueryWaits, QueryDangles, QueryPasses, QueryQueued, ReaderChecks,
              UpdateAnswered, FetchFailed, FetchAnswered, FetchDone, AnswerUnexpected,
              ReaderFrees, ReaderFails, Ends, history
<1>4. ASSUME NEW w \in Workers, EventDecides(w) PROVE DecidedOK'
  <2>1. PICK b \in Buffers :
          IF buf[b].init
          THEN /\ buf' = [buf EXCEPT ![b].phase = 1000]
               /\ initDone' = initDone \cup {buf[b].comm}
               /\ UNCHANGED decided
          ELSE \E v \in Verdicts :
                 /\ buf' = [buf EXCEPT ![b] = [@ EXCEPT !.phase = 1000, !.verdict = v]]
                 /\ decided' = [decided EXCEPT ![buf[b].req] = v]
                 /\ UNCHANGED initDone
    BY <1>4, ZenonT(60) DEF EventDecides
  <2>2. CASE buf[b].init
    BY <1>1, <2>1, <2>2
  <2>3. CASE ~buf[b].init
    <3>1. PICK v \in Verdicts : decided' = [decided EXCEPT ![buf[b].req] = v]
      BY <2>1, <2>3, ZenonT(60)
    <3>2. QED
      BY <3>1 DEF DecidedOK
  <2>4. QED
    BY <2>2, <2>3
<1>5. ASSUME NEW w \in Workers, WorkerStep(w), ~EventDecides(w) PROVE UNCHANGED decided
  <2>1. CASE EventAsks(w)
    BY <2>1, Zenon DEF EventAsks
  <2>2. CASE AnswerUpdates(w)
    BY <2>2, Zenon DEF AnswerUpdates, history
  <2>3. CASE AnswerSends(w) \/ InitWakes(w)
    BY <2>3, Zenon DEF AnswerSends, InitWakes, history
  <2>4. CASE WorkerTakes(w) \/ Resizes(w) \/ WorkerFrees(w) \/ WorkerSends(w)
    BY <2>4 DEF WorkerTakes, Resizes, WorkerFrees, WorkerSends, history
  <2>5. CASE WorkerParks(w) \/ InitFrees(w) \/ InitClears(w)
    BY <2>5 DEF WorkerParks, InitFrees, InitClears, history
  <2>6. QED
    BY <1>5, <2>1, <2>2, <2>3, <2>4, <2>5 DEF WorkerStep
<1>6. ASSUME NEW c \in Conns, WriterStep(c) \/ CloseStep(c) PROVE UNCHANGED decided
  BY <1>6 DEF WriterStep, WriterWaits, WriterFindsNull, WriterSkips, WriterWrites, WriterFrees,
              WriterFails, CloseStep, CloseOutput, CloseRelocks, CloseWait, Drained, Closed,
              Ends, history
<1>7. CASE UNCHANGED vars \/ MainReturns \/ Done
  BY <1>1, <1>7 DEF vars, MainReturns, Ends, Done, history
<1>8. QED
  BY <1>1, <1>2, <1>3, <1>4, <1>5, <1>6, <1>7 DEF Next

-----------------------------------------------------------------------------
(* What holds of the threads while the kernels keep their connections.     *)
OrderlyInv ==
  /\ TypeOK /\ Own /\ BeginInv /\ Unbroken /\ OrderInv /\ DecidedOK /\ WritersIdle

LEMMA InitOrderly == Init => OrderlyInv
<1>1. Init => WritersIdle
  BY DEF Init, WritersIdle, WriterIdle
<1>2. Init => DecidedOK
  BY DEF Init, DecidedOK
<1>3. QED
  BY <1>1, <1>2, InitTypes, InitOwn, InitBegin, InitOrder DEF OrderlyInv

LEMMA NextOrderly == ASSUME Orderly, OrderlyInv, [Next]_vars PROVE OrderlyInv'
<1>1. TypeOK /\ Own /\ BeginInv /\ Unbroken /\ OrderInv /\ DecidedOK /\ WritersIdle
  BY DEF OrderlyInv
<1>2. TypeOK' /\ Own' /\ BeginInv' /\ Unbroken'
  BY <1>1, OwnKnown, NextTypes, NextOwn, NextBegin, NextUnbroken
<1>3. OrderInv' /\ WritersIdle' /\ DecidedOK'
  BY <1>1, NextOrder, NextWriters, NextDecided
<1>4. QED
  BY <1>2, <1>3 DEF OrderlyInv

(* A buffer that need not grow does not move, so init_buffer still names   *)
(* it when a query wants to wait on it.                                    *)
LEMMA NoneDangles ==
  ASSUME OrderInv, ~VarData, NEW c \in Conns PROVE ~QueryDangles(c)
<1> SUFFICES ASSUME QueryDangles(c) PROVE FALSE
  OBVIOUS
<1>1. /\ state_lock[c] \in {None, c} /\ conn[c].init_buffer # None
      /\ ~(buf[conn[c].init_buffer].init /\ buf[conn[c].init_buffer].comm = c)
  BY DEF QueryDangles, Dangles
<1>2. \E w \in Workers : state_lock[c] = w
  BY <1>1 DEF OrderInv, InitBuffers
<1>3. QED
  BY <1>1, <1>2, Others

LEMMA NextLives ==
  ASSUME Orderly, ~VarData, TypeOK, Unbroken, OrderInv, InitBufferLives, [Next]_vars
  PROVE  InitBufferLives'
<1>1. ASSUME status' # "dangling" PROVE InitBufferLives'
  BY <1>1 DEF InitBufferLives
<1>2. CASE UNCHANGED vars
  BY <1>2 DEF vars, InitBufferLives
<1>3. ASSUME UNCHANGED status PROVE InitBufferLives'
  BY <1>3 DEF InitBufferLives
<1>4. ASSUME NEW c \in Conns, KernelMoves(c) \/ ReadsAnswer(c) PROVE UNCHANGED status
  BY <1>4 DEF KernelMoves, ReadsReadyRequest, ReadsQuery, ReadsStrayAnswer, ReadFails, ReadsAnswer,
              Reads
<1>5. ASSUME NEW c \in Conns, ReaderStep(c) PROVE InitBufferLives'
  <2>1. ~QueryDangles(c)
    BY NoneDangles
  <2>2. CASE ReaderChecks(c) \/ AnswerUnexpected(c)
    BY <1>1, <1>3, <2>2 DEF ReaderChecks, AnswerUnexpected, Ends
  <2>3. CASE ~(ReaderChecks(c) \/ AnswerUnexpected(c))
    BY <1>3, <1>5, <2>1, <2>3
       DEF ReaderStep, ReaderGets, ReadyRequest, ReadyAnswer, QueryInits, QueryRefused, InitRefused,
           QueryWaits, QueryPasses, QueryQueued, UpdateAnswered, FetchFailed, FetchAnswered,
           FetchDone, ReaderFrees, ReaderFails
  <2>4. QED
    BY <2>2, <2>3
<1>6. ASSUME NEW c \in Conns, WriterStep(c) PROVE InitBufferLives'
  <2>1. CASE WriterFindsNull(c)
    BY <1>1, <2>1 DEF WriterFindsNull, Ends
  <2>2. CASE ~WriterFindsNull(c)
    BY <1>3, <1>6, <2>2
       DEF WriterStep, WriterWaits, WriterSkips, WriterWrites, WriterFrees, WriterFails
  <2>3. QED
    BY <2>1, <2>2
<1>7. ASSUME NEW w \in Workers, WorkerStep(w) PROVE UNCHANGED status
  <2>1. CASE EventAsks(w) \/ AnswerUpdates(w)
    BY <2>1, ZenonT(60) DEF EventAsks, AnswerUpdates, Asks
  <2>2. CASE EventDecides(w)
    BY <2>2, Zenon DEF EventDecides
  <2>3. CASE AnswerSends(w) \/ InitWakes(w)
    BY <2>3, Zenon DEF AnswerSends, InitWakes
  <2>4. CASE ~(EventAsks(w) \/ AnswerUpdates(w) \/ EventDecides(w) \/ AnswerSends(w) \/ InitWakes(w))
    BY <1>7, <2>4 DEF WorkerStep, WorkerTakes, Resizes, WorkerFrees, WorkerSends, WorkerParks,
                      InitFrees, InitClears
  <2>5. QED
    BY <2>1, <2>2, <2>3, <2>4
<1>8. ~MainReturns /\ \A c \in Conns : ~CloseStep(c)
  BY CommAssumption, NoneCloses
<1>9. \A c \in Conns : KernelMoves(c) \/ ReadsAnswer(c) \/ ReaderStep(c) \/ WriterStep(c)
        => InitBufferLives'
  BY <1>3, <1>4, <1>5, <1>6
<1>10. \A w \in Workers : WorkerStep(w) => InitBufferLives'
  BY <1>3, <1>7
<1>11. QED
  BY <1>2, <1>8, <1>9, <1>10 DEF Next, Done

(* In that case, too, a query that came before _init() finished waits on a *)
(* buffer that exists (comm.h, init_buffer): mcp_r_query() never follows a *)
(* pointer to memory that was given back, although InitFrees frees the     *)
(* buffer before InitClears clears the pointer.                            *)
THEOREM InitBufferStands ==
  Orderly /\ ~VarData => (Spec => []InitBufferLives)
<1> SUFFICES ASSUME Orderly, ~VarData PROVE Spec => []InitBufferLives
  OBVIOUS
<1>1. OrderlyInv /\ InitBufferLives /\ [Next]_vars => OrderlyInv' /\ InitBufferLives'
  BY NextOrderly, NextLives DEF OrderlyInv
<1>2. Init => InitBufferLives
  BY DEF Init, InitBufferLives
<1>3. QED
  BY <1>1, <1>2, InitOrderly, PTL DEF Spec

-----------------------------------------------------------------------------
(* No buffer is lost.                                                      *)

(* The buffers that are free.                                              *)
Pooled(m) == Items(m.slot0) \cup Items(m.slot1) \cup m.heap

Has == {"got", "free", "initfree"}

(* Buffer b is somewhere.                                                  *)
Placed(b) ==
  \/ b \in Items(todo) \/ b \in Pooled(mem)
  \/ \E c \in Conns : b \in Items(output[c]) \cup Items(wait[c])
  \/ \E a \in Buffers : b \in Items(buf[a].to_wake)
  \/ \E c \in Conns : \/ reader[c].b = b /\ reader[c].pc \in Owning
                      \/ reader[c].p = b \/ writer[c].b = b
  \/ \E w \in Workers : (worker[w].b = b /\ worker[w].pc \in Has) \/ worker[w].r = b

(* No buffer is lost, and a worker keeps no operation it has queued.       *)
PlaceInv ==
  /\ \A b \in Buffers : Placed(b)
  /\ \A w \in Workers : worker[w].pc # "send" => worker[w].r = None

(* What is not in S stays where it is.                                     *)
Rests(S) ==
  /\ Items(todo) \ S \subseteq Items(todo')
  /\ Pooled(mem) \ S \subseteq Pooled(mem')
  /\ \A c \in Conns : /\ Items(output[c]) \ S \subseteq Items(output'[c])
                      /\ Items(wait[c]) \ S \subseteq Items(wait'[c])
  /\ \A a \in Buffers : Items(buf[a].to_wake) \ S \subseteq Items(buf'[a].to_wake)
  /\ \A c \in Conns :
       /\ reader[c].pc \in Owning /\ reader[c].b \notin S =>
            reader'[c].pc \in Owning /\ reader'[c].b = reader[c].b
       /\ reader[c].p \in Buffers \ S => reader'[c].p = reader[c].p
       /\ writer[c].b \in Buffers \ S => writer'[c].b = writer[c].b
  /\ \A w \in Workers :
       /\ worker[w].pc \in Has /\ worker[w].b \notin S =>
            worker'[w].pc \in Has /\ worker'[w].b = worker[w].b
       /\ worker[w].r \in Buffers \ S => worker'[w].r = worker[w].r

LEMMA RestsPlaced ==
  ASSUME PlaceInv, NEW S, Rests(S), \A b \in S : Placed(b)',
         \A w \in Workers : worker'[w].pc # "send" => worker'[w].r = None
  PROVE  PlaceInv'
<1>1. ASSUME NEW b \in Buffers, b \notin S PROVE Placed(b)'
  <2>1. CASE b \in Items(todo) \/ b \in Pooled(mem)
    BY <1>1, <2>1 DEF Rests, Placed
  <2>2. CASE \E c \in Conns : b \in Items(output[c]) \cup Items(wait[c])
    BY <1>1, <2>2 DEF Rests, Placed
  <2>3. CASE \E a \in Buffers : b \in Items(buf[a].to_wake)
    BY <1>1, <2>3 DEF Rests, Placed
  <2>4. CASE \E c \in Conns : reader[c].b = b /\ reader[c].pc \in Owning
    BY <1>1, <2>4 DEF Rests, Placed
  <2>5. CASE \E c \in Conns : reader[c].p = b \/ writer[c].b = b
    BY <1>1, <2>5 DEF Rests, Placed
  <2>6. CASE \E w \in Workers : worker[w].b = b /\ worker[w].pc \in Has
    BY <1>1, <2>6 DEF Rests, Placed
  <2>7. CASE \E w \in Workers : worker[w].r = b
    BY <1>1, <2>7 DEF Rests, Placed
  <2>8. QED
    BY <2>1, <2>2, <2>3, <2>4, <2>5, <2>6, <2>7 DEF PlaceInv, Placed
<1>2. QED
  BY <1>1 DEF PlaceInv

(* comm_buf_get() and the lists that comm_buf_free() gives buffers back to.*)
LEMMA PooledTaken ==
  ASSUME NEW m \in Memory, Available(m), NEW f, f = Fresh(m)
  PROVE  Pooled(m) \ {f} \subseteq Pooled(Taken(m))
<1>0. m.slot0 \in Seq(Buffers) /\ m.slot1 \in Seq(Buffers)
  BY DEF Memory
<1>1. \A q \in Seq(Buffers) : q # <<>> => Items(q) \ {Head(q)} \subseteq Items(Tail(q))
  <2>1. ASSUME NEW q \in Seq(Buffers), q # <<>>, NEW i \in DOMAIN q, q[i] # Head(q)
        PROVE  q[i] \in Items(Tail(q))
    <3>1. /\ DOMAIN q = 1..Len(q) /\ Len(q) \in Nat /\ i # 1
          /\ DOMAIN Tail(q) = 1..(Len(q) - 1)
          /\ \A j \in 1..(Len(q) - 1) : Tail(q)[j] = q[j + 1]
      BY <2>1, LenProperties, HeadTailProperties
    <3>2. i - 1 \in 1..(Len(q) - 1) /\ (i - 1) + 1 = i
      BY <3>1
    <3>3. Tail(q)[i - 1] = q[i] /\ i - 1 \in DOMAIN Tail(q)
      BY <3>1, <3>2
    <3>4. QED
      BY <3>3 DEF Items
  <2>2. QED
    BY <2>1 DEF Items
<1>2. CASE m.slot0 # <<>>
  <2>1. /\ f = Head(m.slot0) /\ Taken(m).slot0 = Tail(m.slot0)
        /\ Taken(m).slot1 = m.slot1 /\ Taken(m).heap = m.heap
    BY <1>2 DEF Fresh, Taken, Memory
  <2>2. QED
    BY <1>0, <1>1, <1>2, <2>1 DEF Pooled
<1>3. CASE m.slot0 = <<>> /\ m.slot1 # <<>>
  <2>1. /\ f = Head(m.slot1) /\ Taken(m).slot0 = m.slot0
        /\ Taken(m).slot1 = Tail(m.slot1) /\ Taken(m).heap = m.heap
    BY <1>3 DEF Fresh, Taken, Memory
  <2>2. QED
    BY <1>0, <1>1, <1>3, <2>1 DEF Pooled
<1>4. CASE m.slot0 = <<>> /\ m.slot1 = <<>>
  <2>1. /\ Taken(m).slot0 = m.slot0 /\ Taken(m).slot1 = m.slot1
        /\ Taken(m).heap = m.heap \ {f}
    BY <1>4 DEF Fresh, Taken, Memory
  <2>2. QED
    BY <2>1 DEF Pooled
<1>5. QED
  BY <1>2, <1>3, <1>4

LEMMA PooledPut ==
  ASSUME NEW m \in Memory, NEW b \in Buffers
  PROVE  Pooled(m) \cup {b} \subseteq Pooled(Put(m, b))
<1>0. m.slot0 \in Seq(Buffers) /\ m.slot1 \in Seq(Buffers)
  BY DEF Memory
<1> DEFINE s0 == <<b>> \o m.slot0
           s1 == <<b>> \o m.slot1
<1>1. Items(s0) = Items(m.slot0) \cup {b} /\ Items(s1) = Items(m.slot1) \cup {b}
  BY <1>0, PushItems
<1>2. CASE b \in Pool0
  <2>1. Put(m, b).slot0 = s0 /\ Put(m, b).slot1 = m.slot1 /\ Put(m, b).heap = m.heap
    BY <1>2 DEF Put, Memory
  <2> HIDE DEF s0, s1
  <2>2. QED
    BY <1>1, <2>1 DEF Pooled
<1>3. CASE b \notin Pool0 /\ b \in Pool1
  <2>1. Put(m, b).slot0 = m.slot0 /\ Put(m, b).slot1 = s1 /\ Put(m, b).heap = m.heap
    BY <1>3 DEF Put, Memory
  <2> HIDE DEF s0, s1
  <2>2. QED
    BY <1>1, <2>1 DEF Pooled
<1>4. CASE b \notin Pool0 /\ b \notin Pool1
  <2>1. /\ Put(m, b).slot0 = m.slot0 /\ Put(m, b).slot1 = m.slot1
        /\ Put(m, b).heap = m.heap \cup {b}
    BY <1>4 DEF Put, Memory
  <2>2. QED
    BY <2>1 DEF Pooled
<1>5. QED
  BY <1>2, <1>3, <1>4

(* A freed buffer is free, what waits in it is on todo, and the buffer of  *)
(* READY_ANSWER is queued.                                                 *)
LEMMA FreePlaces ==
  ASSUME TypeOK, NEW b \in Buffers, NEW bufs \in [Buffers -> Contents],
         NEW m \in Memory, NEW out \in Queues, Free(b, bufs, m, out),
         NEW r, r = Fresh(m), SendsReady(b) => bufs[r].to_wake = <<>>,
         bufs[b].comm = buf[b].comm
  PROVE  /\ Items(todo) \cup Items(bufs[b].to_wake) \subseteq Items(todo')
         /\ b \in Pooled(mem')
         /\ \A a \in Pooled(m) : a \in Pooled(mem') \/ (a = r /\ SendsReady(b))
         /\ \A c \in Conns : Items(out[c]) \subseteq Items(output'[c])
         /\ SendsReady(b) => \E c \in Conns : r \in Items(output'[c])
         /\ \A a \in Buffers : \/ Items(bufs[a].to_wake) \subseteq Items(buf'[a].to_wake)
                               \/ a = b
<1>1. /\ todo' = todo \o bufs[b].to_wake
      /\ IF SendsReady(b)
         THEN /\ Available(m)
              /\ mem' = Put(Taken(m), b)
              /\ buf' = [bufs EXCEPT ![b] = Blank,
                           ![r] = Outgoing(bufs[b].comm, [kind |-> "ready"])]
              /\ output' = [out EXCEPT ![bufs[b].comm] = comm_buf_to_queue(@, r)]
         ELSE /\ mem' = Put(m, b)
              /\ buf' = [bufs EXCEPT ![b] = Blank]
              /\ output' = out
  BY DEF Free
<1>2. Items(todo') = Items(todo) \cup Items(bufs[b].to_wake)
  <2>1. todo \in Seq(Buffers) /\ bufs[b].to_wake \in Seq(Buffers)
    BY DEF TypeOK, TodoOK, Contents
  <2>2. QED
    BY <1>1, <2>1, ConcatItems
<1>3. CASE SendsReady(b)
  <2>1. PICK c, o : c = bufs[b].comm /\ o = Outgoing(c, [kind |-> "ready"])
    OBVIOUS
  <2>2. /\ Available(m) /\ mem' = Put(Taken(m), b)
        /\ buf' = [bufs EXCEPT ![b] = Blank, ![r] = o]
        /\ output' = [out EXCEPT ![c] = comm_buf_to_queue(@, r)]
    BY <1>1, <1>3, <2>1
  <2>3. c \in Conns
    BY <1>3, <2>1 DEF SendsReady, TypeOK, BufOK, Contents
  <2>4. r \in Buffers /\ Taken(m) \in Memory
    BY <2>2, TakenOK
  <2>5. Pooled(m) \ {r} \subseteq Pooled(Taken(m)) /\ Pooled(Taken(m)) \cup {b} \subseteq Pooled(mem')
    BY <2>2, <2>4, PooledTaken, PooledPut
  <2>6. /\ Items(output'[c]) = Items(out[c]) \cup {r}
        /\ \A d \in Conns \ {c} : output'[d] = out[d]
    BY <2>2, <2>3, <2>4, AppendItems DEF Queues, comm_buf_to_queue
  <2>7. \A a \in Buffers \ {b, r} : buf'[a] = bufs[a]
    BY <2>2
  <2>8. bufs[r].to_wake = <<>>
    BY <1>3
  <2>9. \A a \in Buffers : Items(bufs[a].to_wake) \subseteq Items(buf'[a].to_wake) \/ a = b
    BY <2>7, <2>8, EmptyItems
  <2>10. QED
    BY <1>2, <1>3, <2>3, <2>5, <2>6, <2>9
<1>4. CASE ~SendsReady(b)
  <2>1. mem' = Put(m, b) /\ buf' = [bufs EXCEPT ![b] = Blank] /\ output' = out
    BY <1>1, <1>4
  <2>2. Pooled(m) \cup {b} \subseteq Pooled(mem')
    BY <2>1, PooledPut
  <2>3. \A a \in Buffers \ {b} : buf'[a] = bufs[a]
    BY <2>1
  <2>4. QED
    BY <1>2, <1>4, <2>1, <2>2, <2>3
<1>5. QED
  BY <1>3, <1>4

-----------------------------------------------------------------------------
(* Step by step.                                                           *)

LEMMA EndsPlaces ==
  ASSUME PlaceInv, NEW how, Ends(how) \/ UNCHANGED vars PROVE PlaceInv'
<1>1. UNCHANGED <<buf, mem, todo, output, wait, reader, worker, writer>>
  BY DEF Ends, shared, vars
<1>2. \A b : Placed(b)' = Placed(b)
  BY <1>1 DEF Placed
<1>3. QED
  BY <1>1, <1>2 DEF PlaceInv

(* A reader goes on with the buffer it has.                                *)
LEMMA ReaderKeepsPlaces ==
  ASSUME TypeOK, PlaceInv, NEW c \in Conns,
         UNCHANGED <<mem, todo, output, wait, worker, writer>>,
         \A a \in Buffers : Items(buf[a].to_wake) \subseteq Items(buf'[a].to_wake),
         reader'[c].pc \in Owning, reader'[c].b = reader[c].b,
         \/ reader[c].p \notin Buffers \/ reader'[c].p = reader[c].p,
         \A d \in Conns \ {c} : reader'[d] = reader[d]
  PROVE  PlaceInv'
<1>1. PICK S : S = {}
  OBVIOUS
<1>2. Rests(S)
  BY <1>1 DEF Rests
<1>3. QED
  BY <1>1, <1>2, RestsPlaced DEF PlaceInv

LEMMA KernelPlaces ==
  ASSUME TypeOK, Orderly, Unbroken, PlaceInv, NEW c \in Conns, KernelMoves(c) \/ ReadsAnswer(c)
  PROVE  PlaceInv'
<1>1. ~ReadFails(c)
  BY NoneCloses
<1>2. PICK pc \in {"ready", "query", "answer"} : \E m : Reads(c, pc, m)
  BY <1>1 DEF KernelMoves, ReadsReadyRequest, ReadsQuery, ReadsStrayAnswer, ReadsAnswer
<1>3. PICK m : Reads(c, pc, m)
  BY <1>2
<1>4. /\ reader' = [reader EXCEPT ![c].pc = pc, ![c].msg = m]
      /\ UNCHANGED <<buf, mem, todo, output, wait, worker, writer>>
  BY <1>3 DEF Reads, shared
<1>5. reader'[c].pc = pc /\ reader'[c].b = reader[c].b /\ reader'[c].p = reader[c].p
      /\ \A d \in Conns \ {c} : reader'[d] = reader[d]
  BY <1>4 DEF TypeOK, ReaderOK, Readers
<1>6. pc \in Owning
  BY DEF Owning
<1>7. QED
  BY <1>4, <1>5, <1>6, ReaderKeepsPlaces

(* The next buffer had nothing waiting in it.                              *)
LEMMA FreshEmpty ==
  ASSUME OrderInv, NEW f \in Buffers, ~Busy(f) PROVE buf[f].to_wake = <<>>
BY DEF OrderInv, Inits

LEMMA ReaderGetsPlaces ==
  ASSUME TypeOK, Own, OrderInv, PlaceInv, NEW c \in Conns, ReaderGets(c) PROVE PlaceInv'
<1>1. PICK f, x : f = Fresh(mem) /\ x = For(c)
  OBVIOUS
<1>2. /\ Available(mem) /\ mem' = Taken(mem) /\ buf' = [buf EXCEPT ![f] = x]
      /\ reader' = [reader EXCEPT ![c].pc = "recv", ![c].b = f] /\ reader[c].pc = "get"
      /\ UNCHANGED <<todo, output, wait, worker, writer>>
  BY <1>1 DEF ReaderGets, ReaderAt
<1>3. f \in Buffers /\ buf[f].to_wake = <<>>
  BY <1>1, <1>2, FreshFits, FreshEmpty
<1>4. \A a \in Buffers : Items(buf[a].to_wake) \subseteq Items(buf'[a].to_wake)
  BY <1>2, <1>3, EmptyItems DEF TypeOK, BufOK
<1>5. /\ reader'[c].pc = "recv" /\ reader'[c].b = f /\ reader'[c].p = reader[c].p
      /\ \A d \in Conns \ {c} : reader'[d] = reader[d]
  BY <1>2 DEF TypeOK, ReaderOK, Readers
<1>6. "recv" \in Owning /\ "get" \notin Owning
  BY DEF Owning
<1>7. Pooled(mem) \ {f} \subseteq Pooled(mem')
  BY <1>1, <1>2, PooledTaken DEF TypeOK, MemOK
<1>8. Rests({f})
  BY <1>2, <1>4, <1>5, <1>6, <1>7 DEF Rests
<1>9. Placed(f)'
  BY <1>5, <1>6 DEF Placed
<1>10. QED
  BY <1>2, <1>8, <1>9, RestsPlaced DEF PlaceInv

LEMMA ReadyAnswerPlaces ==
  ASSUME TypeOK, Own, OrderInv, PlaceInv, NEW c \in Conns, ReadyAnswer(c) PROVE PlaceInv'
<1>1. PICK f, x : f = Fresh(mem) /\ x = Outgoing(c, [kind |-> "ready"])
  OBVIOUS
<1>2. /\ Available(mem) /\ mem' = Taken(mem) /\ buf' = [buf EXCEPT ![f] = x]
      /\ output' = [output EXCEPT ![c] = comm_buf_to_queue(@, f)]
      /\ reader' = [reader EXCEPT ![c].pc = "free"]
      /\ UNCHANGED <<todo, wait, worker, writer>>
  BY <1>1 DEF ReadyAnswer
<1>3. f \in Buffers /\ buf[f].to_wake = <<>>
  BY <1>1, <1>2, FreshFits, FreshEmpty
<1>4. \A a \in Buffers : Items(buf[a].to_wake) \subseteq Items(buf'[a].to_wake)
  BY <1>2, <1>3, EmptyItems DEF TypeOK, BufOK
<1>5. /\ reader'[c].pc = "free" /\ reader'[c].b = reader[c].b /\ reader'[c].p = reader[c].p
      /\ \A d \in Conns \ {c} : reader'[d] = reader[d]
  BY <1>2 DEF TypeOK, ReaderOK, Readers
<1>6. "free" \in Owning
  BY DEF Owning
<1>7. Pooled(mem) \ {f} \subseteq Pooled(mem')
  BY <1>1, <1>2, PooledTaken DEF TypeOK, MemOK
<1>8. /\ Items(output'[c]) = Items(output[c]) \cup {f}
      /\ \A d \in Conns \ {c} : output'[d] = output[d]
  BY <1>2, <1>3, AppendItems DEF TypeOK, OutputOK, Queues, comm_buf_to_queue
<1>9. Rests({f})
  BY <1>2, <1>4, <1>5, <1>6, <1>7, <1>8 DEF Rests
<1>10. Placed(f)'
  BY <1>8 DEF Placed
<1>11. QED
  BY <1>2, <1>9, <1>10, RestsPlaced DEF PlaceInv

LEMMA ConnInitPlaces ==
  ASSUME TypeOK, Own, OrderInv, PlaceInv, NEW c \in Conns, ReadyRequest(c) \/ QueryInits(c)
  PROVE  PlaceInv'
<1>1. ConnInit(c, buf) /\ UNCHANGED <<output, wait, worker, writer>>
  BY DEF ReadyRequest, QueryInits
<1>2. /\ \A d \in Conns \ {c} : reader'[d] = reader[d]
      /\ reader'[c].pc \in Owning /\ reader'[c].b = reader[c].b /\ reader'[c].p = reader[c].p
  <2>1. CASE ReadyRequest(c)
    <3>1. PICK pc : pc = IF conn[c].function_init THEN "free" ELSE "readyanswer"
      OBVIOUS
    <3>2. reader' = [reader EXCEPT ![c].pc = pc] /\ pc \in Owning
      BY <2>1, <3>1 DEF ReadyRequest, Owning
    <3>3. QED
      BY <3>2 DEF TypeOK, ReaderOK, Readers
  <2>2. CASE QueryInits(c)
    BY <2>2 DEF QueryInits, ReaderAt, Owning
  <2>3. QED
    BY <2>1, <2>2
<1>3. CASE ~conn[c].function_init
  <2>1. UNCHANGED <<buf, mem, todo>>
    BY <1>1, <1>3 DEF ConnInit
  <2>2. QED
    BY <1>1, <1>2, <2>1, ReaderKeepsPlaces
<1>4. CASE conn[c].function_init
  <2>1. PICK f, x : f = Fresh(mem) /\ x = InitBuffer(c, f)
    OBVIOUS
  <2>2. /\ Available(mem) /\ mem' = Taken(mem) /\ buf' = [buf EXCEPT ![f] = x]
        /\ todo' = comm_buf_to_queue(todo, f)
    BY <1>1, <1>4, <2>1 DEF ConnInit
  <2>3. f \in Buffers /\ buf[f].to_wake = <<>>
    BY <2>1, <2>2, FreshFits, FreshEmpty
  <2>4. \A a \in Buffers : Items(buf[a].to_wake) \subseteq Items(buf'[a].to_wake)
    BY <2>2, <2>3, EmptyItems DEF TypeOK, BufOK
  <2>5. Pooled(mem) \ {f} \subseteq Pooled(mem')
    BY <2>1, <2>2, PooledTaken DEF TypeOK, MemOK
  <2>6. Items(todo') = Items(todo) \cup {f}
    BY <2>2, <2>3, ToTodoItems
  <2>7. Rests({f})
    BY <1>1, <1>2, <2>4, <2>5, <2>6 DEF Rests
  <2>8. Placed(f)'
    BY <2>6 DEF Placed
  <2>9. QED
    BY <1>1, <2>7, <2>8, RestsPlaced DEF PlaceInv
<1>5. QED
  BY <1>3, <1>4

(* A query is queued, or waits for _init().                                *)
LEMMA QueryPlaces ==
  ASSUME TypeOK, Own, PlaceInv, NEW c \in Conns,
         QueryPasses(c) \/ QueryWaits(c) \/ QueryQueued(c)
  PROVE  PlaceInv'
<1>0. PICK b, q : b = reader[c].b /\ q = reader[c].msg
  OBVIOUS
<1>1. CASE QueryPasses(c)
  <2>1. /\ buf' = [buf EXCEPT ![b].req = q] /\ reader' = [reader EXCEPT ![c].pc = "todo"]
        /\ UNCHANGED <<mem, todo, output, wait, worker, writer>>
    BY <1>0, <1>1 DEF QueryPasses
  <2>2. "todo" \in Owning
    BY DEF Owning
  <2>3. \A a \in Buffers : buf'[a].to_wake = buf[a].to_wake
    BY <2>1 DEF TypeOK, BufOK, Contents
  <2>4. /\ reader'[c].pc = "todo" /\ reader'[c].b = b /\ reader'[c].p = reader[c].p
        /\ \A d \in Conns \ {c} : reader'[d] = reader[d]
    BY <1>0, <2>1 DEF TypeOK, ReaderOK, Readers
  <2>5. QED
    BY <1>0, <2>1, <2>2, <2>3, <2>4, ReaderKeepsPlaces
<1>2. CASE QueryWaits(c) \/ QueryQueued(c)
  <2>1. /\ reader' = [reader EXCEPT ![c].pc = "check"]
        /\ reader[c].pc \in Owning
        /\ UNCHANGED <<mem, output, wait, worker, writer>>
    BY <1>2 DEF QueryWaits, QueryQueued, ReaderAt, Owning
  <2>2. /\ reader'[c].b = b /\ reader'[c].p = reader[c].p
        /\ \A d \in Conns \ {c} : reader'[d] = reader[d]
    BY <1>0, <2>1 DEF TypeOK, ReaderOK, Readers
  <2>3. b \in Buffers
    BY <1>0, <2>1 DEF TypeOK, ReaderOK
  <2>4. /\ Items(todo) \subseteq Items(todo')
        /\ \A a \in Buffers : Items(buf[a].to_wake) \subseteq Items(buf'[a].to_wake)
        /\ b \in Items(todo') \/ \E a \in Buffers : b \in Items(buf'[a].to_wake)
    <3>1. CASE QueryQueued(c)
      BY <1>0, <2>3, <3>1, ToTodoItems DEF QueryQueued
    <3>2. CASE QueryWaits(c)
      <4>1. PICK i : i = conn[c].init_buffer
        OBVIOUS
      <4>2. /\ buf' = [buf EXCEPT ![b].req = q, ![i].to_wake = comm_buf_to_queue(@, b)]
            /\ UNCHANGED todo /\ i # None
        BY <1>0, <3>2, <4>1 DEF QueryWaits
      <4>3. i \in Buffers
        BY <4>1, <4>2 DEF TypeOK, ConnOK, Connections
      <4>4. \A a \in Buffers : /\ buf[a] \in Contents /\ buf[a].to_wake \in Seq(Buffers)
        BY DEF TypeOK, BufOK, Contents
      <4>5. \A a \in Buffers : buf'[a].to_wake =
              IF a = i THEN comm_buf_to_queue(buf[a].to_wake, b) ELSE buf[a].to_wake
        BY <2>3, <4>2, <4>3, <4>4 DEF TypeOK, BufOK, Contents
      <4>6. Items(buf'[i].to_wake) = Items(buf[i].to_wake) \cup {b}
        BY <2>3, <4>3, <4>4, <4>5, AppendItems DEF comm_buf_to_queue
      <4>7. QED
        BY <4>2, <4>3, <4>5, <4>6
    <3>3. QED
      BY <1>2, <3>1, <3>2
  <2>5. Rests({b})
    BY <1>0, <2>1, <2>2, <2>4 DEF Rests
  <2>6. Placed(b)'
    BY <2>4 DEF Placed
  <2>7. QED
    BY <2>1, <2>5, <2>6, RestsPlaced DEF PlaceInv
<1>3. QED
  BY <1>1, <1>2

LEMMA ReaderChecksPlaces ==
  ASSUME TypeOK, Unbroken, PlaceInv, NEW c \in Conns, ReaderChecks(c) PROVE PlaceInv'
<1>1. CASE Ends("undefined")
  BY <1>1, EndsPlaces
<1>2. CASE ~Ends("undefined")
  <2>1. /\ reader' = [reader EXCEPT ![c] = ReaderIdle] /\ reader[c].pc = "check"
        /\ UNCHANGED <<shared, worker, writer>>
    BY <1>2 DEF ReaderChecks, ReaderAt
  <2>2. \A d \in Conns \ {c} : reader'[d] = reader[d]
    BY <2>1 DEF TypeOK, ReaderOK
  <2>3. reader[c].p = None /\ "check" \notin Owning /\ None \notin Buffers
    BY <2>1, Others DEF Unbroken, Owning
  <2>4. PICK S : S = {}
    OBVIOUS
  <2>5. Rests(S)
    BY <2>1, <2>2, <2>3, <2>4 DEF Rests, shared
  <2>6. QED
    BY <2>1, <2>4, <2>5, RestsPlaced DEF PlaceInv
<1>3. QED
  BY <1>1, <1>2

(* An answer puts the buffer that waited back on todo.                     *)
LEMMA WakePlaces ==
  ASSUME TypeOK, PlaceInv, NEW c \in Conns, NEW p \in Buffers,
         UNCHANGED <<mem, output, worker, writer>>,
         \A a \in Buffers : buf'[a].to_wake = buf[a].to_wake,
         Items(todo) \subseteq Items(todo'),
         \A d \in Conns : Items(wait[d]) \ {p} \subseteq Items(wait'[d]),
         \A d \in Conns \ {c} : reader'[d] = reader[d],
         reader'[c].pc \in Owning, reader'[c].b = reader[c].b,
         reader[c].p \notin Buffers \ {p} \/ reader'[c].p = reader[c].p,
         p \in Items(todo') \/ reader'[c].p = p
  PROVE  PlaceInv'
<1>1. Rests({p})
  BY DEF Rests
<1>2. Placed(p)'
  BY DEF Placed
<1>3. QED
  BY <1>1, <1>2, RestsPlaced DEF PlaceInv

LEMMA WokenKeeps ==
  ASSUME TypeOK, NEW p \in Buffers, NEW out, Wake(p, out)
  PROVE  /\ \A a \in Buffers : buf'[a].to_wake = buf[a].to_wake
         /\ Items(todo') = Items(todo) \cup {p}
<1> DEFINE x == [buf[p] EXCEPT !.user_data = out, !.waiting = [@ EXCEPT !.to = None]]
<1>1. buf' = [buf EXCEPT ![p] = x]
  BY DEF Wake
<1>2. x.to_wake = buf[p].to_wake
  BY DEF TypeOK, BufOK, Contents
<1> HIDE DEF x
<1>3. \A a \in Buffers : buf'[a].to_wake = buf[a].to_wake
  BY <1>1, <1>2 DEF TypeOK, BufOK
<1>4. QED
  BY <1>3, ToTodoItems DEF Wake

LEMMA ReaderAnswersPlaces ==
  ASSUME TypeOK, Own, Unbroken, PlaceInv, NEW c \in Conns,
         UpdateAnswered(c) \/ FetchFailed(c) \/ FetchAnswered(c) \/ FetchDone(c)
  PROVE  PlaceInv'
<1>0. PICK op, p : op = reader[c].msg.op /\ p = Waiter(c, op)
  OBVIOUS
<1>1. "free" \in Owning /\ "body" \in Owning
  BY DEF Owning
<1>2. CASE UpdateAnswered(c)
  <2>1. /\ Waiters(c, op) # {} /\ NoLongerWaits(c, op) /\ Wake(p, reader[c].msg.outcome)
        /\ reader' = [reader EXCEPT ![c].pc = "free"] /\ UNCHANGED <<mem, output, worker, writer>>
    BY <1>0, <1>2 DEF UpdateAnswered
  <2>2. p \in Buffers /\ \A d \in Conns : Items(wait[d]) \ {p} \subseteq Items(wait'[d])
    BY <1>0, <2>1, LeavesWait
  <2>3. /\ \A a \in Buffers : buf'[a].to_wake = buf[a].to_wake
        /\ Items(todo') = Items(todo) \cup {p}
    BY <2>1, <2>2, WokenKeeps
  <2>4. /\ reader'[c].pc = "free" /\ reader'[c].b = reader[c].b /\ reader'[c].p = reader[c].p
        /\ \A d \in Conns \ {c} : reader'[d] = reader[d]
    BY <2>1 DEF TypeOK, ReaderOK, Readers
  <2>5. QED
    BY <1>1, <2>1, <2>2, <2>3, <2>4, WakePlaces
<1>3. CASE FetchFailed(c)
  <2>1. /\ reader' = [reader EXCEPT ![c].pc = "free"]
        /\ UNCHANGED <<buf, mem, output, worker, writer>>
        /\ IF Waiters(c, op) # {}
           THEN NoLongerWaits(c, op) /\ todo' = comm_buf_to_queue(todo, p)
           ELSE UNCHANGED <<wait, todo>>
    BY <1>0, <1>3 DEF FetchFailed
  <2>2. /\ reader'[c].pc = "free" /\ reader'[c].b = reader[c].b /\ reader'[c].p = reader[c].p
        /\ \A d \in Conns \ {c} : reader'[d] = reader[d]
    BY <2>1 DEF TypeOK, ReaderOK, Readers
  <2>3. CASE Waiters(c, op) # {}
    <3>1. p \in Buffers /\ \A d \in Conns : Items(wait[d]) \ {p} \subseteq Items(wait'[d])
      BY <1>0, <2>1, <2>3, LeavesWait
    <3>2. Items(todo') = Items(todo) \cup {p}
      BY <2>1, <2>3, <3>1, ToTodoItems
    <3>3. QED
      BY <1>1, <2>1, <2>2, <3>1, <3>2, WakePlaces
  <2>4. CASE Waiters(c, op) = {}
    BY <1>1, <2>1, <2>2, <2>4, ReaderKeepsPlaces
  <2>5. QED
    BY <2>3, <2>4
<1>4. CASE FetchAnswered(c)
  <2>1. /\ Waiters(c, op) # {} /\ NoLongerWaits(c, op) /\ reader[c].pc = "answer"
        /\ reader' = [reader EXCEPT ![c].pc = "body", ![c].p = p]
        /\ UNCHANGED <<buf, todo, mem, output, worker, writer>>
    BY <1>0, <1>4 DEF FetchAnswered, AnswerRead, ReaderAt
  <2>2. p \in Buffers /\ \A d \in Conns : Items(wait[d]) \ {p} \subseteq Items(wait'[d])
    BY <1>0, <2>1, LeavesWait
  <2>3. /\ reader'[c].pc = "body" /\ reader'[c].b = reader[c].b /\ reader'[c].p = p
        /\ \A d \in Conns \ {c} : reader'[d] = reader[d]
    BY <2>1 DEF TypeOK, ReaderOK, Readers
  <2>4. reader[c].p \notin Buffers
    BY <2>1, Others DEF Unbroken
  <2>5. QED
    BY <1>1, <2>1, <2>2, <2>3, <2>4, WakePlaces
<1>5. CASE FetchDone(c)
  <2>1. PICK a : a = reader[c].p
    OBVIOUS
  <2>2. /\ Wake(a, "ok") /\ reader' = [reader EXCEPT ![c].pc = "free", ![c].p = None]
        /\ reader[c].pc = "body" /\ UNCHANGED <<mem, wait, output, worker, writer>>
    BY <1>5, <2>1 DEF FetchDone, ReaderAt
  <2>3. a \in Buffers
    BY <2>1, <2>2 DEF TypeOK, ReaderOK
  <2>4. /\ \A e \in Buffers : buf'[e].to_wake = buf[e].to_wake
        /\ Items(todo') = Items(todo) \cup {a}
    BY <2>2, <2>3, WokenKeeps
  <2>5. /\ reader'[c].pc = "free" /\ reader'[c].b = reader[c].b
        /\ \A d \in Conns \ {c} : reader'[d] = reader[d]
    BY <2>2 DEF TypeOK, ReaderOK, Readers
  <2>6. QED
    BY <1>1, <2>1, <2>2, <2>3, <2>4, <2>5, WakePlaces
<1>6. QED
  BY <1>2, <1>3, <1>4, <1>5

(* ... where nothing was changed before.                                   *)
LEMMA FreedNow ==
  ASSUME TypeOK, Own, OrderInv, NEW b \in Buffers, NEW out \in Queues,
         Free(b, buf, mem, out), NEW r, r = Fresh(mem)
  PROVE  /\ Items(todo) \cup Items(buf[b].to_wake) \subseteq Items(todo')
         /\ b \in Pooled(mem')
         /\ \A a \in Pooled(mem) : a \in Pooled(mem') \/ (a = r /\ SendsReady(b))
         /\ \A c \in Conns : Items(out[c]) \subseteq Items(output'[c])
         /\ SendsReady(b) => \E c \in Conns : r \in Items(output'[c])
         /\ \A a \in Buffers : Items(buf[a].to_wake) \subseteq Items(buf'[a].to_wake) \/ a = b
<1>1. SendsReady(b) => buf[r].to_wake = <<>>
  BY FreshFits, FreshEmpty DEF Free
<1>2. buf \in [Buffers -> Contents] /\ mem \in Memory
  BY DEF TypeOK, BufOK, MemOK
<1>3. /\ Items(todo) \cup Items(buf[b].to_wake) \subseteq Items(todo')
      /\ b \in Pooled(mem')
  BY <1>1, <1>2, FreePlaces
<1>4. \A a \in Pooled(mem) : a \in Pooled(mem') \/ (a = r /\ SendsReady(b))
  BY <1>1, <1>2, FreePlaces
<1>5. \A c \in Conns : Items(out[c]) \subseteq Items(output'[c])
  BY <1>1, <1>2, FreePlaces
<1>6. SendsReady(b) => \E c \in Conns : r \in Items(output'[c])
  BY <1>1, <1>2, FreePlaces
<1>7. \A a \in Buffers : Items(buf[a].to_wake) \subseteq Items(buf'[a].to_wake) \/ a = b
  BY <1>1, <1>2, FreePlaces
<1>8. QED
  BY <1>3, <1>4, <1>5, <1>6, <1>7

(* comm_buf_free() by the thread that has the buffer.                      *)
LEMMA FreePlaced ==
  ASSUME TypeOK, Own, OrderInv, PlaceInv, NEW b \in Buffers, NEW out \in Queues,
         Free(b, buf, mem, out), UNCHANGED wait,
         \A c \in Conns : Items(output[c]) \ {b} \subseteq Items(out[c]),
         \A c \in Conns :
           /\ reader[c].pc \in Owning /\ reader[c].b # b =>
                reader'[c].pc \in Owning /\ reader'[c].b = reader[c].b
           /\ reader[c].p \in Buffers \ {b} => reader'[c].p = reader[c].p
           /\ writer[c].b \in Buffers \ {b} => writer'[c].b = writer[c].b,
         \A w \in Workers :
           /\ worker[w].pc \in Has /\ worker[w].b # b =>
                worker'[w].pc \in Has /\ worker'[w].b = worker[w].b
           /\ worker[w].r \in Buffers \ {b} => worker'[w].r = worker[w].r
           /\ worker'[w].pc # "send" => worker'[w].r = None
  PROVE  PlaceInv'
<1>0. PICK r : r = Fresh(mem)
  OBVIOUS
<1>2. /\ Items(todo) \cup Items(buf[b].to_wake) \subseteq Items(todo')
      /\ b \in Pooled(mem')
      /\ \A a \in Pooled(mem) : a \in Pooled(mem') \/ (a = r /\ SendsReady(b))
      /\ \A c \in Conns : Items(out[c]) \subseteq Items(output'[c])
      /\ SendsReady(b) => \E c \in Conns : r \in Items(output'[c])
      /\ \A a \in Buffers : Items(buf[a].to_wake) \subseteq Items(buf'[a].to_wake) \/ a = b
  BY Zenon, <1>0, FreedNow
<1>3. PICK S : S = {b} \cup Items(buf[b].to_wake) \cup {a \in {r} : SendsReady(b)}
  OBVIOUS
<1>4. Rests(S)
  BY <1>2, <1>3 DEF Rests
<1>5. \A a \in S : Placed(a)'
  BY <1>2, <1>3 DEF Placed
<1>6. QED
  BY <1>4, <1>5, RestsPlaced

LEMMA ReaderFreesPlaces ==
  ASSUME TypeOK, Own, OrderInv, Unbroken, PlaceInv, NEW c \in Conns, ReaderFrees(c)
  PROVE  PlaceInv'
<1>1. /\ Free(reader[c].b, buf, mem, output) /\ reader' = [reader EXCEPT ![c] = ReaderIdle]
      /\ reader[c].pc = "free" /\ UNCHANGED <<wait, worker, writer>>
  BY DEF ReaderFrees, ReaderAt
<1>2. \A d \in Conns \ {c} : reader'[d] = reader[d]
  BY <1>1 DEF TypeOK, ReaderOK
<1>3. reader[c].p = None /\ reader[c].b \in Buffers /\ None \notin Buffers
  BY <1>1, Others DEF Unbroken, TypeOK, ReaderOK, Owning
<1>4. QED
  BY <1>1, <1>2, <1>3, FreePlaced DEF TypeOK, OutputOK, PlaceInv

LEMMA WriterPlaces ==
  ASSUME TypeOK, Own, OrderInv, Unbroken, WritersIdle, PlaceInv, NEW c \in Conns,
         WriterWaits(c) \/ WriterSkips(c) \/ WriterWrites(c) \/ WriterFrees(c)
  PROVE  PlaceInv'
<1>0. writer \in [Conns -> [pc : WriterPcs, b : Buffers \cup {None}]] /\ None \notin Buffers
  BY Others DEF TypeOK, WriterOK
<1>1. CASE WriterWaits(c)
  <2>1. /\ writer' = [writer EXCEPT ![c].pc = "take"]
        /\ UNCHANGED <<buf, mem, todo, output, wait, reader, worker>>
    BY <1>1 DEF WriterWaits
  <2>2. \A d \in Conns : writer'[d].b = writer[d].b
    BY <1>0, <2>1
  <2>3. PICK S : S = {}
    OBVIOUS
  <2>4. Rests(S)
    BY <2>1, <2>2, <2>3 DEF Rests
  <2>5. QED
    BY <2>1, <2>3, <2>4, RestsPlaced DEF PlaceInv
<1>2. CASE WriterWrites(c)
  <2>1. PICK b : b = First(c)
    OBVIOUS
  <2>2. /\ output[c] # <<>> /\ writer[c].pc = "take"
        /\ output' = [output EXCEPT ![c] = comm_buf_from_queue(@)]
        /\ writer' = [writer EXCEPT ![c] = [pc |-> "free", b |-> b]]
        /\ UNCHANGED <<buf, mem, todo, wait, reader, worker>>
    BY <1>2, <2>1 DEF WriterWrites, WriterAt
  <2>3. /\ Items(output'[c]) = Items(output[c]) \ {b}
        /\ \A d \in Conns \ {c} : output'[d] = output[d]
    BY <2>1, <2>2, TailItems DEF TypeOK, OutputOK, Queues, Own, Lists, First, comm_buf_from_queue
  <2>4. writer'[c].b = b /\ \A d \in Conns \ {c} : writer'[d] = writer[d]
    BY <1>0, <2>2
  <2>5. writer[c].b = None
    BY <2>2 DEF WritersIdle
  <2>6. Rests({b})
    BY <1>0, <2>2, <2>3, <2>4, <2>5 DEF Rests
  <2>7. Placed(b)'
    BY <2>4 DEF Placed
  <2>8. QED
    BY <2>2, <2>6, <2>7, RestsPlaced DEF PlaceInv
<1>3. CASE WriterSkips(c)
  <2>1. PICK b, out : b = First(c) /\ out = [output EXCEPT ![c] = comm_buf_from_queue(@)]
    OBVIOUS
  <2>2. /\ output[c] # <<>> /\ writer[c].pc = "take" /\ Free(b, buf, mem, out)
        /\ writer' = [writer EXCEPT ![c] = WriterIdle] /\ UNCHANGED <<wait, reader, worker>>
    BY <1>3, <2>1 DEF WriterSkips, WriterAt
  <2>3. /\ out \in Queues /\ b \in Buffers
        /\ \A d \in Conns : Items(output[d]) \ {b} \subseteq Items(out[d])
    <3>1. output[c] \in Seq(Buffers) /\ Once(output[c]) /\ output \in Queues
      BY DEF TypeOK, OutputOK, Queues, Own, Lists
    <3>2. out \in Queues
      BY <2>1, <2>2, <3>1, DequeuedOK
    <3>3. Items(out[c]) = Items(output[c]) \ {b} /\ b \in Items(output[c])
      BY <2>1, <2>2, <3>1, TailItems DEF First, comm_buf_from_queue, Queues
    <3>4. \A d \in Conns \ {c} : out[d] = output[d]
      BY <2>1, <3>1 DEF Queues
    <3>5. QED
      BY <3>1, <3>2, <3>3, <3>4, ItemsTyped
  <2>4. \A d \in Conns \ {c} : writer'[d] = writer[d]
    BY <1>0, <2>2
  <2>5. writer[c].b = None
    BY <2>2 DEF WritersIdle
  <2>6. QED
    BY <1>0, <2>2, <2>3, <2>4, <2>5, FreePlaced DEF PlaceInv
<1>4. CASE WriterFrees(c)
  <2>1. /\ Free(writer[c].b, buf, mem, output) /\ writer[c].pc = "free"
        /\ writer' = [writer EXCEPT ![c] = WriterIdle] /\ UNCHANGED <<wait, reader, worker>>
    BY <1>4 DEF WriterFrees, WriterAt
  <2>2. writer[c].b \in Buffers
    BY <2>1 DEF TypeOK, WriterOK
  <2>3. \A d \in Conns \ {c} : writer'[d] = writer[d]
    BY <1>0, <2>1
  <2>4. QED
    BY <2>1, <2>2, <2>3, FreePlaced DEF PlaceInv, TypeOK, OutputOK
<1>5. QED
  BY <1>1, <1>2, <1>3, <1>4

(* A worker moves the buffers of S.                                        *)
LEMMA WorkPlaces ==
  ASSUME TypeOK, PlaceInv, NEW w \in Workers, NEW S, UNCHANGED <<reader, writer>>,
         Items(todo) \ S \subseteq Items(todo'), Pooled(mem) \ S \subseteq Pooled(mem'),
         \A c \in Conns : /\ Items(output[c]) \ S \subseteq Items(output'[c])
                          /\ Items(wait[c]) \ S \subseteq Items(wait'[c]),
         \A a \in Buffers : Items(buf[a].to_wake) \ S \subseteq Items(buf'[a].to_wake),
         \A v \in Workers \ {w} : worker'[v] = worker[v],
         \/ worker[w].pc \notin Has \/ worker[w].b \in S
         \/ worker'[w].pc \in Has /\ worker'[w].b = worker[w].b,
         worker[w].r \notin Buffers \ S \/ worker'[w].r = worker[w].r,
         worker'[w].pc # "send" => worker'[w].r = None,
         \A b \in S : Placed(b)'
  PROVE  PlaceInv'
<1>1. Rests(S)
  BY DEF Rests
<1>2. \A v \in Workers : worker'[v].pc # "send" => worker'[v].r = None
  BY DEF PlaceInv
<1>3. QED
  BY <1>1, <1>2, RestsPlaced

LEMMA WorkerTakesPlaces ==
  ASSUME TypeOK, Own, PlaceInv, NEW w \in Workers, WorkerTakes(w) PROVE PlaceInv'
<1>1. PICK b : b = Head(todo)
  OBVIOUS
<1>2. /\ worker[w].pc = "idle" /\ todo # <<>> /\ todo' = Tail(todo)
      /\ worker' = [worker EXCEPT ![w].pc = "got", ![w].b = b]
      /\ UNCHANGED <<buf, mem, output, wait, reader, writer>>
  BY <1>1 DEF WorkerTakes, WorkerAt, comm_buf_from_queue
<1>3. /\ worker'[w].pc = "got" /\ worker'[w].b = b /\ worker'[w].r = worker[w].r
      /\ \A v \in Workers \ {w} : worker'[v] = worker[v]
  BY <1>2 DEF TypeOK, WorkerOK, WorkersAt
<1>4. Items(todo') = Items(todo) \ {b}
  BY <1>1, <1>2, TailItems DEF TypeOK, TodoOK, Own, Lists
<1>5. worker[w].r = None /\ worker[w].pc \notin Has
  BY <1>2 DEF PlaceInv, Has
<1>6. Placed(b)'
  BY <1>3 DEF Placed, Has
<1>7. PICK S : S = {b}
  OBVIOUS
<1>8. QED
  BY <1>2, <1>3, <1>4, <1>5, <1>6, <1>7, WorkPlaces

LEMMA AsksPlaces ==
  ASSUME TypeOK, Own, OrderInv, PlaceInv, NEW w \in Workers, NEW b \in Buffers, NEW k \in Kinds,
         NEW e \in Conns, NEW phase, Serves(w, b), Asks(w, b, e, k, phase)
  PROVE  PlaceInv'
<1>0. PICK r, op : r = Fresh(mem) /\ op = [comm |-> e, kind |-> k, seq |-> ids[k]]
  OBVIOUS
<1> DEFINE p == [buf[b] EXCEPT !.lock = w, !.user_data = "error", !.op = op,
                               !.ops = @ + 1, !.waiting = [to |-> k, seq |-> op.seq]]
           q == Outgoing(e, op)
           at == [pc |-> "send", b |-> b, r |-> r, phase |-> phase]
<1>1. worker[w].pc = "got" /\ worker[w].b = b /\ buf[b].comm \in Conns
  BY ServedKnown DEF Serves, Locks, WorkerAt
<1>2. /\ Available(mem) /\ buf' = [buf EXCEPT ![b] = p, ![r] = q]
      /\ mem' = Taken(mem)
      /\ worker' = [worker EXCEPT ![w] = at]
      /\ wait' = [wait EXCEPT ![buf[b].comm] = comm_buf_to_queue(@, b)]
      /\ UNCHANGED <<todo, reader, writer, output>>
  BY <1>0 DEF Asks
<1>4. r \in Buffers /\ buf[r].to_wake = <<>>
  BY <1>0, <1>2, FreshFits, FreshEmpty
<1>5. p.to_wake = buf[b].to_wake
  BY DEF TypeOK, BufOK, Contents
<1>6. at.pc = "send" /\ at.b = b /\ at.r = r
  OBVIOUS
<1> HIDE DEF p, q, at
<1>7. \A a \in Buffers : buf'[a].to_wake = buf[a].to_wake \/ a = r
  BY <1>2, <1>4, <1>5 DEF TypeOK, BufOK
<1>8. \A a \in Buffers : Items(buf[a].to_wake) \subseteq Items(buf'[a].to_wake)
  BY <1>4, <1>7, EmptyItems
<1>9. worker'[w] = at /\ \A v \in Workers \ {w} : worker'[v] = worker[v]
  BY <1>2 DEF TypeOK, WorkerOK
<1>10. /\ Items(wait'[buf[b].comm]) = Items(wait[buf[b].comm]) \cup {b}
       /\ \A d \in Conns \ {buf[b].comm} : wait'[d] = wait[d]
  BY <1>1, <1>2, AppendItems DEF TypeOK, WaitOK, Queues, comm_buf_to_queue
<1>11. Pooled(mem) \ {r} \subseteq Pooled(mem')
  BY <1>0, <1>2, PooledTaken DEF TypeOK, MemOK
<1>12. worker[w].r = None /\ None \notin Buffers
  BY <1>1, Others DEF PlaceInv
<1>13. Placed(b)' /\ Placed(r)'
  <2>1. Placed(b)'
    BY <1>1, <1>10 DEF Placed
  <2>2. Placed(r)'
    BY <1>6, <1>9 DEF Placed
  <2>3. QED
    BY <2>1, <2>2
<1>14. PICK S : S = {b, r}
  OBVIOUS
<1>15. \A d \in Conns : Items(wait[d]) \subseteq Items(wait'[d])
  BY <1>10
<1>16. /\ worker[w].b \in S /\ worker'[w].pc = "send" /\ worker[w].r \notin Buffers
       /\ \A a \in S : Placed(a)'
  BY <1>1, <1>6, <1>9, <1>12, <1>13, <1>14
<1>17. /\ Items(todo) \ S \subseteq Items(todo') /\ Pooled(mem) \ S \subseteq Pooled(mem')
       /\ \A c \in Conns : /\ Items(output[c]) \ S \subseteq Items(output'[c])
                           /\ Items(wait[c]) \ S \subseteq Items(wait'[c])
       /\ \A a \in Buffers : Items(buf[a].to_wake) \ S \subseteq Items(buf'[a].to_wake)
  BY <1>2, <1>8, <1>11, <1>14, <1>15
<1>18. QED
  BY <1>2, <1>9, <1>16, <1>17, WorkPlaces

LEMMA EventDecidesPlaces ==
  ASSUME TypeOK, Own, PlaceInv, NEW w \in Workers, EventDecides(w) PROVE PlaceInv'
<1>1. PICK b \in Buffers :
        /\ Serves(w, b)
        /\ IF buf[b].init
           THEN /\ buf' = [buf EXCEPT ![b].phase = 1000]
                /\ initDone' = initDone \cup {buf[b].comm}
                /\ UNCHANGED decided
           ELSE \E v \in Verdicts :
                  /\ buf' = [buf EXCEPT ![b] = [@ EXCEPT !.phase = 1000, !.verdict = v]]
                  /\ decided' = [decided EXCEPT ![buf[b].req] = v]
                  /\ UNCHANGED initDone
        /\ todo' = comm_buf_to_queue(todo, b)
  BY Zenon DEF EventDecides
<1>2. /\ worker' = [worker EXCEPT ![w] = WorkerIdle]
      /\ UNCHANGED <<mem, output, wait, reader, writer>>
  BY DEF EventDecides
<1>3. worker[w].pc = "got" /\ worker[w].b = b
  BY <1>1 DEF Serves, Locks, WorkerAt
<1>4. \A a \in Buffers : buf'[a].to_wake = buf[a].to_wake
  <2>1. CASE buf[b].init
    <3>1. buf' = [buf EXCEPT ![b].phase = 1000]
      BY <1>1, <2>1, Zenon
    <3>2. QED
      BY <3>1 DEF TypeOK, BufOK, Contents
  <2>2. CASE ~buf[b].init
    <3>1. PICK v \in Verdicts :
            /\ buf' = [buf EXCEPT ![b] = [@ EXCEPT !.phase = 1000, !.verdict = v]]
            /\ decided' = [decided EXCEPT ![buf[b].req] = v]
            /\ initDone' = initDone
      BY <1>1, <2>2
    <3> DEFINE x == [buf[b] EXCEPT !.phase = 1000, !.verdict = v]
    <3>2. x.to_wake = buf[b].to_wake
      BY DEF TypeOK, BufOK, Contents
    <3>3. buf' = [buf EXCEPT ![b] = x]
      BY <3>1
    <3> HIDE DEF x
    <3>4. QED
      BY <3>2, <3>3 DEF TypeOK, BufOK
  <2>3. QED
    BY <2>1, <2>2
<1>5. /\ worker'[w].pc = "idle" /\ worker'[w].r = None
      /\ \A v \in Workers \ {w} : worker'[v] = worker[v]
  BY <1>2 DEF TypeOK, WorkerOK, WorkerIdle
<1>6. Items(todo') = Items(todo) \cup {b}
  BY <1>1, ToTodoItems
<1>7. worker[w].r = None /\ None \notin Buffers
  BY <1>3, Others DEF PlaceInv
<1>8. Placed(b)'
  BY <1>6 DEF Placed
<1>9. PICK S : S = {b}
  OBVIOUS
<1>10. QED
  BY <1>2, <1>3, <1>4, <1>5, <1>6, <1>7, <1>8, <1>9, WorkPlaces

LEMMA AnswerSendsPlaces ==
  ASSUME TypeOK, Own, OrderInv, PlaceInv, NEW w \in Workers, AnswerSends(w) PROVE PlaceInv'
<1>1. PICK b \in Buffers :
        /\ Serves(w, b)
        /\ LET c == buf[b].comm
               r == Fresh(mem)
               m == [kind |-> "answer", req |-> buf[b].req, verdict |-> buf[b].verdict]
           IN /\ Available(mem)
              /\ mem' = Taken(mem)
              /\ buf' = [buf EXCEPT ![b].lock = w, ![r] = Outgoing(c, m)]
              /\ output' = [output EXCEPT ![c] = comm_buf_to_queue(@, r)]
  BY Zenon DEF AnswerSends
<1>2. /\ worker' = [worker EXCEPT ![w].pc = "free"]
      /\ UNCHANGED <<todo, wait, reader, writer>>
  BY DEF AnswerSends
<1>3. PICK c, r, y : /\ c = buf[b].comm /\ r = Fresh(mem)
                     /\ y = Outgoing(c, [kind |-> "answer", req |-> buf[b].req,
                                         verdict |-> buf[b].verdict])
  OBVIOUS
<1>4. /\ Available(mem) /\ mem' = Taken(mem) /\ buf' = [buf EXCEPT ![b].lock = w, ![r] = y]
      /\ output' = [output EXCEPT ![c] = comm_buf_to_queue(@, r)]
  BY <1>1, <1>3
<1>5. worker[w].pc = "got" /\ worker[w].b = b /\ c \in Conns
  BY <1>1, <1>3, ServedKnown DEF Serves, Locks, WorkerAt
<1>6. r \in Buffers /\ buf[r].to_wake = <<>>
  BY <1>3, <1>4, FreshFits, FreshEmpty
<1>7. \A a \in Buffers : buf'[a].to_wake = buf[a].to_wake \/ a = r
  BY <1>4, <1>6 DEF TypeOK, BufOK, Contents
<1>8. \A a \in Buffers : Items(buf[a].to_wake) \subseteq Items(buf'[a].to_wake)
  BY <1>6, <1>7, EmptyItems
<1>9. /\ worker'[w].pc = "free" /\ worker'[w].b = b /\ worker'[w].r = worker[w].r
      /\ \A v \in Workers \ {w} : worker'[v] = worker[v]
  BY <1>2, <1>5 DEF TypeOK, WorkerOK, WorkersAt
<1>10. /\ Items(output'[c]) = Items(output[c]) \cup {r}
       /\ \A d \in Conns \ {c} : output'[d] = output[d]
  BY <1>4, <1>5, <1>6, AppendItems DEF TypeOK, OutputOK, Queues, comm_buf_to_queue
<1>11. Pooled(mem) \ {r} \subseteq Pooled(mem')
  BY <1>3, <1>4, PooledTaken DEF TypeOK, MemOK
<1>12. worker[w].r = None
  BY <1>5 DEF PlaceInv
<1>13. Placed(r)'
  BY <1>5, <1>10 DEF Placed
<1>14. PICK S : S = {r}
  OBVIOUS
<1>15. /\ "free" \in Has
       /\ \A d \in Conns : Items(output[d]) \subseteq Items(output'[d])
  BY <1>10 DEF Has
<1>16. QED
  BY <1>2, <1>5, <1>8, <1>9, <1>11, <1>12, <1>13, <1>14, <1>15, WorkPlaces

LEMMA WorkerFreesPlaces ==
  ASSUME TypeOK, Own, OrderInv, PlaceInv, NEW w \in Workers, WorkerFrees(w) \/ InitFrees(w)
  PROVE  PlaceInv'
<1>1. /\ worker[w].pc \in {"free", "initfree"} /\ Free(worker[w].b, buf, mem, output)
      /\ UNCHANGED <<wait, reader, writer>>
  BY DEF WorkerFrees, InitFrees, WorkerAt
<1>2. PICK pc : /\ worker' = [worker EXCEPT ![w] = [pc |-> pc, b |-> None, r |-> None, phase |-> 0]]
                /\ pc \in {"idle", "initclear"}
  <2>1. CASE WorkerFrees(w)
    BY <2>1 DEF WorkerFrees, WorkerIdle
  <2>2. CASE InitFrees(w)
    <3>1. [WorkerIdle EXCEPT !.pc = "initclear"] =
            [pc |-> "initclear", b |-> None, r |-> None, phase |-> 0]
      BY DEF WorkerIdle
    <3>2. QED
      BY <2>2, <3>1 DEF InitFrees
  <2>3. QED
    BY <2>1, <2>2
<1>3. /\ worker'[w].pc # "send" /\ worker'[w].r = None
      /\ \A v \in Workers \ {w} : worker'[v] = worker[v]
  BY <1>2 DEF TypeOK, WorkerOK
<1>4. worker[w].b \in Buffers /\ worker[w].r = None /\ None \notin Buffers
  BY <1>1, Others DEF PlaceInv, TypeOK, WorkerOK
<1>5. PICK b \in Buffers : b = worker[w].b
  BY <1>4
<1>6. \A v \in Workers :
        /\ worker[v].pc \in Has /\ worker[v].b # b =>
             worker'[v].pc \in Has /\ worker'[v].b = worker[v].b
        /\ worker[v].r \in Buffers \ {b} => worker'[v].r = worker[v].r
        /\ worker'[v].pc # "send" => worker'[v].r = None
  BY <1>3, <1>4, <1>5 DEF PlaceInv
<1>7. output \in Queues
  BY DEF TypeOK, OutputOK
<1>8. QED
  BY <1>1, <1>5, <1>6, <1>7, FreePlaced

LEMMA WorkerSendsPlaces ==
  ASSUME TypeOK, Own, PlaceInv, NEW w \in Workers, WorkerSends(w) PROVE PlaceInv'
<1>1. PICK r, c : r = worker[w].r /\ c = buf[r].comm
  OBVIOUS
<1>2. /\ worker[w].pc = "send" /\ output' = [output EXCEPT ![c] = comm_buf_to_queue(@, r)]
      /\ worker' = [worker EXCEPT ![w].pc = "park", ![w].r = None]
      /\ UNCHANGED <<buf, mem, todo, wait, reader, writer>>
  BY <1>1 DEF WorkerSends, WorkerAt
<1>3. r \in Buffers
  BY <1>1, <1>2 DEF TypeOK, WorkerOK
<1>4. /\ worker'[w].pc = "park" /\ worker'[w].r = None /\ \A v \in Workers \ {w} : worker'[v] = worker[v]
  BY <1>2 DEF TypeOK, WorkerOK, WorkersAt
<1>5. \A d \in Conns : Items(output[d]) \subseteq Items(output'[d])
  BY <1>2, <1>3, AppendItems DEF TypeOK, OutputOK, Queues, comm_buf_to_queue
<1>6. "send" \notin Has
  BY DEF Has
<1>7. c \in Conns
  <2>1. buf[worker[w].r].comm \in Conns
    BY <1>2, OwnKnown
  <2>2. QED
    BY <1>1, <2>1
<1>8. Items(output'[c]) = Items(output[c]) \cup {r}
  BY <1>2, <1>3, <1>7, AppendItems DEF TypeOK, OutputOK, Queues, comm_buf_to_queue
<1>9. Placed(r)'
  BY <1>7, <1>8 DEF Placed
<1>10. PICK S : S = {r}
  OBVIOUS
<1>11. worker[w].r \notin Buffers \ S /\ worker[w].pc \notin Has /\ \A a \in S : Placed(a)'
  BY <1>1, <1>2, <1>6, <1>9, <1>10
<1>12. QED
  BY <1>2, <1>4, <1>5, <1>11, WorkPlaces

LEMMA WorkerLeavesPlaces ==
  ASSUME TypeOK, PlaceInv, NEW w \in Workers, WorkerParks(w) \/ InitClears(w) PROVE PlaceInv'
<1>1. /\ worker[w].pc \in {"park", "initclear"} /\ worker' = [worker EXCEPT ![w] = WorkerIdle]
      /\ UNCHANGED <<mem, todo, output, wait, reader, writer>>
  BY DEF WorkerParks, InitClears, WorkerAt
<1>2. \A a \in Buffers : buf'[a].to_wake = buf[a].to_wake
  <2>1. CASE WorkerParks(w)
    BY <2>1 DEF WorkerParks, TypeOK, BufOK, Contents
  <2>2. CASE InitClears(w)
    BY <2>2 DEF InitClears
  <2>3. QED
    BY <2>1, <2>2
<1>3. /\ worker'[w].pc = "idle" /\ worker'[w].r = None
      /\ \A v \in Workers \ {w} : worker'[v] = worker[v]
  BY <1>1 DEF TypeOK, WorkerOK, WorkerIdle
<1>4. worker[w].pc \notin Has /\ worker[w].r = None
  BY <1>1 DEF Has, PlaceInv
<1>5. PICK S : S = {}
  OBVIOUS
<1>6. QED
  BY <1>1, <1>2, <1>3, <1>4, <1>5, WorkPlaces

(* _init() is over: what waited for it is queued.                          *)
LEMMA InitWakesPlaces ==
  ASSUME TypeOK, PlaceInv, NEW w \in Workers, InitWakes(w) PROVE PlaceInv'
<1>1. PICK b \in Buffers :
        /\ Serves(w, b)
        /\ todo' = todo \o buf[b].to_wake
        /\ buf' = [buf EXCEPT ![b].to_wake = <<>>]
  BY Zenon DEF InitWakes
<1>2. /\ worker' = [worker EXCEPT ![w].pc = "initfree"]
      /\ UNCHANGED <<mem, output, wait, reader, writer>>
  BY DEF InitWakes
<1>3. worker[w].pc = "got" /\ worker[w].r = None
  BY <1>1 DEF Serves, Locks, WorkerAt, PlaceInv
<1>4. /\ worker'[w].pc = "initfree" /\ worker'[w].b = worker[w].b /\ worker'[w].r = worker[w].r
      /\ \A v \in Workers \ {w} : worker'[v] = worker[v]
  BY <1>2 DEF TypeOK, WorkerOK, WorkersAt
<1>5. PICK S : S = Items(buf[b].to_wake)
  OBVIOUS
<1>6. Items(todo') = Items(todo) \cup S
  BY <1>1, <1>5, ConcatItems DEF TypeOK, TodoOK, BufOK, Contents
<1>7. \A a \in Buffers \ {b} : buf'[a] = buf[a]
  BY <1>1 DEF TypeOK, BufOK
<1>8. \A a \in Buffers : Items(buf[a].to_wake) \ S \subseteq Items(buf'[a].to_wake)
  BY <1>5, <1>7
<1>9. \A a \in S : Placed(a)'
  BY <1>6 DEF Placed
<1>10. "initfree" \in Has
  BY DEF Has
<1>11. Items(todo) \ S \subseteq Items(todo')
  BY <1>6
<1>12. QED
  BY <1>2, <1>3, <1>4, <1>8, <1>9, <1>10, <1>11, WorkPlaces

LEMMA ResizesPlaces ==
  ASSUME TypeOK, Own, OrderInv, PlaceInv, NEW w \in Workers, Resizes(w) PROVE PlaceInv'
<1>0. PICK b, n, r, c, y :
        /\ b = worker[w].b /\ n = Fresh(mem) /\ r = Fresh(Taken(mem)) /\ c = buf[b].comm
        /\ y = Outgoing(c, [kind |-> "ready"])
  OBVIOUS
<1>1. /\ worker[w].pc = "got" /\ b \in Buffers /\ n \in Buffers /\ n # b
      /\ c \in Conns /\ ~Busy(n)
      /\ SendsReady(b) => r \in Buffers \ {b, n} /\ ~Busy(r)
      /\ \A a \in Buffers :
           buf'[a] = IF SendsReady(b) /\ a = r THEN y
                     ELSE IF a = b THEN Blank
                     ELSE IF a = n THEN [buf[b] EXCEPT !.room = TRUE]
                     ELSE buf[a]
      /\ todo' = todo /\ (SendsReady(b) => Available(Taken(mem)))
      /\ output' = IF SendsReady(b) THEN [output EXCEPT ![c] = comm_buf_to_queue(@, r)]
                   ELSE output
      /\ worker' = [worker EXCEPT ![w].b = n]
      /\ UNCHANGED <<wait, reader, writer>>
  BY <1>0, ResizesMoves
<1>2. /\ Available(mem)
      /\ mem' = IF SendsReady(b) THEN Put(Taken(Taken(mem)), b) ELSE Put(Taken(mem), b)
  BY <1>0 DEF Resizes, Free
<1>3. mem \in Memory /\ Taken(mem) \in Memory
  BY <1>2, TakenOK DEF TypeOK, MemOK
<1>4. PICK S : S = {b, n} \cup {a \in {r} : SendsReady(b)} \cup Items(buf[b].to_wake)
  OBVIOUS
<1>5. Pooled(mem) \ {n} \subseteq Pooled(Taken(mem))
  BY <1>0, <1>2, <1>3, PooledTaken
<1>6. Pooled(mem) \ S \subseteq Pooled(mem') /\ b \in Pooled(mem')
  <2>1. CASE SendsReady(b)
    <3>1. Pooled(Taken(mem)) \ {r} \subseteq Pooled(Taken(Taken(mem)))
      BY <1>0, <1>1, <1>3, <2>1, PooledTaken
    <3>2. Taken(Taken(mem)) \in Memory
      BY <1>1, <1>3, <2>1, TakenOK
    <3>3. Pooled(Taken(Taken(mem))) \cup {b} \subseteq Pooled(mem')
      BY <1>1, <1>2, <2>1, <3>2, PooledPut
    <3>4. QED
      BY <1>4, <1>5, <2>1, <3>1, <3>3
  <2>2. CASE ~SendsReady(b)
    <3>1. Pooled(Taken(mem)) \cup {b} \subseteq Pooled(mem')
      BY <1>1, <1>2, <1>3, <2>2, PooledPut
    <3>2. QED
      BY <1>4, <1>5, <3>1
  <2>3. QED
    BY <2>1, <2>2
<1>7. buf[n].to_wake = <<>> /\ (SendsReady(b) => buf[r].to_wake = <<>>)
  BY <1>1, FreshEmpty
<1>8. buf'[n].to_wake = buf[b].to_wake
  BY <1>1 DEF TypeOK, BufOK, Contents
<1>9. \A a \in Buffers : Items(buf[a].to_wake) \ S \subseteq Items(buf'[a].to_wake)
  <2>1. ASSUME NEW a \in Buffers, a # b PROVE Items(buf[a].to_wake) \subseteq Items(buf'[a].to_wake)
    <3>1. CASE a = n \/ (SendsReady(b) /\ a = r)
      BY <1>7, <3>1, EmptyItems
    <3>2. CASE a # n /\ ~(SendsReady(b) /\ a = r)
      BY <1>1, <2>1, <3>2
    <3>3. QED
      BY <3>1, <3>2
  <2>2. QED
    BY <1>4, <2>1
<1>10. /\ worker'[w].pc = "got" /\ worker'[w].b = n /\ worker'[w].r = worker[w].r
       /\ \A v \in Workers \ {w} : worker'[v] = worker[v]
  BY <1>1 DEF TypeOK, WorkerOK, WorkersAt
<1>11. /\ \A d \in Conns : Items(output[d]) \subseteq Items(output'[d])
       /\ SendsReady(b) => r \in Items(output'[c])
  <2>1. CASE SendsReady(b)
    <3>1. /\ Items(output'[c]) = Items(output[c]) \cup {r}
          /\ \A d \in Conns \ {c} : output'[d] = output[d]
      BY <1>1, <2>1, AppendItems DEF TypeOK, OutputOK, Queues, comm_buf_to_queue
    <3>2. QED
      BY <3>1
  <2>2. CASE ~SendsReady(b)
    BY <1>1, <2>2
  <2>3. QED
    BY <2>1, <2>2
<1>12. ASSUME NEW a \in S PROVE Placed(a)'
  <2>1. CASE a = b
    BY <1>6, <2>1 DEF Placed
  <2>2. CASE a = n
    BY <1>10, <2>2 DEF Placed, Has
  <2>3. CASE SendsReady(b) /\ a = r
    BY <1>1, <1>11, <2>3 DEF Placed
  <2>4. CASE a \in Items(buf[b].to_wake)
    BY <1>1, <1>8, <2>4 DEF Placed
  <2>5. QED
    BY <1>4, <2>1, <2>2, <2>3, <2>4
<1>13. worker[w].r = None /\ worker[w].b \in S /\ None \notin Buffers
  BY <1>0, <1>1, <1>4, Others DEF PlaceInv
<1>14. /\ Items(todo) \ S \subseteq Items(todo')
       /\ \A d \in Conns : /\ Items(output[d]) \ S \subseteq Items(output'[d])
                           /\ Items(wait[d]) \ S \subseteq Items(wait'[d])
       /\ UNCHANGED <<reader, writer>>
  BY <1>1, <1>11
<1>15. QED
  BY <1>6, <1>9, <1>10, <1>12, <1>13, <1>14, WorkPlaces

LEMMA NextPlaces ==
  ASSUME Orderly, OrderlyInv, PlaceInv, [Next]_vars PROVE PlaceInv'
<1>1. TypeOK /\ Own /\ Unbroken /\ OrderInv /\ WritersIdle
  BY DEF OrderlyInv
<1>2. ASSUME UNCHANGED vars PROVE PlaceInv'
  BY <1>2, EndsPlaces
<1>3. ASSUME NEW c \in Conns, KernelMoves(c) \/ ReadsAnswer(c) PROVE PlaceInv'
  BY <1>1, <1>3, KernelPlaces
<1>4. ASSUME NEW c \in Conns, ReaderStep(c) PROVE PlaceInv'
  <2>1. ~QueryRefused(c) /\ ~InitRefused(c) /\ ~ReaderFails(c)
    BY <1>1, NoneCloses
  <2>2. CASE QueryDangles(c) \/ AnswerUnexpected(c)
    BY <2>2, EndsPlaces DEF QueryDangles, AnswerUnexpected
  <2>3. CASE ReaderGets(c) \/ ReadyAnswer(c)
    BY <1>1, <2>3, ReaderGetsPlaces, ReadyAnswerPlaces
  <2>4. CASE ReadyRequest(c) \/ QueryInits(c)
    BY <1>1, <2>4, ConnInitPlaces
  <2>5. CASE QueryPasses(c) \/ QueryWaits(c) \/ QueryQueued(c)
    BY <1>1, <2>5, QueryPlaces
  <2>6. CASE ReaderChecks(c)
    BY <1>1, <2>6, ReaderChecksPlaces
  <2>7. CASE UpdateAnswered(c) \/ FetchFailed(c) \/ FetchAnswered(c) \/ FetchDone(c)
    BY <1>1, <2>7, ReaderAnswersPlaces
  <2>8. CASE ReaderFrees(c)
    BY <1>1, <2>8, ReaderFreesPlaces
  <2>9. QED
    BY <1>4, <2>1, <2>2, <2>3, <2>4, <2>5, <2>6, <2>7, <2>8 DEF ReaderStep
<1>5. ASSUME NEW c \in Conns, WriterStep(c) PROVE PlaceInv'
  <2>1. ~WriterFails(c)
    BY <1>1, NoneCloses
  <2>2. CASE WriterFindsNull(c)
    BY <2>2, EndsPlaces DEF WriterFindsNull
  <2>3. CASE WriterWaits(c) \/ WriterSkips(c) \/ WriterWrites(c) \/ WriterFrees(c)
    BY <1>1, <2>3, WriterPlaces
  <2>4. QED
    BY <1>5, <2>1, <2>2, <2>3 DEF WriterStep
<1>6. ASSUME NEW w \in Workers, WorkerStep(w) PROVE PlaceInv'
  <2>1. CASE WorkerTakes(w) \/ WorkerSends(w)
    BY <1>1, <2>1, WorkerTakesPlaces, WorkerSendsPlaces
  <2>2. CASE Resizes(w)
    BY <1>1, <2>2, ResizesPlaces
  <2>3. CASE EventAsks(w) \/ AnswerUpdates(w)
    <3>1. PICK b \in Buffers, k \in Kinds, e \in Conns, phase \in {1, 1003} :
            Serves(w, b) /\ Asks(w, b, e, k, phase)
      <4>1. CASE EventAsks(w)
        BY <4>1 DEF EventAsks
      <4>2. CASE AnswerUpdates(w)
        <5>1. PICK b \in Buffers : Serves(w, b) /\ Asks(w, b, buf[b].comm, "update", 1003)
          BY <4>2, Zenon DEF AnswerUpdates
        <5>2. "update" \in Kinds /\ buf[b].comm \in Conns
          BY <1>1, <5>1, ServesBuffer DEF Kinds
        <5>3. QED
          BY <5>1, <5>2
      <4>3. QED
        BY <2>3, <4>1, <4>2
    <3>2. QED
      BY <1>1, <3>1, AsksPlaces
  <2>4. CASE EventDecides(w) \/ AnswerSends(w)
    BY <1>1, <2>4, EventDecidesPlaces, AnswerSendsPlaces
  <2>5. CASE WorkerFrees(w) \/ InitFrees(w)
    BY <1>1, <2>5, WorkerFreesPlaces
  <2>6. CASE WorkerParks(w) \/ InitClears(w)
    BY <1>1, <2>6, WorkerLeavesPlaces
  <2>7. CASE InitWakes(w)
    BY <1>1, <2>7, InitWakesPlaces
  <2>8. QED
    BY <1>6, <2>1, <2>2, <2>3, <2>4, <2>5, <2>6, <2>7 DEF WorkerStep
<1>7. ~MainReturns /\ \A c \in Conns : ~CloseStep(c)
  BY <1>1, CommAssumption, NoneCloses
<1>8. QED
  BY <1>2, <1>3, <1>4, <1>5, <1>6, <1>7 DEF Next, Done

(* At the start every buffer is free.                                      *)
LEMMA ListedAll ==
  ASSUME NEW S \in SUBSET Buffers, NEW s \in Listings(S)
  PROVE  Items(s) = S
<1>1. IsFiniteSet(S) /\ Once(s)
  BY CommAssumption, FS_Subset, ListedOnce
<1>2. PICK n : n = Cardinality(S) /\ n \in Nat
  BY <1>1, FS_CardinalityType
<1>3. s \in [1..n -> S]
  BY <1>2 DEF Listings
<1>4. s \in Injection(1..n, S)
  BY <1>1, <1>3 DEF Injection, IsInjective, Once
<1>5. Cardinality(1..n) = n
  BY <1>2, FS_Interval
<1>6. s \in Surjection(1..n, S)
  BY <1>1, <1>2, <1>4, <1>5, FS_Injection
<1>7. QED
  BY <1>3, <1>6 DEF Surjection, Items

LEMMA InitPlaces == Init => PlaceInv
<1> SUFFICES ASSUME Init PROVE PlaceInv
  OBVIOUS
<1>1. mem.slot0 \in Listings(Pool0) /\ mem.slot1 \in Listings(Pool1) /\ mem.heap = Heap
  BY DEF Init
<1>2. Pool0 \in SUBSET Buffers /\ Pool1 \in SUBSET Buffers
  BY DEF Buffers
<1>3. Items(mem.slot0) = Pool0 /\ Items(mem.slot1) = Pool1
  BY <1>1, <1>2, ListedAll
<1>4. Buffers \subseteq Pooled(mem)
  BY <1>1, <1>3 DEF Pooled, Buffers
<1>5. \A w \in Workers : worker[w].r = None
  BY DEF Init, WorkerIdle
<1>6. QED
  BY <1>4, <1>5 DEF PlaceInv, Placed

-----------------------------------------------------------------------------
LEMMA PlacedSomewhere ==
  ASSUME NEW b \in Buffers, Placed(b)
  PROVE  Places(b) # {}
<1> DEFINE T  == {<<"todo", None, i>> : i \in At(b, todo)}
           O  == UNION {{<<"output", c, i>> : i \in At(b, output[c])} : c \in Conns}
           W  == UNION {{<<"wait", c, i>> : i \in At(b, wait[c])} : c \in Conns}
           K  == UNION {{<<"to_wake", a, i>> : i \in At(b, buf[a].to_wake)} : a \in Buffers}
           S0 == {<<"slot0", None, i>> : i \in At(b, mem.slot0)}
           S1 == {<<"slot1", None, i>> : i \in At(b, mem.slot1)}
           H  == {<<"heap", None, 0>> : h \in mem.heap \cap {b}}
           R  == {<<"reader", c, 0>> : c \in {c \in Conns : reader[c].b = b
                                                         /\ reader[c].pc \in Owning}}
           F  == {<<"fetched", c, 0>> : c \in {c \in Conns : reader[c].p = b}}
           G  == {<<"worker", w, 0>> : w \in {w \in Workers : worker[w].b = b
                               /\ worker[w].pc \in {"got", "free", "initfree"}}}
           Q  == {<<"request", w, 0>> : w \in {w \in Workers : worker[w].r = b}}
           V  == {<<"writer", c, 0>> : c \in {c \in Conns : writer[c].b = b}}
<1>0. Places(b) = T \cup O \cup W \cup K \cup S0 \cup S1 \cup H \cup R \cup F \cup G \cup Q \cup V
  BY DEF Places
<1>1. b \in Items(todo) => T # {}
  BY DEF At, Items
<1>2. b \in Pooled(mem) => S0 \cup S1 \cup H # {}
  <2>1. b \in Items(mem.slot0) => S0 # {}
    BY DEF At, Items
  <2>2. b \in Items(mem.slot1) => S1 # {}
    BY DEF At, Items
  <2>3. b \in mem.heap => H # {}
    OBVIOUS
  <2>4. QED
    BY <2>1, <2>2, <2>3 DEF Pooled
<1>3. ASSUME NEW c \in Conns, b \in Items(output[c]) PROVE O # {}
  <2>1. PICK i \in At(b, output[c]) : TRUE
    BY <1>3 DEF At, Items
  <2>2. <<"output", c, i>> \in O
    BY <2>1
  <2>3. QED
    BY <2>2
<1>4. ASSUME NEW c \in Conns, b \in Items(wait[c]) PROVE W # {}
  <2>1. PICK i \in At(b, wait[c]) : TRUE
    BY <1>4 DEF At, Items
  <2>2. <<"wait", c, i>> \in W
    BY <2>1
  <2>3. QED
    BY <2>2
<1>5. ASSUME NEW a \in Buffers, b \in Items(buf[a].to_wake) PROVE K # {}
  <2>1. PICK i \in At(b, buf[a].to_wake) : TRUE
    BY <1>5 DEF At, Items
  <2>2. <<"to_wake", a, i>> \in K
    BY <2>1
  <2>3. QED
    BY <2>2
<1>6. ASSUME NEW c \in Conns, \/ reader[c].b = b /\ reader[c].pc \in Owning
                              \/ reader[c].p = b \/ writer[c].b = b
      PROVE  R \cup F \cup V # {}
  BY <1>6
<1>7. ASSUME NEW w \in Workers, (worker[w].b = b /\ worker[w].pc \in Has) \/ worker[w].r = b
      PROVE  G \cup Q # {}
  BY <1>7 DEF Has
<1> HIDE DEF T, O, W, K, S0, S1, H, R, F, G, Q, V
<1>8. QED
  BY <1>0, <1>1, <1>2, <1>3, <1>4, <1>5, <1>6, <1>7 DEF Placed

LEMMA PlacedOnce == Own /\ PlaceInv => OnePlace
<1> SUFFICES ASSUME Own, PlaceInv, NEW b \in Buffers PROVE Cardinality(Places(b)) = 1
  BY DEF OnePlace
<1>1. PICK p : p \in Places(b)
  BY PlacedSomewhere DEF PlaceInv
<1>2. Places(b) = {p}
  BY <1>1, PlacesSame
<1>3. QED
  BY <1>2, FS_Singleton

(* As long as no connection breaks, no buffer is lost and none is in two   *)
(* places: what comm_buf_get() gives out comes back through                *)
(* comm_buf_free(), whatever the handlers ask the kernels meanwhile.       *)
THEOREM EveryBufferInOnePlace == Orderly => (Spec => []OnePlace)
<1> SUFFICES ASSUME Orderly PROVE Spec => []OnePlace
  OBVIOUS
<1>1. OrderlyInv /\ PlaceInv /\ [Next]_vars => OrderlyInv' /\ PlaceInv'
  BY NextOrderly, NextPlaces
<1>2. OrderlyInv /\ PlaceInv => OnePlace
  BY PlacedOnce DEF OrderlyInv
<1>3. QED
  BY <1>1, <1>2, InitOrderly, InitPlaces, PTL DEF Spec

=============================================================================
