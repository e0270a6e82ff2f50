-------------------------------- MODULE Comm --------------------------------
(***************************************************************************)
(* The threads of Constable and the buffers they pass to each other.       *)
(*                                                                         *)
(* Every connection to a kernel has a reader and a writer thread; two      *)
(* workers serve all connections.  A message is read into a buffer; a      *)
(* query travels in that buffer through the global todo queue to a worker, *)
(* which runs do_event(), sends the subject back (update), sends the       *)
(* answer and frees the buffer.  A handler that fetches or updates a       *)
(* kernel object leaves its buffer on wait_for_answer; the reader puts it  *)
(* back on todo when the kernel's answer comes.  While _init() runs, all   *)
(* queries of the connection wait on to_wake of the _init() buffer.        *)
(*                                                                         *)
(* One action is what a thread does between two points where another       *)
(* thread can see the difference: a queue operation, taking or giving up   *)
(* a lock, a message leaving or arriving.                                  *)
(***************************************************************************)
EXTENDS Integers, Sequences, FiniteSets

CONSTANTS
  Conns,        \* connections (struct comm_s), in the order of first_comm
  FirstConn,    \* the head of that list
  Workers,      \* comm_worker() threads
  Requests,     \* decision requests the kernels send
  ConnOf,       \* the connection a request comes from
  ObjectsOf,    \* connection -> those whose objects its handlers fetch and update
  HasSubject,   \* requests whose subject is sent back before the answer
  Verdicts,     \* results of do_event(); "ERR" is RESULT_ERR < 0
  FunctionInit, \* whether the configuration defines _init(): what may be the case
  Versions,     \* protocol versions a greeting may give
  VarData,      \* comm_var_data_size > 0: some tree tracks hierarchy
  Pool0, Pool1, \* preallocated buffers of 4096 and of 8192 bytes
  Heap,         \* buffers malloc() may return (a bound: large enough to go on)
  MaxOps,       \* bound on the fetches and updates of one request ...
  MaxInitOps,   \* ... and of one _init()
  Unruly,       \* what a kernel may do that the protocol does not provide for
  None

Buffers == Pool0 \cup Pool1 \cup Heap
Kinds   == {"fetch", "update"}

ASSUME CommAssumption ==
  /\ FirstConn \in Conns
  /\ ConnOf \in [Requests -> Conns]
  /\ ObjectsOf \in [Conns -> SUBSET Conns]
  /\ HasSubject \subseteq Requests
  /\ FunctionInit \subseteq BOOLEAN /\ VarData \in BOOLEAN
  /\ Versions \subseteq Nat /\ MaxOps \in Nat /\ MaxInitOps \in Nat
  /\ Buffers \subseteq Nat /\ IsFiniteSet(Buffers)
  /\ Pool0 \cap Pool1 = {} /\ Heap \cap (Pool0 \cup Pool1) = {}
  /\ Unruly \subseteq {"early query", "stray answer", "hangup", "unfit types"}
  /\ Conns \cap Workers = {}
  /\ \A S \in {Buffers, Conns, Workers, Requests, Verdicts, Kinds} : None \notin S

(* NULL is no message. *)
ASSUME MessageAssumption ==
  None \notin [comm : Conns, kind : Kinds, seq : Nat] \cup [kind : {"ready"}]
    \cup [kind : {"answer"}, req : Requests \cup {None}, verdict : Verdicts \cup {None}]

VARIABLES
  \* shared memory
  buf,          \* the buffers (struct comm_buffer_s)
  mem,          \* buffers[0], buffers[1] and what malloc() has left
  todo,         \* comm_todo
  conn,         \* per connection: state, init_buffer, fd, open_counter, version;
                \* and function_init # NULL, which is one for all connections
  state_lock,   \* holder of comm->state_lock
  output,       \* per connection: queue for the writer ...
  output_sem,   \* ... and its semaphore
  wait,         \* per connection: wait_for_answer
  ids,          \* the static id counters of fetch and update
  \* threads
  reader, worker, writer,
  status,       \* "running", or how the process ended
  \* the kernels, and what they were told
  asked,        \* operations sent to a kernel and not answered yet
  told,         \* operation -> what its kernel answered
  seen,         \* requests sent to Constable
  answered,     \* request -> verdicts received for it
  ready,        \* connection -> READY_ANSWERs received
  \* history
  started,      \* request -> how often do_event() began from phase 0
  decided,      \* request -> verdict when do_phase became 1000
  initDone      \* connections whose _init() has finished

shared  == <<buf, mem, todo, conn, state_lock, output, output_sem, wait, ids>>
kernel  == <<asked, seen, answered, ready>>
history == <<started, decided, initDone>>
vars    == <<shared, reader, worker, writer, status, kernel, told, history>>

-----------------------------------------------------------------------------
(* Buffers.                                                                *)

(* A queue of buffers is a list; its items are never seen outside of it.   *)
comm_buf_to_queue(q, b) == Append(q, b)
comm_buf_from_queue(q) == Tail(q)

(* malloc_buf(): all zero *)
Blank == [comm |-> None, open |-> 0, phase |-> 0, init |-> FALSE,
          req |-> None, verdict |-> None, to_wake |-> <<>>, ops |-> 0,
          waiting |-> [to |-> None, seq |-> 0], op |-> None,
          user_data |-> None, lock |-> None, room |-> TRUE, msg |-> None]

(* comm_buf_get(): buffers[0], then buffers[1], then malloc().             *)
Fresh(m) ==
  IF m.slot0 # <<>> THEN Head(m.slot0)
  ELSE IF m.slot1 # <<>> THEN Head(m.slot1)
  ELSE CHOOSE h \in m.heap : TRUE

(* The bound on malloc(): the model stops where Heap is used up.           *)
Available(m) == m.slot0 # <<>> \/ m.slot1 # <<>> \/ m.heap # {}

Taken(m) ==
  IF m.slot0 # <<>> THEN [m EXCEPT !.slot0 = Tail(@)]
  ELSE IF m.slot1 # <<>> THEN [m EXCEPT !.slot1 = Tail(@)]
  ELSE [m EXCEPT !.heap = @ \ {Fresh(m)}]

Put(m, b) ==
  IF b \in Pool0 THEN [m EXCEPT !.slot0 = <<b>> \o @]
  ELSE IF b \in Pool1 THEN [m EXCEPT !.slot1 = <<b>> \o @]
  ELSE [m EXCEPT !.heap = @ \cup {b}]

(* comm_buf_init() for connection c. *)
For(c) == [Blank EXCEPT !.comm = c, !.open = conn[c].open]

(* A buffer that carries message m to the writer of c. *)
Outgoing(c, m) == [For(c) EXCEPT !.msg = m]

(* Mutation: nobody is told that _init() is over. *)
SendsReady_Never(b) == FALSE /\ b = b

SendsReady(b) ==
  /\ buf[b].comm # None
  /\ conn[buf[b].comm].function_init
  /\ conn[buf[b].comm].version > 2
  /\ conn[buf[b].comm].init_buffer = b

(* comm_buf_free(): wake the waiting queries, tell the kernel that _init() *)
(* is over if this is its buffer, give the buffer back.  bufs, m and out   *)
(* are what buf, mem and output are at that point of the caller.           *)
Free(b, bufs, m, out) ==
  LET c == bufs[b].comm
      r == Fresh(m)
  IN  /\ todo' = todo \o bufs[b].to_wake
      /\ told' = [o \in DOMAIN told \ {bufs[b].op} |-> told[o]]
      /\ IF SendsReady(b)
         THEN /\ Available(m)
              /\ mem' = Put(Taken(m), b)
              /\ buf' = [bufs EXCEPT ![b] = Blank,
                           ![r] = Outgoing(c, [kind |-> "ready"])]
              /\ output' = [out EXCEPT ![c] = comm_buf_to_queue(@, r)]
              /\ output_sem' = [output_sem EXCEPT ![c] = @ + 1]
         ELSE /\ mem' = Put(m, b)
              /\ buf' = [bufs EXCEPT ![b] = Blank]
              /\ output' = out
              /\ UNCHANGED output_sem

-----------------------------------------------------------------------------
(* Threads.                                                                *)

ReaderIdle == [pc |-> "get",  b |-> None, p |-> None, msg |-> None]
WorkerIdle == [pc |-> "idle", b |-> None, r |-> None, phase |-> 0]
WriterIdle == [pc |-> "wait", b |-> None]

(* The elements of S, in order: what buffers_alloc() leaves in a slot.     *)
Listings(S) ==
  {s \in [1..Cardinality(S) -> S] : \A i, j \in DOMAIN s : i < j => s[i] < s[j]}

(* After mcp_receive_greeting() of every connection and the start of the   *)
(* threads by comm_do().                                                   *)
Init ==
  /\ buf = [b \in Buffers |-> Blank]
  /\ mem \in [slot0 : Listings(Pool0), slot1 : Listings(Pool1), heap : {Heap}]
  /\ todo = <<>>
  /\ \E defined \in FunctionInit :
       conn \in [Conns -> [state : {0}, init_buffer : {None}, fd : {TRUE}, open : {1},
                           version : Versions, function_init : {defined}]]
  /\ state_lock = [c \in Conns |-> None]
  /\ output = [c \in Conns |-> <<>>]
  /\ output_sem = [c \in Conns |-> 0]
  /\ wait = [c \in Conns |-> <<>>]
  /\ ids = [k \in Kinds |-> 2]
  /\ reader = [c \in Conns |-> ReaderIdle]
  /\ worker = [w \in Workers |-> WorkerIdle]
  /\ writer = [c \in Conns |-> WriterIdle]
  /\ status = "running"
  /\ asked = {} /\ told = <<>>
  /\ seen = {}
  /\ answered = [r \in Requests |-> <<>>]
  /\ ready = [c \in Conns |-> 0]
  /\ started = [r \in Requests |-> 0]
  /\ decided = [r \in Requests |-> None]
  /\ initDone = {}

ReaderAt(c, pc) == status = "running" /\ reader[c].pc = pc
WorkerAt(w, pc) == status = "running" /\ worker[w].pc = pc
WriterAt(c, pc) == status = "running" /\ writer[c].pc = pc

(* exit() by fatal(), a crash, or main() returning. *)
Ends(how) ==
  /\ status' = how
  /\ UNCHANGED <<shared, reader, worker, writer, kernel, told, history>>

-----------------------------------------------------------------------------
(* The reader: mcp_read_worker() and the mcp_r_* functions.                *)

(* A buffer for the next message. *)
ReaderGets(c) ==
  /\ ReaderAt(c, "get")
  /\ Available(mem)
  /\ LET b == Fresh(mem) IN
     /\ mem' = Taken(mem)
     /\ buf' = [buf EXCEPT ![b] = For(c)]
     /\ reader' = [reader EXCEPT ![c].pc = "recv", ![c].b = b]
  /\ UNCHANGED <<todo, conn, state_lock, output, output_sem, wait, ids,
                 worker, writer, status, kernel, told, history>>

(* The kernel's next message is in the buffer. *)
Reads(c, pc, msg) ==
  /\ reader' = [reader EXCEPT ![c].pc = pc, ![c].msg = msg]
  /\ UNCHANGED <<shared, worker, writer, status, history>>

(* MEDUSA_COMM_READY_REQUEST, once, from kernels of protocol 3. *)
ReadsReadyRequest(c) ==
  /\ ReaderAt(c, "recv")
  /\ conn[c].version > 2
  /\ conn[c].state = 0
  /\ Reads(c, "ready", None)
  /\ UNCHANGED <<kernel, told>>

ReadsQuery(c) ==
  /\ ReaderAt(c, "recv")
  /\ conn[c].version < 3 \/ conn[c].state = 1 \/ "early query" \in Unruly
  /\ \E r \in Requests \ seen :
       /\ ConnOf[r] = c
       /\ seen' = seen \cup {r}
       /\ Reads(c, "query", r)
  /\ UNCHANGED <<asked, told, answered, ready>>

(* The answer to any operation the kernel was asked for; it need not be    *)
(* the oldest one.                                                         *)
ReadsAnswer(c) ==
  /\ ReaderAt(c, "recv")
  /\ \E o \in asked, out \in {"ok", "error"} :
       /\ o.comm = c
       /\ asked' = asked \ {o}
       /\ told' = [x \in DOMAIN told \cup {o} |-> IF x = o THEN out ELSE told[x]]
       /\ Reads(c, "answer", [op |-> o, outcome |-> out])
  /\ UNCHANGED <<seen, answered, ready>>

(* An answer nobody asked for. *)
ReadsStrayAnswer(c) ==
  /\ ReaderAt(c, "recv")
  /\ "stray answer" \in Unruly
  /\ \E k \in Kinds :
       Reads(c, "answer", [op |-> [comm |-> c, kind |-> k, seq |-> 1],
                           outcome |-> "ok"])
  /\ UNCHANGED <<kernel, told>>

(* End of file or an error, also in the middle of a fetched object: the    *)
(* descriptor is closed by the mcp_close() that follows.                   *)
ReadFails(c) ==
  /\ ReaderAt(c, "recv") \/ ReaderAt(c, "body")
  /\ "hangup" \in Unruly \/ ~conn[c].fd
  /\ reader' = [reader EXCEPT ![c].pc = "close"]
  /\ conn' = [conn EXCEPT ![c].fd = FALSE]
  /\ UNCHANGED <<buf, mem, todo, state_lock, output, output_sem, wait, ids,
                 worker, writer, status, kernel, told, history>>

(* comm_conn_init(): the connection is usable; _init(), if defined, is     *)
(* scheduled and the queries that follow will wait for it.                 *)
InitBuffer(c, p) == [For(c) EXCEPT !.init = TRUE, !.room = p \notin Heap]

ConnInit(c, bufs) ==
  IF conn[c].function_init
  THEN LET p == Fresh(mem) IN
       /\ Available(mem)
       /\ mem' = Taken(mem)
       /\ conn' = [conn EXCEPT ![c].state = 1, ![c].init_buffer = p]
       /\ todo' = comm_buf_to_queue(todo, p)
       /\ buf' = [bufs EXCEPT ![p] = InitBuffer(c, p)]
  ELSE /\ conn' = [conn EXCEPT ![c].state = 1]
       /\ buf' = bufs
       /\ UNCHANGED <<mem, todo>>

(* mcp_r_ready_request() initialises the connection ... *)
ReadyRequest(c) ==
  /\ ReaderAt(c, "ready")
  /\ state_lock[c] = None
  /\ ConnInit(c, buf)
  /\ reader' = [reader EXCEPT
       ![c].pc = IF conn[c].function_init THEN "free" ELSE "readyanswer"]
  /\ UNCHANGED <<state_lock, output, output_sem, wait, ids, worker, writer,
                 status, kernel, told, history>>

(* ... and answers at once if there is no _init(). *)
ReadyAnswer(c) ==
  /\ ReaderAt(c, "readyanswer")
  /\ Available(mem)
  /\ LET r == Fresh(mem) IN
     /\ mem' = Taken(mem)
     /\ buf' = [buf EXCEPT ![r] = Outgoing(c, [kind |-> "ready"])]
     /\ output' = [output EXCEPT ![c] = comm_buf_to_queue(@, r)]
     /\ output_sem' = [output_sem EXCEPT ![c] = @ + 1]
  /\ reader' = [reader EXCEPT ![c].pc = "free"]
  /\ UNCHANGED <<todo, conn, state_lock, wait, ids, worker, writer, status,
                 kernel, told, history>>

(* mcp_r_query().  The first query of protocol 2 initialises the           *)
(* connection; it keeps state_lock, so it is the first to wait for _init().*)
QueryInits(c) ==
  /\ ReaderAt(c, "query")
  /\ state_lock[c] = None
  /\ conn[c].state = 0 /\ conn[c].version < 3
  /\ ConnInit(c, buf)
  /\ state_lock' = [state_lock EXCEPT ![c] = c]
  /\ UNCHANGED <<output, output_sem, wait, ids, reader, worker, writer, status,
                 kernel, told, history>>

(* A query before the connection is initialised is an error in protocol 3. *)
QueryRefused(c) ==
  /\ ReaderAt(c, "query")
  /\ state_lock[c] = None
  /\ conn[c].state = 0 /\ conn[c].version >= 3
  /\ reader' = [reader EXCEPT ![c].pc = "close"]
  /\ conn' = [conn EXCEPT ![c].fd = FALSE]
  /\ UNCHANGED <<buf, mem, todo, state_lock, output, output_sem, wait, ids,
                 worker, writer, status, kernel, told, history>>

(* comm_conn_init() fails before it touches state: what the kernel defined *)
(* does not fit the configuration (space_init_event_mask(),                *)
(* class_comm_init()).  The caller returns READ_ERROR.                     *)
InitRefused(c) ==
  /\ "unfit types" \in Unruly
  /\ \/ ReaderAt(c, "ready")
     \/ /\ ReaderAt(c, "query")
        /\ state_lock[c] = None
        /\ conn[c].state = 0 /\ conn[c].version < 3
  /\ reader' = [reader EXCEPT ![c].pc = "close"]
  /\ conn' = [conn EXCEPT ![c].fd = FALSE]
  /\ UNCHANGED <<buf, mem, todo, state_lock, output, output_sem, wait, ids,
                 worker, writer, status, kernel, told, history>>

(* Mutation: the query does not wait for _init(). *)
QueryWaits_Never(c) ==
  /\ ReaderAt(c, "query")
  /\ state_lock[c] \in {None, c}
  /\ conn[c].state = 1 /\ conn[c].init_buffer # None
  /\ buf' = [buf EXCEPT ![reader[c].b].req = reader[c].msg]
  /\ reader' = [reader EXCEPT ![c].pc = "todo"]
  /\ state_lock' = [state_lock EXCEPT ![c] = None]
  /\ UNCHANGED <<mem, todo, conn, output, output_sem, wait, ids,
                 worker, writer, status, kernel, told, history>>

(* init_buffer points to memory that was given back with free(), whoever   *)
(* may have it by now.                                                     *)
Dangles(c) ==
  LET p == conn[c].init_buffer
  IN  p \in Heap /\ ~(buf[p].init /\ buf[p].comm = c)

(* _init() has not finished: the query waits on its buffer. *)
QueryWaits(c) ==
  /\ ReaderAt(c, "query")
  /\ state_lock[c] \in {None, c}
  /\ conn[c].state = 1 /\ conn[c].init_buffer # None /\ ~Dangles(c)
  /\ LET b == reader[c].b IN
     buf' = [buf EXCEPT ![b].req = reader[c].msg,
               ![conn[c].init_buffer].to_wake = comm_buf_to_queue(@, b)]
  /\ reader' = [reader EXCEPT ![c].pc = "check"]
  /\ state_lock' = [state_lock EXCEPT ![c] = None]
  /\ UNCHANGED <<mem, todo, conn, output, output_sem, wait, ids,
                 worker, writer, status, kernel, told, history>>

(* The buffer of _init() has moved (Resizes): the query is put on a queue  *)
(* in freed memory, which is undefined.                                    *)
QueryDangles(c) ==
  /\ ReaderAt(c, "query")
  /\ state_lock[c] \in {None, c}
  /\ conn[c].state = 1 /\ conn[c].init_buffer # None /\ Dangles(c)
  /\ Ends("dangling")

(* state_lock is released before the query is queued. *)
QueryPasses(c) ==
  /\ ReaderAt(c, "query")
  /\ state_lock[c] \in {None, c}
  /\ conn[c].state = 1 /\ conn[c].init_buffer = None
  /\ buf' = [buf EXCEPT ![reader[c].b].req = reader[c].msg]
  /\ reader' = [reader EXCEPT ![c].pc = "todo"]
  /\ state_lock' = [state_lock EXCEPT ![c] = None]
  /\ UNCHANGED <<mem, todo, conn, output, output_sem, wait, ids,
                 worker, writer, status, kernel, told, history>>

QueryQueued(c) ==
  /\ ReaderAt(c, "todo")
  /\ todo' = comm_buf_to_queue(todo, reader[c].b)
  /\ reader' = [reader EXCEPT ![c].pc = "check"]
  /\ UNCHANGED <<buf, mem, conn, state_lock, output, output_sem, wait, ids,
                 worker, writer, status, kernel, told, history>>

(* Where a reader still owns the buffer it names. *)
Owning == {"recv", "query", "todo", "answer", "body", "ready", "readyanswer",
           "free", "close", "closing", "fail"}

(* mcp_read_loop() looks at "completed" again although the query is no    *)
(* longer its own.  It is NULL unless another reader reads into the buffer *)
(* by now: then two threads fill one buffer, which is undefined.           *)
ReaderChecks(c) ==
  /\ ReaderAt(c, "check")
  /\ IF \E d \in Conns \ {c} : reader[d].b = reader[c].b /\ reader[d].pc \in Owning
     THEN Ends("undefined")
     ELSE /\ reader' = [reader EXCEPT ![c] = ReaderIdle]
          /\ UNCHANGED <<shared, worker, writer, status, kernel, told, history>>

(* Mutation: what the buffer waits for is not compared. *)
Waiters_AnyKind(c, op) ==
  {i \in DOMAIN wait[c] : buf[wait[c][i]].waiting.seq = op.seq}

(* Whose answer it is: the first match. *)
Waiters(c, op) ==
  {i \in DOMAIN wait[c] :
     buf[wait[c][i]].waiting = [to |-> op.kind, seq |-> op.seq]}

Match(c, op) == CHOOSE i \in Waiters(c, op) : \A j \in Waiters(c, op) : i <= j

Waiter(c, op) == wait[c][Match(c, op)]

(* Mutation: the buffer stays on wait_for_answer. *)
NoLongerWaits_Stays(c, op) == wait' = wait /\ c = c /\ op = op

(* comm_buf_del(): one item is taken out of the list. *)
Without(q, i) == [j \in 1..(Len(q) - 1) |-> IF j < i THEN q[j] ELSE q[j + 1]]

NoLongerWaits(c, op) == wait' = [wait EXCEPT ![c] = Without(@, Match(c, op))]

(* The buffer is back on todo, with the outcome its handler will see. *)
Wake(p, out) ==
  /\ buf' = [buf EXCEPT ![p].user_data = out, ![p].waiting.to = None]
  /\ todo' = comm_buf_to_queue(todo, p)

AnswerRead(c, kind) == ReaderAt(c, "answer") /\ reader[c].msg.op.kind = kind

(* mcp_r_update_answer() *)
UpdateAnswered(c) ==
  /\ AnswerRead(c, "update")
  /\ Waiters(c, reader[c].msg.op) # {}
  /\ LET p == Waiter(c, reader[c].msg.op) IN
     /\ NoLongerWaits(c, reader[c].msg.op)
     /\ Wake(p, reader[c].msg.outcome)
  /\ reader' = [reader EXCEPT ![c].pc = "free"]
  /\ UNCHANGED <<mem, conn, state_lock, output, output_sem, ids, worker, writer,
                 status, kernel, told, history>>

(* mcp_r_fetch_answer(), MEDUSA_COMM_FETCH_ERROR: the outcome was preset,  *)
(* a waiter that is gone is nothing to worry about.                        *)
FetchFailed(c) ==
  /\ AnswerRead(c, "fetch")
  /\ reader[c].msg.outcome = "error"
  /\ IF Waiters(c, reader[c].msg.op) # {}
     THEN LET p == Waiter(c, reader[c].msg.op) IN
          /\ NoLongerWaits(c, reader[c].msg.op)
          /\ todo' = comm_buf_to_queue(todo, p)
     ELSE UNCHANGED <<wait, todo>>
  /\ reader' = [reader EXCEPT ![c].pc = "free"]
  /\ UNCHANGED <<buf, mem, conn, state_lock, output, output_sem, ids, worker,
                 writer, status, kernel, told, history>>

(* mcp_r_fetch_answer(), MEDUSA_COMM_FETCH_ANSWER: the object that follows *)
(* is read into the place the handler gave.                                *)
FetchAnswered(c) ==
  /\ AnswerRead(c, "fetch")
  /\ reader[c].msg.outcome = "ok"
  /\ Waiters(c, reader[c].msg.op) # {}
  /\ LET p == Waiter(c, reader[c].msg.op) IN
     /\ NoLongerWaits(c, reader[c].msg.op)
     /\ reader' = [reader EXCEPT ![c].pc = "body", ![c].p = p]
  /\ UNCHANGED <<buf, mem, todo, conn, state_lock, output, output_sem, ids,
                 worker, writer, status, kernel, told, history>>

(* Mutation: the preset error outcome stays. *)
FetchDone_KeepsPreset(c) ==
  /\ ReaderAt(c, "body")
  /\ Wake(reader[c].p, buf[reader[c].p].user_data)
  /\ reader' = [reader EXCEPT ![c].pc = "free", ![c].p = None]
  /\ UNCHANGED <<mem, conn, state_lock, output, output_sem, wait, ids, worker,
                 writer, status, kernel, told, history>>

(* mcp_r_fetch_answer_done() *)
FetchDone(c) ==
  /\ ReaderAt(c, "body")
  /\ Wake(reader[c].p, "ok")
  /\ reader' = [reader EXCEPT ![c].pc = "free", ![c].p = None]
  /\ UNCHANGED <<mem, conn, state_lock, output, output_sem, wait, ids, worker,
                 writer, status, kernel, told, history>>

(* fatal(): nobody is waiting for this answer.                             *)
AnswerUnexpected(c) ==
  /\ ReaderAt(c, "answer")
  /\ reader[c].msg.op.kind = "update" \/ reader[c].msg.outcome = "ok"
  /\ Waiters(c, reader[c].msg.op) = {}
  /\ Ends("fatal")

(* READ_FREE *)
ReaderFrees(c) ==
  /\ ReaderAt(c, "free")
  /\ Free(reader[c].b, buf, mem, output)
  /\ reader' = [reader EXCEPT ![c] = ReaderIdle]
  /\ UNCHANGED <<conn, state_lock, wait, ids, worker, writer, status, kernel,
                 history>>

-----------------------------------------------------------------------------
(* mcp_close(), called by a writer, by a reader whose read failed, and by  *)
(* that reader a second time.  The code holds a queue's lock while it      *)
(* empties the queue; one buffer per step only lets others be earlier.     *)

Draining(c) ==
  /\ status = "running"
  /\ reader[c].pc \in {"close", "close again"} \/ writer[c].pc = "close"

Dropping(c) ==
  /\ status = "running"
  /\ reader[c].pc \in {"closing", "closing again"} \/ writer[c].pc = "closing"

CloseOutput(c) ==
  /\ Draining(c)
  /\ output[c] # <<>> /\ ~SendsReady(Head(output[c]))
  /\ Free(Head(output[c]), buf, mem, [output EXCEPT ![c] = comm_buf_from_queue(@)])
  /\ UNCHANGED <<conn, state_lock, wait, ids, reader, worker, writer, status,
                 kernel, history>>

(* READY_ANSWER would be queued by the thread that holds output.lock. *)
CloseRelocks(c) ==
  /\ Draining(c)
  /\ output[c] # <<>> /\ SendsReady(Head(output[c]))
  /\ Ends("deadlocked")

CloseWait(c) ==
  /\ Dropping(c)
  /\ wait[c] # <<>>
  /\ Free(Head(wait[c]), buf, mem, output)
  /\ wait' = [wait EXCEPT ![c] = comm_buf_from_queue(@)]
  /\ UNCHANGED <<conn, state_lock, ids, reader, worker, writer, status, kernel,
                 history>>

(* The output queue is empty: go on to wait_for_answer. *)
Drained(c) ==
  /\ output[c] = <<>>
  /\ \/ /\ ReaderAt(c, "close")
        /\ reader' = [reader EXCEPT ![c].pc = "closing"]
        /\ UNCHANGED writer
     \/ /\ ReaderAt(c, "close again")
        /\ reader' = [reader EXCEPT ![c].pc = "closing again"]
        /\ UNCHANGED writer
     \/ /\ WriterAt(c, "close")
        /\ writer' = [writer EXCEPT ![c].pc = "closing"]
        /\ UNCHANGED reader
  /\ UNCHANGED <<shared, worker, status, kernel, told, history>>

(* Both are empty: open_counter goes down, once per call. *)
Closed(c) ==
  /\ wait[c] = <<>>
  /\ \/ /\ ReaderAt(c, "closing")
        /\ reader' = [reader EXCEPT ![c].pc = "fail"]
        /\ UNCHANGED writer
     \/ /\ ReaderAt(c, "closing again")
        /\ reader' = [reader EXCEPT ![c].pc = "dead"]
        /\ UNCHANGED writer
     \/ /\ WriterAt(c, "closing")
        /\ writer' = [writer EXCEPT ![c].pc = "dead"]
        /\ UNCHANGED reader
  /\ conn' = [conn EXCEPT ![c].open = @ - 1]
  /\ UNCHANGED <<buf, mem, todo, state_lock, output, output_sem, wait, ids,
                 worker, status, kernel, told, history>>

(* mcp_read_loop() frees the buffer, mcp_read_worker() closes again. *)
ReaderFails(c) ==
  /\ ReaderAt(c, "fail")
  /\ Free(reader[c].b, buf, mem, output)
  /\ reader' = [reader EXCEPT ![c] = [ReaderIdle EXCEPT !.pc = "close again"]]
  /\ UNCHANGED <<conn, state_lock, wait, ids, worker, writer, status, kernel,
                 history>>

(* comm_do() joins the reader of the first connection N_WORKER_THREADS     *)
(* times: the second join fails, comm_do() returns and main() ends.        *)
MainReturns ==
  /\ ReaderAt(FirstConn, "dead")
  /\ Ends("exited")

-----------------------------------------------------------------------------
(* The workers: comm_worker().                                             *)

WorkerTakes(w) ==
  /\ WorkerAt(w, "idle")
  /\ todo # <<>>
  /\ worker' = [worker EXCEPT ![w].pc = "got", ![w].b = Head(todo)]
  /\ todo' = comm_buf_from_queue(todo)
  /\ UNCHANGED <<buf, mem, conn, state_lock, output, output_sem, wait, ids,
                 reader, writer, status, kernel, told, history>>

(* Mutation: nobody takes b->lock. *)
Locks_Never(w) == WorkerAt(w, "got")

(* The worker may take b->lock. *)
Locks(w) == WorkerAt(w, "got") /\ buf[worker[w].b].lock = None

(* comm_alloc_var_data(): the buffer is too small, as is a malloc'ed one   *)
(* of _init(), and moves to another one; the old one is freed.             *)
Resizes(w) ==
  /\ Locks(w)
  /\ VarData /\ ~buf[worker[w].b].room
  /\ Available(mem)
  /\ LET b == worker[w].b
         n == Fresh(mem)
     IN /\ Free(b, [buf EXCEPT ![n] = [buf[b] EXCEPT !.room = TRUE],
                               ![b].to_wake = <<>>], Taken(mem), output)
        /\ worker' = [worker EXCEPT ![w].b = n]
  /\ UNCHANGED <<conn, state_lock, wait, ids, reader, writer, status, kernel,
                 history>>

(* ... and has b->lock and room for var_data. *)
Serves(w, b) == Locks(w) /\ worker[w].b = b /\ (VarData => buf[b].room)

(* fetch_object() or update_object() of an object of connection d: the     *)
(* buffer is registered as waiting, on its own connection, before the      *)
(* operation is queued for the writer of d.                                *)
Asks(w, b, d, k, phase) ==
  LET r  == Fresh(mem)
      op == [comm |-> d, kind |-> k, seq |-> ids[k]]
  IN  /\ Available(mem)
      /\ mem' = Taken(mem)
      /\ ids' = [ids EXCEPT ![k] = @ + 1]
      /\ buf' = [buf EXCEPT
           ![b] = [buf[b] EXCEPT !.lock = w, !.user_data = "error", !.op = op,
                            !.ops = @ + 1,
                            !.waiting = [to |-> k, seq |-> op.seq]],
           ![r] = Outgoing(d, op)]
      /\ wait' = [wait EXCEPT ![buf[b].comm] = comm_buf_to_queue(@, b)]
      /\ worker' = [worker EXCEPT ![w] =
                      [pc |-> "send", b |-> b, r |-> r, phase |-> phase]]
      /\ UNCHANGED <<todo, conn, state_lock, output, output_sem, reader, writer,
                     status, kernel, told>>

(* do_event() from do_phase 0 begins the walk through the handlers. *)
Begins(b) ==
  started' = IF buf[b].phase = 0 /\ ~buf[b].init
             THEN [started EXCEPT ![buf[b].req] = @ + 1]
             ELSE started

(* do_event(): a handler stops at a fetch or an update of an object, which *)
(* [name] of the language may have made one of another connection ...      *)
EventAsks(w) ==
  \E b \in Buffers, k \in Kinds, d \in Conns :
    /\ Serves(w, b)
    /\ buf[b].phase < 1000
    /\ buf[b].ops < IF buf[b].init THEN MaxInitOps ELSE MaxOps
    /\ d \in ObjectsOf[buf[b].comm]
    /\ Begins(b)
    /\ Asks(w, b, d, k, 1)
    /\ UNCHANGED <<decided, initDone>>

(* Mutation: the next worker starts over. *)
EventDecides_Again(w) ==
  \E b \in Buffers :
    /\ Serves(w, b)
    /\ buf[b].phase < 1000
    /\ buf' = [buf EXCEPT ![b].phase = 1]
    /\ todo' = comm_buf_to_queue(todo, b)
    /\ worker' = [worker EXCEPT ![w] = WorkerIdle]
    /\ UNCHANGED <<mem, conn, state_lock, output, output_sem, wait, ids, reader,
                   writer, status, kernel, told, history>>

(* ... or the last one returns: the next worker will answer. *)
EventDecides(w) ==
  \E b \in Buffers :
    /\ Serves(w, b)
    /\ buf[b].phase < 1000
    /\ Begins(b)
    /\ IF buf[b].init
       THEN /\ buf' = [buf EXCEPT ![b].phase = 1000]
            /\ initDone' = initDone \cup {buf[b].comm}
            /\ UNCHANGED decided
       ELSE \E v \in Verdicts :
              /\ buf' = [buf EXCEPT ![b] = [@ EXCEPT !.phase = 1000, !.verdict = v]]
              /\ decided' = [decided EXCEPT ![buf[b].req] = v]
              /\ UNCHANGED initDone
    /\ todo' = comm_buf_to_queue(todo, b)
    /\ worker' = [worker EXCEPT ![w] = WorkerIdle]
    /\ UNCHANGED <<mem, conn, state_lock, output, output_sem, wait, ids, reader,
                   writer, status, kernel, told>>

(* mcp_answer() sends the subject back first, if there is one and the      *)
(* result is not an error.                                                 *)
ToUpdate(b) == buf[b].phase = 1000 /\ buf[b].verdict # "ERR" /\ buf[b].req \in HasSubject

AnswerUpdates(w) ==
  \E b \in Buffers :
    /\ Serves(w, b)
    /\ ~buf[b].init
    /\ ToUpdate(b)
    /\ Asks(w, b, buf[b].comm, "update", 1003)
    /\ UNCHANGED history

(* The answer: whether the update succeeded does not matter. *)
AnswerSends(w) ==
  \E b \in Buffers :
    /\ Serves(w, b)
    /\ ~buf[b].init
    /\ buf[b].phase >= 1000 /\ ~ToUpdate(b)
    /\ LET c == buf[b].comm
           r == Fresh(mem)
           m == [kind |-> "answer", req |-> buf[b].req, verdict |-> buf[b].verdict]
       IN /\ Available(mem)
          /\ mem' = Taken(mem)
          /\ buf' = [buf EXCEPT ![b].lock = w, ![r] = Outgoing(c, m)]
          /\ output' = [output EXCEPT ![c] = comm_buf_to_queue(@, r)]
          /\ output_sem' = [output_sem EXCEPT ![c] = @ + 1]
    /\ worker' = [worker EXCEPT ![w].pc = "free"]
    /\ UNCHANGED <<todo, conn, state_lock, wait, ids, reader, writer, status,
                   kernel, told, history>>

WorkerFrees(w) ==
  /\ WorkerAt(w, "free")
  /\ Free(worker[w].b, buf, mem, output)
  /\ worker' = [worker EXCEPT ![w] = WorkerIdle]
  /\ UNCHANGED <<conn, state_lock, wait, ids, reader, writer, status, kernel,
                 history>>

(* Mutation: the writer is not told of the operation. *)
WorkerSends_NoPost(w) ==
  /\ WorkerAt(w, "send")
  /\ LET c == buf[worker[w].r].comm IN output' = [output EXCEPT ![c] = comm_buf_to_queue(@, worker[w].r)]
  /\ worker' = [worker EXCEPT ![w].pc = "park", ![w].r = None]
  /\ UNCHANGED <<buf, mem, todo, conn, state_lock, output_sem, wait, ids, reader,
                 writer, status, kernel, told, history>>

(* comm_buf_output_enqueue() of the operation. *)
WorkerSends(w) ==
  /\ WorkerAt(w, "send")
  /\ LET c == buf[worker[w].r].comm IN
     /\ output' = [output EXCEPT ![c] = comm_buf_to_queue(@, worker[w].r)]
     /\ output_sem' = [output_sem EXCEPT ![c] = @ + 1]
  /\ worker' = [worker EXCEPT ![w].pc = "park", ![w].r = None]
  /\ UNCHANGED <<buf, mem, todo, conn, state_lock, wait, ids, reader, writer,
                 status, kernel, told, history>>

(* do_phase is saved and b->lock released; the answer may be here already. *)
WorkerParks(w) ==
  /\ WorkerAt(w, "park")
  /\ buf' = [buf EXCEPT ![worker[w].b].phase = worker[w].phase,
                        ![worker[w].b].lock = None]
  /\ worker' = [worker EXCEPT ![w] = WorkerIdle]
  /\ UNCHANGED <<mem, todo, conn, state_lock, output, output_sem, wait, ids,
                 reader, writer, status, kernel, told, history>>

(* _init() is over: under state_lock the waiting queries are woken, ...    *)
InitWakes(w) ==
  \E b \in Buffers :
    /\ Serves(w, b)
    /\ buf[b].init /\ buf[b].phase >= 1000
    /\ state_lock[buf[b].comm] = None
    /\ state_lock' = [state_lock EXCEPT ![buf[b].comm] = w]
    /\ todo' = todo \o buf[b].to_wake
    /\ buf' = [buf EXCEPT ![b].to_wake = <<>>]
    /\ worker' = [worker EXCEPT ![w].pc = "initfree"]
    /\ UNCHANGED <<mem, conn, output, output_sem, wait, ids, reader, writer,
                   status, kernel, told, history>>

(* ... READY_ANSWER is sent and the buffer freed, ...                      *)
InitFrees(w) ==
  /\ WorkerAt(w, "initfree")
  /\ Free(worker[w].b, buf, mem, output)
  /\ worker' = [worker EXCEPT ![w] = [WorkerIdle EXCEPT !.pc = "initclear"]]
  /\ UNCHANGED <<conn, state_lock, wait, ids, reader, writer, status, kernel,
                 history>>

(* Mutation: init_buffer is not cleared. *)
InitClears_Keeps(w) ==
  /\ WorkerAt(w, "initclear")
  /\ \E c \in Conns :
       /\ state_lock[c] = w
       /\ state_lock' = [state_lock EXCEPT ![c] = None]
  /\ worker' = [worker EXCEPT ![w] = WorkerIdle]
  /\ UNCHANGED <<buf, mem, todo, conn, output, output_sem, wait, ids, reader,
                 writer, status, kernel, told, history>>

(* ... and only then init_buffer is cleared.                               *)
InitClears(w) ==
  /\ WorkerAt(w, "initclear")
  /\ \E c \in Conns :
       /\ state_lock[c] = w
       /\ conn' = [conn EXCEPT ![c].init_buffer = None]
       /\ state_lock' = [state_lock EXCEPT ![c] = None]
  /\ worker' = [worker EXCEPT ![w] = WorkerIdle]
  /\ UNCHANGED <<buf, mem, todo, output, output_sem, wait, ids, reader, writer,
                 status, kernel, told, history>>

-----------------------------------------------------------------------------
(* The writer: write_loop() and mcp_write().                               *)

WriterWaits(c) ==
  /\ WriterAt(c, "wait")
  /\ output_sem[c] > 0
  /\ output_sem' = [output_sem EXCEPT ![c] = @ - 1]
  /\ writer' = [writer EXCEPT ![c].pc = "take"]
  /\ UNCHANGED <<buf, mem, todo, conn, state_lock, output, wait, ids, reader,
                 worker, status, kernel, told, history>>

(* comm_buf_output_dequeue() returns NULL: mcp_close() was faster. *)
WriterFindsNull(c) ==
  /\ WriterAt(c, "take")
  /\ output[c] = <<>>
  /\ Ends("crashed")

First(c) == Head(output[c])
Current(c) == buf[First(c)].open = conn[c].open

(* A buffer from before the connection was closed. *)
WriterSkips(c) ==
  /\ WriterAt(c, "take")
  /\ output[c] # <<>> /\ ~Current(c)
  /\ Free(First(c), buf, mem, [output EXCEPT ![c] = comm_buf_from_queue(@)])
  /\ writer' = [writer EXCEPT ![c] = WriterIdle]
  /\ UNCHANGED <<conn, state_lock, wait, ids, reader, worker, status, kernel,
                 history>>

(* The kernel of c has the message. *)
Delivers(c, m) ==
  /\ answered' = IF m.kind = "answer"
                 THEN [answered EXCEPT ![m.req] = Append(@, m.verdict)]
                 ELSE answered
  /\ ready' = IF m.kind = "ready" THEN [ready EXCEPT ![c] = @ + 1] ELSE ready
  /\ asked' = IF m.kind \in Kinds THEN asked \cup {m} ELSE asked
  /\ UNCHANGED <<told, seen>>

WriterWrites(c) ==
  /\ WriterAt(c, "take")
  /\ output[c] # <<>> /\ Current(c)
  /\ conn[c].fd
  /\ Delivers(c, buf[First(c)].msg)
  /\ output' = [output EXCEPT ![c] = comm_buf_from_queue(@)]
  /\ writer' = [writer EXCEPT ![c] = [pc |-> "free", b |-> First(c)]]
  /\ UNCHANGED <<buf, mem, todo, conn, state_lock, output_sem, wait, ids, reader,
                 worker, status, history>>

WriterFrees(c) ==
  /\ WriterAt(c, "free")
  /\ Free(writer[c].b, buf, mem, output)
  /\ writer' = [writer EXCEPT ![c] = WriterIdle]
  /\ UNCHANGED <<conn, state_lock, wait, ids, reader, worker, status, kernel,
                 history>>

(* A write error: the connection is closed, the buffer is in nobody's      *)
(* hands any more.                                                         *)
WriterFails(c) ==
  /\ WriterAt(c, "take")
  /\ output[c] # <<>> /\ Current(c)
  /\ ~conn[c].fd \/ "hangup" \in Unruly
  /\ output' = [output EXCEPT ![c] = comm_buf_from_queue(@)]
  /\ writer' = [writer EXCEPT ![c] = [pc |-> "close", b |-> None]]
  /\ conn' = [conn EXCEPT ![c].fd = FALSE]
  /\ UNCHANGED <<buf, mem, todo, state_lock, output_sem, wait, ids, reader,
                 worker, status, kernel, told, history>>

-----------------------------------------------------------------------------
(* What a kernel sends of its own accord. *)
KernelMoves(c) ==
  \/ ReadsReadyRequest(c) \/ ReadsQuery(c) \/ ReadsStrayAnswer(c) \/ ReadFails(c)

ReaderStep(c) ==
  \/ ReaderGets(c) \/ ReadyRequest(c) \/ ReadyAnswer(c)
  \/ QueryInits(c) \/ QueryRefused(c) \/ InitRefused(c)
  \/ QueryWaits(c) \/ QueryDangles(c) \/ QueryPasses(c)
  \/ QueryQueued(c) \/ ReaderChecks(c)
  \/ UpdateAnswered(c) \/ FetchFailed(c) \/ FetchAnswered(c) \/ FetchDone(c)
  \/ AnswerUnexpected(c) \/ ReaderFrees(c) \/ ReaderFails(c)

CloseStep(c) ==
  \/ CloseOutput(c) \/ CloseRelocks(c) \/ CloseWait(c) \/ Drained(c) \/ Closed(c)

WorkerStep(w) ==
  \/ WorkerTakes(w) \/ Resizes(w) \/ EventAsks(w) \/ EventDecides(w)
  \/ AnswerUpdates(w) \/ AnswerSends(w) \/ WorkerFrees(w)
  \/ WorkerSends(w) \/ WorkerParks(w)
  \/ InitWakes(w) \/ InitFrees(w) \/ InitClears(w)

WriterStep(c) ==
  \/ WriterWaits(c) \/ WriterFindsNull(c) \/ WriterSkips(c)
  \/ WriterWrites(c) \/ WriterFrees(c) \/ WriterFails(c)

(* Nothing more to do: the process is gone, or every request is answered.  *)
Done ==
  /\ status # "running" \/ \A r \in Requests : answered[r] # <<>>
  /\ UNCHANGED vars

Next ==
  \/ \E c \in Conns :
       \/ KernelMoves(c) \/ ReadsAnswer(c) \/ ReaderStep(c)
       \/ CloseStep(c) \/ WriterStep(c)
  \/ \E w \in Workers : WorkerStep(w)
  \/ MainReturns
  \/ Done

(* Every thread runs, and a kernel answers the operations it is asked for. *)
Fairness ==
  /\ \A c \in Conns : /\ WF_vars(ReadsAnswer(c))
                      /\ WF_vars(ReaderStep(c))
                      /\ WF_vars(CloseStep(c))
                      /\ WF_vars(WriterStep(c))
  /\ \A w \in Workers : WF_vars(WorkerStep(w))

Spec == Init /\ [][Next]_vars /\ Fairness

-----------------------------------------------------------------------------
(* Safety.                                                                 *)

At(b, s) == {i \in DOMAIN s : s[i] = b}

(* Where buffer b is: in a queue, free, or in the hands of one thread.  A  *)
(* worker that asked the kernel keeps a pointer to a buffer that already   *)
(* waits, or is already answered: b->lock guards it, it is not the         *)
(* worker's any more.                                                      *)
Places(b) ==
  {<<"todo", None, i>> : i \in At(b, todo)}
  \cup (UNION {{<<"output", c, i>> : i \in At(b, output[c])} : c \in Conns})
  \cup (UNION {{<<"wait", c, i>> : i \in At(b, wait[c])} : c \in Conns})
  \cup (UNION {{<<"to_wake", a, i>> : i \in At(b, buf[a].to_wake)} : a \in Buffers})
  \cup {<<"slot0", None, i>> : i \in At(b, mem.slot0)}
  \cup {<<"slot1", None, i>> : i \in At(b, mem.slot1)}
  \cup {<<"heap", None, 0>> : h \in mem.heap \cap {b}}
  \cup {<<"reader", c, 0>> : c \in {c \in Conns : reader[c].b = b
                                               /\ reader[c].pc \in Owning}}
  \cup {<<"fetched", c, 0>> : c \in {c \in Conns : reader[c].p = b}}
  \cup {<<"worker", w, 0>> : w \in {w \in Workers : worker[w].b = b
                            /\ worker[w].pc \in {"got", "free", "initfree"}}}
  \cup {<<"request", w, 0>> : w \in {w \in Workers : worker[w].r = b}}
  \cup {<<"writer", c, 0>> : c \in {c \in Conns : writer[c].b = b}}

(* Every buffer is in exactly one place: none is queued twice, used after  *)
(* it was freed, or lost.                                                  *)
OnePlace == status = "running" => \A b \in Buffers : Cardinality(Places(b)) = 1

(* The same when connections break: buffers may be lost, but no buffer is  *)
(* ever in two places.                                                     *)
NoTwoPlaces ==
  status = "running" => \A b \in Buffers : Cardinality(Places(b)) <= 1

(* do_event() starts at the first handler once per request: a worker that  *)
(* gets the buffer back before do_phase was saved has to wait for b->lock. *)
BeginsOnce == \A r \in Requests : started[r] <= 1

(* An operation that was sent has exactly one buffer waiting for it, so no *)
(* answer of the kernel, in whatever order, is unexpected.  (So it is as   *)
(* long as handlers ask for objects of their own connection.)              *)
Pending(c) ==
  {o \in asked : o.comm = c}
    \cup {buf[output[c][i]].msg : i \in {i \in DOMAIN output[c] :
                                         buf[output[c][i]].msg.kind \in Kinds}}

WaiterKnown ==
  status # "fatal" /\ \A c \in Conns : \A o \in Pending(c) :
    Cardinality(Waiters(c, o)) = 1

(* A handler (or mcp_answer()) that is resumed sees the outcome the kernel *)
(* gave for its own operation: not the preset one, not another handler's.  *)
SeesOutcome ==
  \A w \in Workers : Locks(w) /\ buf[worker[w].b].phase \in {1, 1003} =>
    LET b == buf[worker[w].b] IN b.op \in DOMAIN told /\ b.user_data = told[b.op]

(* The semaphore of the writer counts the queue, as long as the connection *)
(* is open: dequeueing never finds the queue empty.                        *)
SemCounts ==
  \A c \in Conns : conn[c].fd =>
    output_sem[c] + (IF writer[c].pc = "take" THEN 1 ELSE 0) = Len(output[c])

(* A query that came before _init() finished waits on the buffer of        *)
(* _init() (comm.h, init_buffer): that buffer exists.                      *)
InitBufferLives == status # "dangling"

-----------------------------------------------------------------------------
(* Progress.                                                               *)

(* A kernel that asks whether Constable is ready is told so. *)
EveryReadyAnswered ==
  \A c \in Conns : (conn[c].version > 2 /\ conn[c].state = 1) ~> ready[c] > 0

=============================================================================
