---------------------------- MODULE ServiceProofs ----------------------------
(***************************************************************************)
(* The threads and buffers of Comm implement AuthService for kernels that  *)
(* keep their connections: proof, for any number of connections, workers,  *)
(* buffers, requests, fetches and updates, that every step of a thread is  *)
(* a step of the service or none.                                          *)
(*                                                                         *)
(* CommOrderly has the order of the threads; here is first the mail to the *)
(* kernels, from the worker that writes a message to the kernel that reads *)
(* it, then the refinement itself, and last the way of every operation     *)
(* from the handler that asks to the answer it goes on with.               *)
(***************************************************************************)
EXTENDS CommOrderly

-----------------------------------------------------------------------------
(* READY_ANSWER is sent when _init() is over, from another buffer.         *)
MailOK(b) ==
  buf[b].msg # None =>
    /\ ~buf[b].init
    /\ buf[b].msg.kind = "ready" => buf[b].comm \in Conns /\ Up(buf[b].comm) = "up"

(* What is queued for a writer is a message for its kernel, and what a     *)
(* worker is about to queue is an operation.                               *)
Outputs ==
  /\ \A c \in Conns : \A b \in Items(output[c]) : buf[b].comm = c /\ buf[b].msg # None
  /\ \A w \in Workers : worker[w].pc = "send" => buf[worker[w].r].msg \in Ops
  /\ \A b \in Buffers : MailOK(b)

(* Buffer a carries the message it carried.                                *)
SameMail(a) ==
  buf'[a].msg = buf[a].msg /\ buf'[a].comm = buf[a].comm /\ buf'[a].init = buf[a].init

(* No answer to a request is put into a.                                   *)
Plain(a) == ~IsAnswer(buf'[a].msg) /\ MailOK(a)'

(* No message to a kernel is lost, changed or made up on its way.          *)
MailMoves ==
  /\ \A c \in Conns : Up(c) = "up" => Up(c)' = "up"
  /\ \A a \in Buffers : SameMail(a) \/ MailOK(a)'
  /\ \A c \in Conns : \A a \in Items(output'[c]) :
       \/ a \in Items(output[c]) /\ SameMail(a)
       \/ buf'[a].comm = c /\ buf'[a].msg # None
  /\ \A w \in Workers : worker'[w].pc = "send" =>
       \/ worker[w].pc = "send" /\ worker'[w].r = worker[w].r /\ SameMail(worker[w].r)
       \/ buf'[worker'[w].r].msg \in Ops

(* No answer appears, and no request comes back.                           *)
ReplyMoves ==
  /\ UNCHANGED answered
  /\ \A r \in Requests : decided'[r] = decided[r] \/ decided[r] = None
  /\ \A a \in Buffers : IsAnswer(buf'[a].msg) =>
       /\ buf'[a].msg = buf[a].msg
       /\ \A c \in Conns : writer[c].b = a => writer'[c].b = a
  /\ \A b \in Buffers : buf'[b].req # None =>
       /\ buf'[b].req = buf[b].req \/ decided[buf'[b].req] = None
       /\ \A w \in Workers : worker[w].b = b /\ worker[w].pc = "free" => worker'[w] = worker[w]

LEMMA MailInv == ASSUME TypeOK, Outputs, MailMoves PROVE Outputs'
<1>1. \A c \in Conns : Items(output[c]) \subseteq Buffers
  BY ItemsTyped DEF TypeOK, OutputOK, Queues
<1>2. ASSUME NEW b \in Buffers PROVE MailOK(b)'
  <2>1. CASE MailOK(b)'
    BY <2>1
  <2>2. CASE SameMail(b)
    BY <2>2 DEF Outputs, MailOK, SameMail, MailMoves
  <2>3. QED
    BY <2>1, <2>2 DEF MailMoves
<1>3. QED
  BY <1>1, <1>2 DEF Outputs, MailMoves, SameMail
LEMMA ReplyInv ==
  ASSUME TypeOK, Replies, ReplyMoves
  PROVE  Replies'
<1>0. None \notin Buffers /\ None \notin Requests /\ None \notin Verdicts
  BY Others
<1> SUFFICES ASSUME NEW r \in Requests
             PROVE  /\ \A b \in Buffers : Owing(b, r)' =>
                         answered'[r] = <<>> /\ \A a \in Buffers : ~Replying(a, r)'
                    /\ \A a \in Buffers : Replying(a, r)' =>
                         /\ answered'[r] = <<>> /\ decided'[r] \in Verdicts
                         /\ buf'[a].msg.verdict = decided'[r]
                         /\ \A b \in Buffers : Replying(b, r)' => a = b
                    /\ decided'[r] = None =>
                         answered'[r] = <<>> /\ \A a \in Buffers : ~Replying(a, r)'
  BY DEF Replies
<1>1. ASSUME NEW a \in Buffers, Replying(a, r)' PROVE Replying(a, r) /\ buf'[a].msg = buf[a].msg
  BY <1>1 DEF ReplyMoves, Replying
<1>2. ASSUME NEW b \in Buffers, Owing(b, r)' PROVE Owing(b, r) \/ decided[r] = None
  <2>1. buf'[b].req = r /\ buf'[b].req # None
    BY <1>0, <1>2 DEF Owing
  <2>2. buf[b].req = r \/ decided[r] = None
    BY <2>1 DEF ReplyMoves
  <2>3. \A w \in Workers : ~(worker[w].b = b /\ worker[w].pc = "free")
    BY <1>2, <2>1 DEF ReplyMoves, Owing
  <2>4. QED
    BY <2>2, <2>3 DEF Owing
<1>3. answered' = answered /\ (decided'[r] = decided[r] \/ decided[r] = None)
  BY DEF ReplyMoves
<1>4. QED
  BY <1>0, <1>1, <1>2, <1>3 DEF Replies
(* A buffer with nothing for a kernel in it and no thread about to free it.*)
Spare(a) ==
  /\ \A c \in Conns : a \notin Items(output[c]) /\ writer[c].b # a
  /\ \A w \in Workers : worker[w].r # a /\ ~(worker[w].b = a /\ worker[w].pc = "free")

(* No request that was decided appears in a.                               *)
SameRequest(a) ==
  buf'[a].req \in {None, buf[a].req} \/ decided[buf'[a].req] = None

(* What was in a stays there, or nothing was.                              *)
Handled(a) ==
  \/ SameMail(a) /\ SameRequest(a)
  \/ Spare(a) /\ Plain(a) /\ buf'[a].req = None

(* A step that frees buffer f, or none: messages and requests stay.        *)
Passes(f) ==
  /\ UNCHANGED answered
  /\ \A r \in Requests : decided'[r] = decided[r] \/ decided[r] = None
  /\ \A c \in Conns : Up(c) = "up" => Up(c)' = "up"
  /\ \A a \in Buffers : IF a = f THEN buf'[a] = Blank ELSE Handled(a)
  /\ \A c \in Conns : \A a \in Items(output'[c]) :
       \/ a \in Items(output[c]) \ {f}
       \/ buf'[a].comm = c /\ buf'[a].msg # None
  /\ \A w \in Workers :
       /\ worker'[w].pc = "send" =>
            \/ worker[w].pc = "send" /\ worker'[w].r = worker[w].r /\ worker[w].r # f
            \/ buf'[worker'[w].r].msg \in Ops
       /\ worker[w].pc = "free" => worker'[w] = worker[w] \/ worker[w].b = f
  /\ \A c \in Conns :
       writer[c].b \in Buffers => writer'[c].b = writer[c].b \/ writer[c].b = f

LEMMA PassesMoves == ASSUME TypeOK, NEW f, Passes(f) PROVE MailMoves /\ ReplyMoves
<1>1. \A c \in Conns : Items(output[c]) \subseteq Buffers
  BY ItemsTyped DEF TypeOK, OutputOK, Queues
<1>2. \A w \in Workers : worker[w].pc = "send" => worker[w].r \in Buffers
  BY DEF TypeOK, WorkerOK
<1>3. Blank.msg = None /\ Blank.req = None
  BY DEF Blank
<1>4. \A a \in Buffers : SameMail(a) \/ Plain(a)
  BY <1>3 DEF Passes, Handled, Plain, IsAnswer, MailOK
<1>5. \A c \in Conns : \A a \in Items(output[c]) \ {f} : SameMail(a)
  BY <1>1 DEF Passes, Handled, Spare
<1>6. \A w \in Workers : worker[w].pc = "send" /\ worker[w].r # f => SameMail(worker[w].r)
  BY <1>2 DEF Passes, Handled, Spare
<1>7. MailMoves
  BY <1>4, <1>5, <1>6 DEF MailMoves, Passes, Plain
<1>8. ASSUME NEW a \in Buffers, IsAnswer(buf'[a].msg)
      PROVE  /\ buf'[a].msg = buf[a].msg
             /\ \A c \in Conns : writer[c].b = a => writer'[c].b = a
  <2>1. a # f /\ SameMail(a)
    BY <1>3, <1>8 DEF Passes, Handled, Plain, IsAnswer
  <2>2. QED
    BY <2>1 DEF SameMail, Passes
<1>9. ASSUME NEW b \in Buffers, buf'[b].req # None
      PROVE  /\ buf'[b].req = buf[b].req \/ decided[buf'[b].req] = None
             /\ \A w \in Workers : worker[w].b = b /\ worker[w].pc = "free" => worker'[w] = worker[w]
  <2>1. b # f /\ SameRequest(b)
    BY <1>3, <1>9 DEF Passes, Handled
  <2>2. QED
    BY <1>9, <2>1 DEF SameRequest, Passes
<1>10. ReplyMoves
  BY <1>8, <1>9 DEF ReplyMoves, Passes
<1>11. QED
  BY <1>7, <1>10

LEMMA FreshSpare ==
  ASSUME TypeOK, Own, Available(mem)
  PROVE  Fresh(mem) \in Buffers /\ Spare(Fresh(mem))
<1> DEFINE m == Fresh(mem)
<1>1. m \in Buffers /\ Slot(mem) \in Slots /\ Holds(Slot(mem), None, m)
  BY TakesFresh
<1>2. \A c \in Conns : m \in Items(output[c]) => Holds("output", c, m)
  BY DEF Holds, InOutput
<1>3. \A c \in Conns : writer[c].b = m => Holds("writer", c, m)
  BY DEF Holds, InWriter
<1>4. \A w \in Workers :
        /\ worker[w].r = m => Holds("request", w, m)
        /\ worker[w].b = m /\ worker[w].pc = "free" => Holds("worker", w, m)
  BY DEF Holds, InWorker
<1>5. Slot(mem) \notin {"output", "writer", "request", "worker"}
  BY <1>1 DEF Slots
<1> HIDE DEF m
<1>6. \A k, x : Holds(k, x, m) => k = Slot(mem)
  BY <1>1 DEF Own, Apart
<1>7. Spare(m)
  BY <1>1, <1>2, <1>3, <1>4, <1>5, <1>6 DEF Spare
<1>8. QED
  BY <1>1, <1>7 DEF m

LEMMA PlainMade ==
  ASSUME NEW a \in Buffers
  PROVE  /\ buf'[a].msg = None => Plain(a)
         /\ \A c, m : buf'[a] = Outgoing(c, m) /\ m.kind # "answer"
                       /\ (m.kind = "ready" => c \in Conns /\ Up(c)' = "up")
                       => Plain(a) /\ buf'[a].msg = m /\ buf'[a].comm = c /\ buf'[a].req = None
         /\ \A c : buf'[a] = For(c) => Plain(a) /\ buf'[a].req = None
BY DEF Plain, Outgoing, For, Blank, MailOK, IsAnswer

-----------------------------------------------------------------------------
(* No message to a kernel is lost or made up: every step.                  *)

(* READY_ANSWER goes to a connection whose _init() is over.                *)
LEMMA ReadyIsUp ==
  ASSUME TypeOK, OrderInv, InitBufferStays, NEW b \in Buffers, SendsReady(b)
  PROVE  buf[b].comm \in Conns /\ (Up(buf[b].comm) = "up" \/ buf[b].init)
<1> DEFINE c == buf[b].comm
<1>1. /\ c \in Conns /\ conn[c].function_init /\ conn[c].version > 2 /\ conn[c].init_buffer = b
  BY Others DEF SendsReady, TypeOK, BufOK, Contents
<1>2. b # None /\ ~(VarData /\ b \in Heap)
  BY <1>1, Others DEF InitBufferStays
<1>3. \/ buf[b].init
      \/ \E w \in Workers : state_lock[c] = w /\ worker[w].pc = "initclear"
  BY <1>1, <1>2 DEF OrderInv, InitBuffers
<1>4. ASSUME NEW w \in Workers, state_lock[c] = w PROVE c \in initDone
  BY <1>1, <1>4 DEF OrderInv, StateLocks, Ending
<1>5. conn[c].state = 1
  BY <1>1, <1>2 DEF OrderInv, InitBuffers
<1>6. QED
  BY <1>1, <1>3, <1>4, <1>5 DEF Up

LEMMA IdleReadyIsUp ==
  ASSUME TypeOK, OrderInv, InitBufferStays, NEW b \in Buffers, ~Busy(b)
  PROVE  SendsReady(b) => Up(buf[b].comm) = "up"
BY ReadyIsUp DEF OrderInv, Inits

(* Buffers by hand are in no other hand.                                   *)
LEMMA HeldOnce ==
  ASSUME TypeOK, Own, NEW b \in Buffers, NEW k, NEW x, Holds(k, x, b)
  PROVE  /\ k # "output" => \A c \in Conns : b \notin Items(output[c])
         /\ \A c \in Conns : b \in Items(output[c]) => x = c
         /\ k # "writer" => \A c \in Conns : writer[c].b # b
         /\ \A c \in Conns : writer[c].b = b => x = c
         /\ k # "request" => \A w \in Workers : worker[w].r # b
         /\ k # "worker" => \A w \in Workers : ~(worker[w].b = b /\ worker[w].pc = "free")
<1>1. \A c \in Conns : b \in Items(output[c]) => Holds("output", c, b)
  BY DEF Holds, InOutput
<1>2. \A c \in Conns : writer[c].b = b => Holds("writer", c, b)
  BY DEF Holds, InWriter
<1>3. \A w \in Workers : worker[w].r = b => Holds("request", w, b)
  BY DEF Holds, InWorker
<1>4. \A w \in Workers : worker[w].b = b /\ worker[w].pc = "free" => Holds("worker", w, b)
  BY DEF Holds, InWorker
<1>5. QED
  BY <1>1, <1>2, <1>3, <1>4 DEF Own, Apart

(* comm_buf_free(): the buffer is blank, and READY_ANSWER may be queued.   *)
LEMMA FreePasses ==
  ASSUME TypeOK, Own, NEW b \in Buffers, NEW out \in Queues, Free(b, buf, mem, out),
         NEW k, NEW x, Holds(k, x, b), k \notin Slots,
         SendsReady(b) => Up(buf[b].comm) = "up",
         UNCHANGED <<conn, initDone, answered, decided>>,
         \A c \in Conns : Items(out[c]) \subseteq Items(output[c]) \ {b},
         \A w \in Workers :
           /\ worker'[w].pc = "send" =>
                worker[w].pc = "send" /\ worker'[w].r = worker[w].r /\ worker[w].r # b
           /\ worker[w].pc = "free" => worker'[w] = worker[w] \/ worker[w].b = b,
         \A c \in Conns :
           writer[c].b \in Buffers => writer'[c].b = writer[c].b \/ writer[c].b = b
  PROVE  Passes(b)
<1>0. PICK c, r : c = buf[b].comm /\ r = Fresh(mem)
  OBVIOUS
<1> DEFINE y == Outgoing(c, [kind |-> "ready"])
<1>1. \A d : Up(d)' = Up(d)
  BY DEF Up
<1>2. CASE ~SendsReady(b)
  <2>1. buf' = [buf EXCEPT ![b] = Blank] /\ output' = out
    BY <1>2 DEF Free
  <2>2. \A a \in Buffers : IF a = b THEN buf'[a] = Blank ELSE buf'[a] = buf[a]
    BY <2>1 DEF TypeOK, BufOK
  <2>3. \A a \in Buffers : IF a = b THEN buf'[a] = Blank ELSE Handled(a)
    BY <2>2 DEF Handled, SameMail, SameRequest
  <2>4. QED
    BY <1>1, <2>1, <2>3 DEF Passes
<1>3. CASE SendsReady(b)
  <2>1. /\ Available(mem) /\ buf' = [buf EXCEPT ![b] = Blank, ![r] = y]
        /\ output' = [out EXCEPT ![c] = comm_buf_to_queue(@, r)]
    BY <1>0, <1>3 DEF Free
  <2>2. r \in Buffers /\ Spare(r)
    BY <1>0, <2>1, FreshSpare
  <2>3. r # b
    BY <1>0, <2>1, TakesFresh DEF Own, Apart
  <2>4. c \in Conns /\ Up(c) = "up"
    BY <1>0, <1>3, Others DEF SendsReady, TypeOK, BufOK, Contents
  <2> HIDE DEF y
  <2>5. /\ buf'[b] = Blank /\ buf'[r] = y
        /\ \A a \in Buffers \ {b, r} : buf'[a] = buf[a]
    BY <2>1, <2>2, <2>3 DEF TypeOK, BufOK
  <2>6. Plain(r) /\ buf'[r].comm = c /\ buf'[r].msg # None /\ buf'[r].req = None
    <3>1. \A m : m = [kind |-> "ready"] => m.kind = "ready"
      OBVIOUS
    <3>2. \A m : y = Outgoing(c, m) => y.comm = c /\ y.msg = m /\ y.req = None /\ y.init = FALSE
      BY DEF Outgoing, For, Blank
    <3>3. y.comm = c /\ y.msg = [kind |-> "ready"] /\ y.req = None /\ y.init = FALSE
      BY <3>2 DEF y
    <3>4. [kind |-> "ready"] # None
      BY MessageAssumption
    <3>5. y.msg.kind = "ready" /\ y.msg # None
      BY <3>1, <3>3, <3>4
    <3>6. \A d : d = c => Up(d)' = "up"
      BY <1>1, <2>4
    <3>7. /\ buf'[r].comm = c /\ buf'[r].msg # None /\ buf'[r].req = None
          /\ ~buf'[r].init /\ buf'[r].msg.kind = "ready"
      BY <2>5, <3>3, <3>5
    <3>8. MailOK(r)'
      BY <2>4, <3>6, <3>7 DEF MailOK
    <3>9. QED
      BY <3>7, <3>8 DEF Plain, IsAnswer
  <2>7. \A a \in Buffers : IF a = b THEN buf'[a] = Blank ELSE Handled(a)
    <3>1. \A a \in Buffers \ {b, r} : Handled(a)
      BY <2>5 DEF Handled, SameMail, SameRequest
    <3>2. Handled(r)
      BY <2>2, <2>6 DEF Handled
    <3>3. QED
      BY <2>5, <3>1, <3>2
  <2>8. \A d \in Conns : \A a \in Items(output'[d]) :
          \/ a \in Items(output[d]) \ {b}
          \/ buf'[a].comm = d /\ buf'[a].msg # None
    <3>1. \A d \in Conns : out[d] \in Seq(Buffers)
      BY DEF Queues
    <3>2. Items(output'[c]) = Items(out[c]) \cup {r}
      BY <2>1, <2>2, <2>4, <3>1, AppendItems DEF comm_buf_to_queue, Queues
    <3>3. \A d \in Conns \ {c} : output'[d] = out[d]
      BY <2>1 DEF Queues
    <3>4. QED
      BY <2>6, <3>2, <3>3
  <2>9. QED
    BY <1>1, <2>7, <2>8 DEF Passes
<1>4. QED
  BY <1>2, <1>3

LEMMA ReaderFreesPasses ==
  ASSUME TypeOK, Own, OrderInv, InitBufferStays, NEW c \in Conns, ReaderFrees(c)
  PROVE  \E f : Passes(f)
<1>0. PICK b : b = reader[c].b
  OBVIOUS
<1>1. /\ Free(b, buf, mem, output) /\ reader[c].pc = "free"
      /\ UNCHANGED <<conn, worker, writer, answered, decided, initDone>>
  BY <1>0 DEF ReaderFrees, ReaderAt, kernel, history
<1>2. b \in Buffers /\ ~Busy(b) /\ Holds("reader", c, b) /\ "reader" \notin Slots
  BY <1>0, <1>1, ReaderFits, ThreadsHave DEF Slots, Owning
<1>3. /\ \A d \in Conns : b \notin Items(output[d])
      /\ \A w \in Workers : worker[w].r # b
  BY <1>2, HeldOnce
<1>4. output \in Queues
  BY DEF TypeOK, OutputOK
<1>5. Passes(b)
  BY <1>1, <1>2, <1>3, <1>4, IdleReadyIsUp, FreePasses
<1>6. QED
  BY <1>5

LEMMA WorkerFreesPasses ==
  ASSUME TypeOK, Own, OrderInv, InitBufferStays, NEW w \in Workers, WorkerFrees(w)
  PROVE  \E f : Passes(f)
<1>0. PICK b : b = worker[w].b
  OBVIOUS
<1>1. /\ Free(b, buf, mem, output) /\ worker[w].pc = "free"
      /\ worker' = [worker EXCEPT ![w] = WorkerIdle]
      /\ UNCHANGED <<conn, writer, answered, decided, initDone>>
  BY <1>0 DEF WorkerFrees, WorkerAt, kernel, history
<1>2. b \in Buffers /\ ~Busy(b) /\ Holds("worker", w, b) /\ "worker" \notin Slots
  BY <1>0, <1>1, ServedKnown, NotBusyWorker DEF Slots, Own
<1>3. /\ \A d \in Conns : b \notin Items(output[d])
      /\ \A v \in Workers : worker[v].r # b
  BY <1>2, HeldOnce
<1>4. output \in Queues
  BY DEF TypeOK, OutputOK
<1>5. worker'[w].pc = "idle" /\ \A v \in Workers \ {w} : worker'[v] = worker[v]
  BY <1>1 DEF TypeOK, WorkerOK, WorkerIdle
<1>6. Passes(b)
  BY <1>0, <1>1, <1>2, <1>3, <1>4, <1>5, IdleReadyIsUp, FreePasses
<1>7. QED
  BY <1>6

LEMMA InitFreesPasses ==
  ASSUME TypeOK, Own, OrderInv, NEW w \in Workers, InitFrees(w)
  PROVE  \E f : Passes(f)
<1>0. PICK b : b = worker[w].b
  OBVIOUS
<1>1. /\ Free(b, buf, mem, output) /\ worker[w].pc = "initfree"
      /\ worker' = [worker EXCEPT ![w] = [WorkerIdle EXCEPT !.pc = "initclear"]]
      /\ UNCHANGED <<conn, writer, answered, decided, initDone>>
  BY <1>0 DEF InitFrees, WorkerAt, kernel, history
<1>2. /\ b \in Buffers /\ Holds("worker", w, b) /\ buf[b].comm \in Conns /\ "worker" \notin Slots
      /\ buf[b].init /\ state_lock[buf[b].comm] = w
  BY <1>0, <1>1, ServedKnown DEF OrderInv, StateLocks, Slots
<1>3. Up(buf[b].comm) = "up"
  BY <1>2 DEF OrderInv, Inits, StateLocks, Ending, Up
<1>4. /\ \A d \in Conns : b \notin Items(output[d])
      /\ \A v \in Workers : worker[v].r # b
  BY <1>2, HeldOnce
<1>5. output \in Queues
  BY DEF TypeOK, OutputOK
<1>6. worker'[w].pc = "initclear" /\ \A v \in Workers \ {w} : worker'[v] = worker[v]
  BY <1>1 DEF TypeOK, WorkerOK, WorkerIdle
<1>7. Passes(b)
  BY <1>0, <1>1, <1>2, <1>3, <1>4, <1>5, <1>6, FreePasses
<1>8. QED
  BY <1>7

LEMMA WriterFreesPasses ==
  ASSUME TypeOK, Own, OrderInv, InitBufferStays, NEW c \in Conns, WriterFrees(c)
  PROVE  \E f : Passes(f)
<1>0. PICK b : b = writer[c].b
  OBVIOUS
<1>1. /\ Free(b, buf, mem, output) /\ writer[c].pc = "free"
      /\ writer' = [writer EXCEPT ![c] = WriterIdle]
      /\ UNCHANGED <<conn, worker, answered, decided, initDone>>
  BY <1>0 DEF WriterFrees, WriterAt, kernel, history
<1>2. b \in Buffers /\ ~Busy(b) /\ Holds("writer", c, b) /\ "writer" \notin Slots
  BY <1>0, <1>1, ThreadsHave, WriterFits DEF Slots
<1>3. /\ \A d \in Conns : b \notin Items(output[d])
      /\ \A w \in Workers : worker[w].r # b
  BY <1>2, HeldOnce
<1>4. output \in Queues
  BY DEF TypeOK, OutputOK
<1>5. \A d \in Conns \ {c} : writer'[d] = writer[d]
  BY <1>1 DEF TypeOK, WriterOK
<1>6. Passes(b)
  BY <1>0, <1>1, <1>2, <1>3, <1>4, <1>5, IdleReadyIsUp, FreePasses
<1>7. QED
  BY <1>6

LEMMA WriterSkipsPasses ==
  ASSUME TypeOK, Own, OrderInv, InitBufferStays, WritersIdle, NEW c \in Conns, WriterSkips(c)
  PROVE  \E f : Passes(f)
<1>0. PICK b, out : b = First(c) /\ out = [output EXCEPT ![c] = comm_buf_from_queue(@)]
  OBVIOUS
<1>1. /\ output[c] # <<>> /\ Free(b, buf, mem, out) /\ writer[c].pc = "take"
      /\ writer' = [writer EXCEPT ![c] = WriterIdle]
      /\ UNCHANGED <<conn, worker, answered, decided, initDone>>
  BY <1>0 DEF WriterSkips, WriterAt, kernel, history
<1>2. output \in Queues /\ out \in Queues /\ \A d \in Conns : Once(output[d])
  BY <1>0, <1>1, DequeuedOK DEF TypeOK, OutputOK, Own, Lists
<1>3. /\ b \in Items(output[c]) /\ Items(out[c]) = Items(output[c]) \ {b}
      /\ \A d \in Conns \ {c} : out[d] = output[d]
  BY <1>0, <1>1, <1>2, TailItems DEF First, Queues, comm_buf_from_queue
<1>4. b \in Buffers /\ ~Busy(b) /\ Holds("output", c, b) /\ "output" \notin Slots
  BY <1>3, OutputFits DEF Slots, Holds, InOutput
<1>5. /\ \A d \in Conns : b \in Items(output[d]) => d = c
      /\ \A w \in Workers : worker[w].r # b
  BY <1>4, HeldOnce
<1>6. \A d \in Conns : Items(out[d]) \subseteq Items(output[d]) \ {b}
  BY <1>3, <1>5
<1>7. \A d \in Conns \ {c} : writer'[d] = writer[d]
  BY <1>1 DEF TypeOK, WriterOK
<1>8. writer[c].b \notin Buffers
  BY <1>1, Others DEF WritersIdle
<1>9. Passes(b)
  BY <1>1, <1>2, <1>4, <1>5, <1>6, <1>7, <1>8, IdleReadyIsUp, FreePasses
<1>10. QED
  BY <1>9

-----------------------------------------------------------------------------
(* A step that changes no message and no request.                          *)
Quiet ==
  /\ UNCHANGED <<answered, decided, output>>
  /\ \A c \in Conns : Up(c) = "up" => Up(c)' = "up"
  /\ \A a \in Buffers : SameMail(a) /\ buf'[a].req = buf[a].req
  /\ \A w \in Workers :
       /\ worker'[w].pc = "send" => worker'[w] = worker[w]
       /\ worker[w].pc = "free" => worker'[w] = worker[w]
  /\ \A c \in Conns : writer'[c].b = writer[c].b

LEMMA QuietPasses == ASSUME TypeOK, Quiet PROVE Passes(None)
<1>1. None \notin Buffers
  BY Others
<1>2. \A w \in Workers : worker[w].pc = "send" => worker[w].r \in Buffers
  BY DEF TypeOK, WorkerOK
<1>3. \A c \in Conns : Items(output'[c]) = Items(output[c]) /\ Items(output[c]) \subseteq Buffers
  BY ItemsTyped DEF Quiet, TypeOK, OutputOK, Queues
<1>4. \A a \in Buffers : Handled(a)
  BY DEF Quiet, Handled, SameRequest
<1>5. QED
  BY <1>1, <1>2, <1>3, <1>4 DEF Quiet, Passes

LEMMA StillQuiet ==
  ASSUME UNCHANGED <<buf, conn, output, worker, answered, decided, initDone>>,
         \A c \in Conns : writer'[c].b = writer[c].b
  PROVE  Quiet
BY DEF Quiet, SameMail, Up

LEMMA KernelQuiet ==
  ASSUME TypeOK, Unbroken, Orderly, NEW c \in Conns, KernelMoves(c) \/ ReadsAnswer(c)
  PROVE  Quiet
<1>1. ~ReadFails(c)
  BY DEF ReadFails, Orderly, Unbroken
<1>2. \A pc, msg : Reads(c, pc, msg) =>
        UNCHANGED <<buf, conn, output, worker, writer, decided, initDone>>
  BY DEF Reads, shared, history
<1>3. UNCHANGED <<buf, conn, output, worker, writer, decided, initDone, answered>>
  <2>1. CASE ReadsReadyRequest(c)
    BY <1>2, <2>1 DEF ReadsReadyRequest, kernel
  <2>2. CASE ReadsQuery(c)
    BY <1>2, <2>2 DEF ReadsQuery
  <2>3. CASE ReadsStrayAnswer(c)
    <3>1. \E m : Reads(c, "answer", m)
      BY <2>3 DEF ReadsStrayAnswer
    <3>2. UNCHANGED answered
      BY <2>3 DEF ReadsStrayAnswer, kernel
    <3>3. QED
      BY <1>2, <3>1, <3>2
  <2>4. CASE ReadsAnswer(c)
    <3>1. \E m : Reads(c, "answer", m)
      BY <2>4 DEF ReadsAnswer
    <3>2. UNCHANGED answered
      BY <2>4 DEF ReadsAnswer
    <3>3. QED
      BY <1>2, <3>1, <3>2
  <2>5. QED
    BY <1>1, <2>1, <2>2, <2>3, <2>4 DEF KernelMoves
<1>4. QED
  BY <1>3, StillQuiet

LEMMA EndsQuiet == ASSUME NEW how, Ends(how) PROVE Quiet
BY StillQuiet DEF Ends, shared, kernel, history

LEMMA WakeSameMail ==
  ASSUME TypeOK, NEW p, NEW out, Wake(p, out)
  PROVE  \A a \in Buffers : SameMail(a) /\ buf'[a].req = buf[a].req
<1>1. buf' = [buf EXCEPT ![p].user_data = out, ![p].waiting.to = None]
  BY DEF Wake
<1>2. QED
  BY <1>1 DEF SameMail, TypeOK, BufOK, Contents

LEMMA ReaderQuiet ==
  ASSUME TypeOK, NEW c \in Conns,
         \/ QueryQueued(c) \/ ReaderChecks(c) \/ QueryDangles(c) \/ AnswerUnexpected(c)
         \/ UpdateAnswered(c) \/ FetchFailed(c) \/ FetchAnswered(c) \/ FetchDone(c)
  PROVE  Quiet
<1>1. CASE QueryQueued(c) \/ FetchFailed(c) \/ FetchAnswered(c)
  <2>1. UNCHANGED <<buf, conn, output, worker, writer, answered, decided, initDone>>
    BY <1>1 DEF QueryQueued, FetchFailed, FetchAnswered, kernel, history
  <2>2. QED
    BY <2>1, StillQuiet
<1>2. CASE QueryDangles(c) \/ AnswerUnexpected(c)
  BY <1>2, EndsQuiet DEF QueryDangles, AnswerUnexpected
<1>3. CASE ReaderChecks(c)
  <2>1. CASE Ends("undefined")
    BY <2>1, EndsQuiet
  <2>2. CASE UNCHANGED <<shared, worker, writer, status, kernel, told, history>>
    BY <2>2, StillQuiet DEF shared, kernel, history
  <2>3. QED
    BY <1>3, <2>1, <2>2 DEF ReaderChecks
<1>4. CASE UpdateAnswered(c) \/ FetchDone(c)
  <2>1. UNCHANGED <<conn, output, worker, writer, answered, decided, initDone>>
    BY <1>4 DEF UpdateAnswered, FetchDone, kernel, history
  <2>2. \E p, out : Wake(p, out)
    BY <1>4 DEF UpdateAnswered, FetchDone
  <2>3. \A a \in Buffers : SameMail(a) /\ buf'[a].req = buf[a].req
    BY <2>2, WakeSameMail
  <2>4. QED
    BY <2>1, <2>3 DEF Quiet, Up
<1>5. QED
  BY <1>1, <1>2, <1>3, <1>4

LEMMA WorkerQuiet ==
  ASSUME TypeOK, NEW w \in Workers,
         WorkerTakes(w) \/ WorkerParks(w) \/ InitWakes(w) \/ InitClears(w)
  PROVE  Quiet
<1>1. /\ UNCHANGED <<output, writer, answered, decided, initDone>>
      /\ \A v \in Workers \ {w} : worker'[v] = worker[v]
      /\ worker[w].pc # "free" /\ worker'[w].pc # "send"
  <2>1. CASE WorkerTakes(w)
    BY <2>1 DEF WorkerTakes, WorkerAt, TypeOK, WorkerOK, WorkersAt, kernel, history
  <2>2. CASE WorkerParks(w) \/ InitClears(w)
    BY <2>2 DEF WorkerParks, InitClears, WorkerAt, TypeOK, WorkerOK, WorkersAt, WorkerIdle, kernel, history
  <2>3. CASE InitWakes(w)
    <3>1. /\ worker[w].pc = "got" /\ worker' = [worker EXCEPT ![w].pc = "initfree"]
          /\ UNCHANGED <<output, writer, kernel, history>>
      BY <2>3, Zenon DEF InitWakes, Serves, Locks, WorkerAt
    <3>2. QED
      BY <3>1 DEF TypeOK, WorkerOK, WorkersAt, kernel, history
  <2>4. QED
    BY <2>1, <2>2, <2>3
<1>2. \A a \in Buffers : SameMail(a) /\ buf'[a].req = buf[a].req
  <2>1. CASE WorkerTakes(w) \/ InitClears(w)
    BY <2>1 DEF WorkerTakes, InitClears, SameMail
  <2>2. CASE WorkerParks(w)
    BY <2>2 DEF WorkerParks, SameMail, TypeOK, BufOK, Contents
  <2>3. CASE InitWakes(w)
    <3>1. \E b \in Buffers : buf' = [buf EXCEPT ![b].to_wake = <<>>]
      BY <2>3, Zenon DEF InitWakes
    <3>2. QED
      BY <3>1 DEF SameMail, TypeOK, BufOK, Contents
  <2>4. QED
    BY <2>1, <2>2, <2>3
<1>3. \A c \in Conns : conn'[c].state = conn[c].state /\ conn'[c].function_init = conn[c].function_init
  <2>1. CASE InitClears(w)
    <3>1. \E c \in Conns : conn' = [conn EXCEPT ![c].init_buffer = None]
      BY <2>1 DEF InitClears
    <3>2. QED
      BY <3>1 DEF TypeOK, ConnOK, Connections
  <2>2. CASE UNCHANGED conn
    BY <2>2
  <2>3. QED
    BY <2>1, <2>2, Zenon DEF WorkerTakes, WorkerParks, InitWakes
<1>4. \A c \in Conns : Up(c)' = Up(c)
  BY <1>1, <1>3 DEF Up
<1>5. QED
  BY <1>1, <1>2, <1>4 DEF Quiet

LEMMA WriterQuiet ==
  ASSUME TypeOK, NEW c \in Conns, WriterWaits(c) \/ WriterFindsNull(c)
  PROVE  Quiet
<1>1. CASE WriterWaits(c)
  <2>1. UNCHANGED <<buf, conn, output, worker, answered, decided, initDone>>
    BY <1>1 DEF WriterWaits, kernel, history
  <2>2. writer' = [writer EXCEPT ![c].pc = "take"]
    BY <1>1 DEF WriterWaits
  <2>3. \A d \in Conns : writer'[d].b = writer[d].b
    BY <2>2 DEF TypeOK, WriterOK
  <2>4. QED
    BY <2>1, <2>3, StillQuiet
<1>2. QED
  BY <1>1, EndsQuiet DEF WriterFindsNull

-----------------------------------------------------------------------------
(* A step that takes a buffer from the pool.                               *)
LEMMA TakesPasses ==
  ASSUME TypeOK, Own, Available(mem), NEW m, m = Fresh(mem), Plain(m), buf'[m].req = None,
         \A a \in Buffers \ {m} : SameMail(a) /\ buf'[a].req = buf[a].req,
         UNCHANGED <<answered, decided>>,
         \A c \in Conns : Up(c) = "up" => Up(c)' = "up",
         \A c \in Conns : \A a \in Items(output'[c]) :
           \/ a \in Items(output[c])
           \/ a = m /\ buf'[a].comm = c /\ buf'[a].msg # None,
         \A w \in Workers :
           /\ worker'[w].pc = "send" =>
                \/ worker[w].pc = "send" /\ worker'[w].r = worker[w].r
                \/ buf'[worker'[w].r].msg \in Ops
           /\ worker[w].pc = "free" => worker'[w] = worker[w],
         \A c \in Conns : writer'[c].b = writer[c].b
  PROVE  Passes(None)
<1>1. None \notin Buffers
  BY Others
<1>2. \A w \in Workers : worker[w].pc = "send" => worker[w].r \in Buffers
  BY DEF TypeOK, WorkerOK
<1>3. \A c \in Conns : Items(output[c]) \subseteq Buffers
  BY ItemsTyped DEF TypeOK, OutputOK, Queues
<1>4. Spare(m)
  BY FreshSpare
<1>5. \A a \in Buffers : Handled(a)
  BY <1>4 DEF Handled, SameRequest
<1>6. QED
  BY <1>1, <1>2, <1>3, <1>5 DEF Passes

LEMMA ReaderGetsPasses ==
  ASSUME TypeOK, Own, NEW c \in Conns, ReaderGets(c) PROVE Passes(None)
<1>0. PICK m : m = Fresh(mem)
  OBVIOUS
<1>1. /\ Available(mem) /\ buf' = [buf EXCEPT ![m] = For(c)]
      /\ UNCHANGED <<conn, output, worker, writer, answered, decided, initDone>>
  BY <1>0 DEF ReaderGets, kernel, history
<1>2. m \in Buffers
  BY <1>0, <1>1, FreshFits
<1>3. buf'[m] = For(c) /\ \A a \in Buffers \ {m} : buf'[a] = buf[a]
  BY <1>1, <1>2 DEF TypeOK, BufOK
<1>4. Plain(m) /\ buf'[m].req = None
  BY <1>2, <1>3, PlainMade
<1>5. QED
  BY <1>0, <1>1, <1>3, <1>4, TakesPasses DEF SameMail, Up

LEMMA ReadyAnswerPasses ==
  ASSUME TypeOK, Own, OrderInv, NEW c \in Conns, ReadyAnswer(c) PROVE Passes(None)
<1>0. PICK m, y : m = Fresh(mem) /\ y = Outgoing(c, [kind |-> "ready"])
  OBVIOUS
<1>1. /\ Available(mem) /\ buf' = [buf EXCEPT ![m] = y]
      /\ output' = [output EXCEPT ![c] = comm_buf_to_queue(@, m)]
      /\ reader[c].pc = "readyanswer"
      /\ UNCHANGED <<conn, worker, writer, answered, decided, initDone>>
  BY <1>0 DEF ReadyAnswer, ReaderAt, kernel, history
<1>2. m \in Buffers
  BY <1>0, <1>1, FreshFits
<1>3. buf'[m] = y /\ \A a \in Buffers \ {m} : buf'[a] = buf[a]
  BY <1>1, <1>2 DEF TypeOK, BufOK
<1>4. Up(c) = "up" /\ \A d : Up(d)' = Up(d)
  BY <1>1 DEF Up, OrderInv, InitBuffers
<1>5. [kind |-> "ready"] # None
  BY MessageAssumption
<1>6. Plain(m) /\ buf'[m].comm = c /\ buf'[m].msg # None /\ buf'[m].req = None
  <2>1. buf'[m] = Outgoing(c, [kind |-> "ready"])
    BY <1>0, <1>3
  <2>2. PICK r : r = [kind |-> "ready"]
    OBVIOUS
  <2>3. r.kind = "ready" /\ r # None
    BY <1>5, <2>2
  <2>4. QED
    BY <1>2, <1>4, <2>1, <2>2, <2>3, PlainMade
<1>7. \A d \in Conns : \A a \in Items(output'[d]) :
        \/ a \in Items(output[d])
        \/ a = m /\ buf'[a].comm = d /\ buf'[a].msg # None
  <2>1. Items(output'[c]) = Items(output[c]) \cup {m}
    BY <1>1, <1>2, AppendItems DEF comm_buf_to_queue, TypeOK, OutputOK, Queues
  <2>2. \A d \in Conns \ {c} : output'[d] = output[d]
    BY <1>1 DEF TypeOK, OutputOK, Queues
  <2>3. QED
    BY <1>6, <2>1, <2>2
<1>8. QED
  BY <1>0, <1>1, <1>3, <1>4, <1>6, <1>7, TakesPasses DEF SameMail

(* comm_conn_init() *)
LEMMA ReaderInitsPasses ==
  ASSUME TypeOK, Own, Unbroken, NEW c \in Conns, ReadyRequest(c) \/ QueryInits(c)
  PROVE  Passes(None)
<1>1. /\ ConnInit(c, buf) /\ conn[c].state = 0
      /\ UNCHANGED <<output, worker, writer, answered, decided, initDone>>
  BY DEF ReadyRequest, QueryInits, ReaderAt, Unbroken, kernel, history
<1>2. \A d \in Conns \ {c} : conn'[d] = conn[d]
  BY <1>1 DEF ConnInit, TypeOK, ConnOK
<1>3. \A d \in Conns : Up(d) = "up" => Up(d)' = "up"
  BY <1>1, <1>2 DEF Up
<1>4. CASE ~conn[c].function_init
  <2>1. UNCHANGED buf
    BY <1>1, <1>4 DEF ConnInit
  <2>2. Quiet
    BY <1>1, <1>3, <2>1 DEF Quiet, SameMail
  <2>3. QED
    BY <2>2, QuietPasses
<1>5. CASE conn[c].function_init
  <2>0. PICK m, y : m = Fresh(mem) /\ y = InitBuffer(c, m)
    OBVIOUS
  <2>1. Available(mem) /\ buf' = [buf EXCEPT ![m] = y]
    BY <1>1, <1>5, <2>0 DEF ConnInit
  <2>2. m \in Buffers
    BY <2>0, <2>1, FreshFits
  <2>3. buf'[m] = y /\ \A a \in Buffers \ {m} : buf'[a] = buf[a]
    BY <2>1, <2>2 DEF TypeOK, BufOK
  <2>4. y.msg = None /\ y.req = None
    BY <2>0 DEF InitBuffer, For, Blank
  <2>5. Plain(m) /\ buf'[m].req = None
    BY <2>2, <2>3, <2>4, PlainMade
  <2>6. QED
    BY <1>1, <1>3, <2>0, <2>1, <2>3, <2>5, TakesPasses DEF SameMail
<1>6. QED
  BY <1>4, <1>5

(* The query is put into its buffer: it has no verdict yet.                *)
LEMMA QueryPutPasses ==
  ASSUME TypeOK, Own, OrderInv, NEW c \in Conns, QueryPasses(c) \/ QueryWaits(c)
  PROVE  Passes(None)
<1>0. PICK b, q, p : b = reader[c].b /\ q = reader[c].msg /\ p = conn[c].init_buffer
  OBVIOUS
<1>1. /\ reader[c].pc = "query"
      /\ UNCHANGED <<conn, output, worker, writer, answered, decided, initDone>>
      /\ \/ buf' = [buf EXCEPT ![b].req = q]
         \/ buf' = [buf EXCEPT ![b].req = q, ![p].to_wake = comm_buf_to_queue(@, b)]
  BY <1>0 DEF QueryPasses, QueryWaits, ReaderAt, kernel, history
<1>2. decided[q] = None
  BY <1>0, <1>1 DEF OrderInv, Undecided
<1>3. \A a \in Buffers : SameMail(a) /\ buf'[a].req \in {q, buf[a].req}
  <2> DEFINE asked1 == [buf EXCEPT ![b].req = q]
             z == comm_buf_to_queue(asked1[p].to_wake, b)
  <2>1. q \in Requests /\ b \in Buffers
    BY <1>0, <1>1 DEF TypeOK, ReaderOK, Owning
  <2>2. buf[b] \in Contents /\ asked1[b] = [buf[b] EXCEPT !.req = q]
    BY <2>1 DEF TypeOK, BufOK
  <2>3. asked1 \in [Buffers -> Contents]
    BY <2>1, <2>2, ReqSet DEF TypeOK, BufOK
  <2>4. \A a \in Buffers : /\ asked1[a].msg = buf[a].msg /\ asked1[a].comm = buf[a].comm
                           /\ asked1[a].init = buf[a].init /\ asked1[a].req \in {q, buf[a].req}
    BY <2>1, <2>2 DEF TypeOK, BufOK, Contents
  <2>5. buf' = asked1 \/ buf' = [asked1 EXCEPT ![p].to_wake = z]
    BY <1>1
  <2> HIDE DEF asked1, z
  <2>6. \A a \in Buffers : /\ buf'[a].msg = asked1[a].msg /\ buf'[a].comm = asked1[a].comm
                           /\ buf'[a].init = asked1[a].init /\ buf'[a].req = asked1[a].req
    <3>1. ASSUME NEW a \in Buffers, buf' = [asked1 EXCEPT ![p] = [asked1[p] EXCEPT !.to_wake = z]]
          PROVE  buf'[a] = asked1[a] \/ buf'[a] = [asked1[a] EXCEPT !.to_wake = z]
      BY <2>3, <3>1
    <3>2. \A a \in Buffers : buf'[a] = asked1[a] \/ buf'[a] = [asked1[a] EXCEPT !.to_wake = z]
      BY <2>5, <3>1
    <3>3. \A a \in Buffers : asked1[a] \in Contents
      BY <2>3
    <3>4. ASSUME NEW y \in Contents
          PROVE  /\ [y EXCEPT !.to_wake = z].msg = y.msg /\ [y EXCEPT !.to_wake = z].comm = y.comm
                 /\ [y EXCEPT !.to_wake = z].init = y.init /\ [y EXCEPT !.to_wake = z].req = y.req
      BY DEF Contents
    <3>5. QED
      BY <3>2, <3>3, <3>4
  <2>7. QED
    BY <2>4, <2>6 DEF SameMail
<1>4. \A a \in Buffers : Handled(a)
  BY <1>2, <1>3 DEF Handled, SameRequest
<1>5. \A w \in Workers : worker[w].pc = "send" => worker[w].r \in Buffers
  BY DEF TypeOK, WorkerOK
<1>6. \A d \in Conns : Items(output'[d]) = Items(output[d]) /\ Items(output[d]) \subseteq Buffers
  BY <1>1, ItemsTyped DEF TypeOK, OutputOK, Queues
<1>7. \A d : Up(d)' = Up(d)
  BY <1>1 DEF Up
<1>8. QED
  BY <1>1, <1>4, <1>5, <1>6, <1>7, Others DEF Passes

(* fetch_object() and update_object() *)
LEMMA AsksPasses ==
  ASSUME TypeOK, Own, NEW w \in Workers, NEW b \in Buffers, NEW k \in Kinds, NEW phase,
         NEW e \in Conns, Serves(w, b), Asks(w, b, e, k, phase), UNCHANGED <<decided, initDone>>
  PROVE  Passes(None)
<1>0. PICK m, op : m = Fresh(mem) /\ op = [comm |-> e, kind |-> k, seq |-> ids[k]]
  OBVIOUS
<1> DEFINE p == [buf[b] EXCEPT !.lock = w, !.user_data = "error", !.op = op,
                               !.ops = @ + 1, !.waiting = [to |-> k, seq |-> op.seq]]
           q == Outgoing(e, op)
           at == [pc |-> "send", b |-> b, r |-> m, phase |-> phase]
<1>1. /\ worker[w].pc = "got" /\ worker[w].b = b /\ buf[b].comm \in Conns
  BY ServesBuffer
<1>2. /\ Available(mem) /\ buf' = [buf EXCEPT ![b] = p, ![m] = q]
      /\ worker' = [worker EXCEPT ![w] = at]
      /\ UNCHANGED <<conn, output, writer, answered>>
  BY <1>0 DEF Asks, kernel
<1>3. p.comm = buf[b].comm /\ p.init = buf[b].init /\ p.req = buf[b].req /\ p.msg = buf[b].msg
  BY DEF TypeOK, BufOK, Contents
<1>4. m \in Buffers
  BY <1>0, <1>2, FreshFits
<1>5. op \in Ops
  BY <1>0, <1>1 DEF Ops, TypeOK, IdsOK
<1>6. op.kind \in {"fetch", "update"}
  BY <1>5 DEF Ops, Kinds
<1>7. q.msg = op /\ q.req = None
  BY DEF Outgoing, For, Blank
<1>8. worker'[w].pc = "send" /\ worker'[w].r = m /\ \A v \in Workers \ {w} : worker'[v] = worker[v]
  BY <1>2 DEF TypeOK, WorkerOK
<1> HIDE DEF p
<1>9. buf'[m] = q /\ \A a \in Buffers \ {m} : buf'[a] = IF a = b THEN p ELSE buf[a]
  BY <1>2, <1>4 DEF TypeOK, BufOK
<1>10. Plain(m)
  BY <1>4, <1>6, <1>9, PlainMade
<1>11. buf'[m].msg \in Ops /\ buf'[m].req = None
  BY <1>5, <1>7, <1>9
<1> HIDE DEF q, at
<1>12. \A d : Up(d)' = Up(d)
  BY <1>2 DEF Up
<1>13. \A a \in Buffers \ {m} : SameMail(a) /\ buf'[a].req = buf[a].req
  BY <1>3, <1>9 DEF SameMail
<1>14. QED
  BY <1>0, <1>1, <1>2, <1>8, <1>10, <1>11, <1>12, <1>13, TakesPasses

LEMMA WorkerAsksPasses ==
  ASSUME TypeOK, Own, NEW w \in Workers, EventAsks(w) \/ AnswerUpdates(w)
  PROVE  Passes(None)
<1>1. CASE EventAsks(w)
  <2>1. PICK b \in Buffers, k \in Kinds, d \in Conns : Serves(w, b) /\ Asks(w, b, d, k, 1)
    BY <1>1, Zenon DEF EventAsks
  <2>2. UNCHANGED <<decided, initDone>>
    BY <1>1, Zenon DEF EventAsks
  <2>3. QED
    BY <2>1, <2>2, AsksPasses
<1>2. CASE AnswerUpdates(w)
  <2>1. PICK b \in Buffers : Serves(w, b) /\ Asks(w, b, buf[b].comm, "update", 1003)
    BY <1>2, Zenon DEF AnswerUpdates
  <2>2. UNCHANGED <<decided, initDone>> /\ "update" \in Kinds
    BY <1>2, Zenon DEF AnswerUpdates, history, Kinds
  <2>4. buf[b].comm \in Conns
    BY <2>1, ServesBuffer
  <2>3. QED
    BY <2>1, <2>2, <2>4, AsksPasses
<1>3. QED
  BY <1>1, <1>2

LEMMA EventDecidesPasses ==
  ASSUME TypeOK, Own, OrderInv, HistoryOK, NEW w \in Workers, EventDecides(w)
  PROVE  Passes(None)
<1>1. PICK b \in Buffers :
        /\ Serves(w, b) /\ buf[b].phase < 1000
        /\ IF buf[b].init
           THEN /\ buf' = [buf EXCEPT ![b].phase = 1000]
                /\ initDone' = initDone \cup {buf[b].comm}
                /\ UNCHANGED decided
           ELSE \E v \in Verdicts :
                  /\ buf' = [buf EXCEPT ![b] = [@ EXCEPT !.phase = 1000, !.verdict = v]]
                  /\ decided' = [decided EXCEPT ![buf[b].req] = v]
                  /\ UNCHANGED initDone
        /\ worker' = [worker EXCEPT ![w] = WorkerIdle]
  BY Zenon DEF EventDecides
<1>2. UNCHANGED <<conn, output, writer, answered>>
  BY Zenon DEF EventDecides, kernel
<1>3. Serves(w, b) /\ buf[b].phase < 1000 /\ worker' = [worker EXCEPT ![w] = WorkerIdle]
  BY <1>1, Zenon
<1>4. worker[w].pc = "got"
  BY <1>3, ServesBuffer
<1>5. worker'[w].pc = "idle" /\ \A v \in Workers \ {w} : worker'[v] = worker[v]
  BY <1>3 DEF TypeOK, WorkerOK, WorkerIdle
<1>6. buf[b] \in Contents
  BY DEF TypeOK, BufOK
<1>7. buf[b].req # None => decided[buf[b].req] = None
  BY <1>3 DEF OrderInv, Queries
<1>8. /\ \A a \in Buffers : SameMail(a) /\ buf'[a].req = buf[a].req
      /\ \A r \in Requests : decided'[r] = decided[r] \/ decided[r] = None
      /\ initDone \subseteq initDone'
  <2>1. CASE buf[b].init
    <3>1. /\ buf' = [buf EXCEPT ![b].phase = 1000] /\ decided' = decided
          /\ initDone \subseteq initDone'
      BY <1>1, <2>1, ZenonT(60)
    <3>2. QED
      BY <1>6, <3>1 DEF SameMail, TypeOK, BufOK, Contents
  <2>2. CASE ~buf[b].init
    <3>1. PICK v \in Verdicts :
            /\ buf' = [buf EXCEPT ![b] = [@ EXCEPT !.phase = 1000, !.verdict = v]]
            /\ decided' = [decided EXCEPT ![buf[b].req] = v]
            /\ initDone' = initDone
      BY <1>1, <2>2
    <3>2. /\ \A a \in Buffers \ {b} : buf'[a] = buf[a]
          /\ buf'[b] = [buf[b] EXCEPT !.phase = 1000, !.verdict = v]
      BY <3>1 DEF TypeOK, BufOK
    <3>3. \A a \in Buffers : SameMail(a) /\ buf'[a].req = buf[a].req
      <4>1. /\ buf'[b].msg = buf[b].msg /\ buf'[b].comm = buf[b].comm
            /\ buf'[b].init = buf[b].init /\ buf'[b].req = buf[b].req
        BY <1>6, <3>2 DEF Contents
      <4>2. \A a \in Buffers : a = b \/ buf'[a] = buf[a]
        BY <3>2
      <4>3. QED
        BY <4>1, <4>2 DEF SameMail
    <3>4. \A r \in Requests : decided'[r] = decided[r] \/ decided[r] = None
      BY <1>7, <3>1, Others DEF HistoryOK
    <3>5. QED
      BY <3>1, <3>3, <3>4
  <2>3. QED
    BY <2>1, <2>2
<1>9. \A c \in Conns : Up(c) = "up" => Up(c)' = "up"
  BY <1>2, <1>8 DEF Up
<1>10. \A a \in Buffers : Handled(a)
  BY <1>8 DEF Handled, SameRequest
<1>11. \A v \in Workers : worker[v].pc = "send" => worker[v].r \in Buffers
  BY DEF TypeOK, WorkerOK
<1>12. \A d \in Conns : Items(output'[d]) = Items(output[d]) /\ Items(output[d]) \subseteq Buffers
  BY <1>2, ItemsTyped DEF TypeOK, OutputOK, Queues
<1>13. QED
  BY <1>2, <1>4, <1>5, <1>8, <1>9, <1>10, <1>11, <1>12, Others DEF Passes

(* The operation is queued for the connection it is for.                   *)
LEMMA WorkerSendsPasses ==
  ASSUME TypeOK, Own, Outputs, NEW w \in Workers, WorkerSends(w)
  PROVE  Passes(None)
<1>0. PICK r, c : r = worker[w].r /\ c = buf[worker[w].r].comm
  OBVIOUS
<1>1. /\ worker[w].pc = "send" /\ output' = [output EXCEPT ![c] = comm_buf_to_queue(@, r)]
      /\ worker' = [worker EXCEPT ![w].pc = "park", ![w].r = None]
      /\ UNCHANGED <<buf, conn, writer, answered, decided, initDone>>
  BY <1>0 DEF WorkerSends, WorkerAt, kernel, history
<1>2. r \in Buffers /\ buf[r].msg \in Ops /\ buf[r].comm = c
  BY <1>0, <1>1 DEF Outputs, TypeOK, WorkerOK
<1>3. None \notin Ops
  BY MessageAssumption DEF Ops
<1>4. worker'[w].pc = "park" /\ \A v \in Workers \ {w} : worker'[v] = worker[v]
  BY <1>1 DEF TypeOK, WorkerOK, WorkersAt
<1>5. \A d \in Conns : Items(output'[d]) \subseteq Items(output[d]) \cup (IF d = c THEN {r} ELSE {})
  <2>1. \A d \in Conns \ {c} : output'[d] = output[d]
    BY <1>1 DEF TypeOK, OutputOK, Queues
  <2>2. c \in Conns => Items(output'[c]) = Items(output[c]) \cup {r}
    BY <1>1, <1>2, AppendItems DEF comm_buf_to_queue, TypeOK, OutputOK, Queues
  <2>3. QED
    BY <2>1, <2>2
<1>6. \A d \in Conns : Items(output[d]) \subseteq Buffers
  BY ItemsTyped DEF TypeOK, OutputOK, Queues
<1>7. \A v \in Workers : worker[v].pc = "send" => worker[v].r \in Buffers
  BY DEF TypeOK, WorkerOK
<1>8. \A a \in Buffers : Handled(a)
  BY <1>1 DEF Handled, SameMail, SameRequest
<1>9. \A d : Up(d)' = Up(d)
  BY <1>1 DEF Up
<1>10. QED
  BY <1>1, <1>2, <1>3, <1>4, <1>5, <1>6, <1>7, <1>8, <1>9, Others DEF Passes

(* comm_alloc_var_data(): the buffer of _init() carries no message.        *)
LEMMA ResizesPasses ==
  ASSUME TypeOK, Own, OrderInv, Outputs, InitBufferStays, NEW w \in Workers, Resizes(w)
  PROVE  \E f : Passes(f)
<1>0. PICK b, n, r : b = worker[w].b /\ n = Fresh(mem) /\ r = Fresh(Taken(mem))
  OBVIOUS
<1> DEFINE x == [buf[b] EXCEPT !.room = TRUE]
<1>1. /\ worker[w].pc = "got" /\ b \in Buffers /\ n \in Buffers /\ n # b
      /\ buf[b].comm \in Conns /\ VarData /\ ~buf[b].room
      /\ \A a \in Buffers :
           buf'[a] = IF SendsReady(b) /\ a = r THEN Outgoing(buf[b].comm, [kind |-> "ready"])
                     ELSE IF a = b THEN Blank
                     ELSE IF a = n THEN x
                     ELSE buf[a]
      /\ output' = IF SendsReady(b) THEN [output EXCEPT ![buf[b].comm] = comm_buf_to_queue(@, r)]
                   ELSE output
      /\ worker' = [worker EXCEPT ![w].b = n]
      /\ UNCHANGED <<writer, conn, kernel, history>>
  BY <1>0, ResizesMoves
<1>2. Available(mem) /\ UNCHANGED <<answered, decided, initDone>>
  BY <1>1 DEF Resizes, kernel, history
<1>3. buf[b].init /\ b \in Heap /\ buf[b].req = None /\ buf[b].msg = None
  BY <1>1 DEF OrderInv, Inits, Outputs, MailOK
<1>4. ~SendsReady(b)
  BY <1>1, <1>3 DEF SendsReady, InitBufferStays
<1>5. x.msg = None /\ x.req = None
  BY <1>1, <1>3 DEF TypeOK, BufOK, Contents
<1> HIDE DEF x
<1>6. /\ buf'[n] = x /\ buf'[b] = Blank /\ output' = output
      /\ \A a \in Buffers \ {b, n} : buf'[a] = buf[a]
  BY <1>1, <1>4
<1>7. Spare(n)
  BY <1>0, <1>2, FreshSpare
<1>8. Plain(n) /\ buf'[n].req = None
  BY <1>1, <1>5, <1>6, PlainMade
<1>9. \A a \in Buffers : IF a = b THEN buf'[a] = Blank ELSE Handled(a)
  BY <1>6, <1>7, <1>8 DEF Handled, SameMail, SameRequest
<1>10. Holds("worker", w, b)
  BY <1>0, <1>1 DEF Holds, InWorker
<1>11. /\ \A d \in Conns : b \notin Items(output[d])
       /\ \A v \in Workers : worker[v].r # b
  BY <1>1, <1>10, HeldOnce
<1>12. worker'[w].pc = "got" /\ \A v \in Workers \ {w} : worker'[v] = worker[v]
  BY <1>1 DEF TypeOK, WorkerOK, WorkersAt
<1>13. \A d : Up(d)' = Up(d)
  BY <1>1, <1>2 DEF Up
<1>14. Passes(b)
  BY <1>1, <1>2, <1>6, <1>9, <1>11, <1>12, <1>13 DEF Passes
<1>15. QED
  BY <1>14

-----------------------------------------------------------------------------
(* mcp_answer(): the answer carries the verdict of the request, and is the *)
(* only one: the buffer of the request is given back next.                 *)
LEMMA AnswerSendsMoves ==
  ASSUME TypeOK, Own, BeginInv, OrderInv, HistoryOK, Outputs, Replies,
         NEW w \in Workers, AnswerSends(w)
  PROVE  Outputs' /\ Replies'
<1>1. PICK b \in Buffers :
        /\ Serves(w, b) /\ ~buf[b].init /\ buf[b].phase >= 1000
        /\ Available(mem)
        /\ buf' = [buf EXCEPT ![b].lock = w,
                     ![Fresh(mem)] = Outgoing(buf[b].comm,
                       [kind |-> "answer", req |-> buf[b].req, verdict |-> buf[b].verdict])]
        /\ output' = [output EXCEPT ![buf[b].comm] = comm_buf_to_queue(@, Fresh(mem))]
  BY Zenon DEF AnswerSends
<1>2. PICK m, q, c, a : /\ m = Fresh(mem) /\ q = buf[b].req /\ c = buf[b].comm
                        /\ a = [kind |-> "answer", req |-> q, verdict |-> buf[b].verdict]
  OBVIOUS
<1> DEFINE x == [buf[b] EXCEPT !.lock = w]
           y == Outgoing(c, a)
<1>3. /\ worker' = [worker EXCEPT ![w].pc = "free"]
      /\ UNCHANGED <<conn, writer, answered, decided, initDone>>
  BY DEF AnswerSends, kernel, history
<1>4. /\ worker[w].pc = "got" /\ worker[w].b = b /\ c \in Conns /\ Holds("worker", w, b)
  BY <1>1, <1>2, ServesBuffer
<1>5. /\ m \in Buffers /\ Spare(m) /\ Holds(Slot(mem), None, m) /\ Slot(mem) \in Slots
  BY <1>1, <1>2, FreshSpare, TakesFresh
<1>6. m # b
  BY <1>4, <1>5 DEF Own, Apart, Slots
<1>7. q \in Requests \cup {None} /\ buf[b].verdict \in Verdicts \cup {None} /\ buf[b] \in Contents
  BY <1>2 DEF TypeOK, BufOK, Contents
<1>8. a # None /\ a.kind = "answer" /\ a.req = q /\ a.verdict = buf[b].verdict
  <2>1. a \in [kind : {"answer"}, req : Requests \cup {None}, verdict : Verdicts \cup {None}]
    BY <1>2, <1>7
  <2>2. QED
    BY <1>2, <2>1, MessageAssumption
<1>9. /\ buf'[m] = y /\ buf'[b] = x
      /\ \A d \in Buffers \ {m, b} : buf'[d] = buf[d]
  BY <1>1, <1>2, <1>5, <1>6 DEF TypeOK, BufOK
<1>10. /\ x.msg = buf[b].msg /\ x.comm = buf[b].comm /\ x.init = buf[b].init /\ x.req = q
  BY <1>2, <1>7 DEF Contents
<1>11. y.msg = a /\ y.comm = c /\ y.req = None /\ y.init = FALSE
  BY DEF Outgoing, For, Blank
<1>12. /\ worker'[w].pc = "free" /\ worker'[w].b = b
       /\ \A v \in Workers \ {w} : worker'[v] = worker[v]
  BY <1>3, <1>4 DEF TypeOK, WorkerOK, WorkersAt
<1> HIDE DEF x, y
<1>13. \A d \in Buffers \ {m} : SameMail(d) /\ buf'[d].req = buf[d].req
  BY <1>2, <1>9, <1>10 DEF SameMail
<1>14. /\ buf'[m].msg = a /\ buf'[m].comm = c /\ buf'[m].req = None /\ ~buf'[m].init
  BY <1>9, <1>11
<1>15. MailOK(m)'
  BY <1>8, <1>14 DEF MailOK
<1>16. Outputs'
  <2>1. \A d : Up(d)' = Up(d)
    BY <1>3 DEF Up
  <2>2. \A d \in Conns : Items(output[d]) \subseteq Buffers
    BY ItemsTyped DEF TypeOK, OutputOK, Queues
  <2>3. \A d \in Conns : \A e \in Items(output[d]) : SameMail(e)
    BY <1>5, <1>13, <2>2 DEF Spare
  <2>4. \A v \in Workers : worker[v].pc = "send" => SameMail(worker[v].r)
    BY <1>5, <1>13 DEF Spare, TypeOK, WorkerOK
  <2>5. \A d \in Conns : \A e \in Items(output'[d]) :
          e \in Items(output[d]) \/ (e = m /\ d = c)
    <3>1. Items(output'[c]) = Items(output[c]) \cup {m}
      BY <1>1, <1>2, <1>4, <1>5, AppendItems DEF comm_buf_to_queue, TypeOK, OutputOK, Queues
    <3>2. \A d \in Conns \ {c} : output'[d] = output[d]
      BY <1>1, <1>2 DEF TypeOK, OutputOK, Queues
    <3>3. QED
      BY <3>1, <3>2
  <2>6. MailMoves
    BY <1>8, <1>12, <1>13, <1>14, <1>15, <2>1, <2>3, <2>4, <2>5 DEF MailMoves
  <2>7. QED
    BY <2>6, MailInv
<1>17. q \in Requests =>
         /\ answered[q] = <<>> /\ decided[q] \in Verdicts /\ a.verdict = decided[q]
         /\ \A d \in Buffers : ~Replying(d, q)
  <2>1. \A v \in Workers : ~(worker[v].b = b /\ worker[v].pc = "free")
    <3>1. \A v \in Workers : worker[v].b = b /\ worker[v].pc = "free" => Holds("worker", v, b)
      BY DEF Holds, InWorker
    <3>2. QED
      BY <1>4, <3>1 DEF Own, Apart
  <2>2. q \in Requests => Owing(b, q) /\ q # None
    BY <1>2, <2>1, Others DEF Owing
  <2>3. q \in Requests => decided[q] \in Verdicts /\ buf[b].verdict = decided[q]
    BY <1>1, <1>2, <2>2 DEF OrderInv, Queries
  <2>4. QED
    BY <1>8, <2>2, <2>3 DEF Replies
<1>18. \A r \in Requests, d \in Buffers : Owing(d, r)' => Owing(d, r) /\ r # q
  <2> SUFFICES ASSUME NEW r \in Requests, NEW d \in Buffers, Owing(d, r)'
               PROVE  Owing(d, r) /\ r # q
    OBVIOUS
  <2>1. buf'[d].req = r /\ r # None /\ d # b
    BY <1>12, Others DEF Owing
  <2>2. buf[d].req = r
    BY <1>13, <1>14, <2>1
  <2>3. r # q
    BY <1>2, <2>1, <2>2 DEF BeginInv, OneBuffer
  <2>4. Owing(d, r)
    BY <1>4, <1>12, <2>2 DEF Owing
  <2>5. QED
    BY <2>3, <2>4
<1>19. \A r \in Requests, d \in Buffers : Replying(d, r)' =>
         \/ Replying(d, r) /\ d # m /\ buf'[d].msg = buf[d].msg
         \/ d = m /\ r = q
  BY <1>3, <1>8, <1>13, <1>14 DEF Replying, SameMail
<1>20. Replies'
  BY <1>3, <1>14, <1>17, <1>18, <1>19, Others DEF Replies
<1>21. QED
  BY <1>16, <1>20

(* An answer leaves: nobody is replying to its request any more.           *)
LEMMA RepliesLeft ==
  ASSUME Replies, UNCHANGED <<buf, decided>>,
         \A a \in Buffers, r \in Requests :
           /\ Replying(a, r)' => Replying(a, r)
           /\ Owing(a, r)' => Owing(a, r),
         \A r \in Requests :
           \/ answered'[r] = answered[r]
           \/ decided[r] # None /\ \A a \in Buffers : ~Replying(a, r)' /\ ~Owing(a, r)'
  PROVE  Replies'
<1>1. ASSUME NEW r \in Requests, NEW b \in Buffers, Owing(b, r)'
      PROVE  answered'[r] = <<>> /\ \A a \in Buffers : ~Replying(a, r)'
  BY <1>1 DEF Replies
<1>2. ASSUME NEW r \in Requests, NEW a \in Buffers, Replying(a, r)'
      PROVE  /\ answered'[r] = <<>> /\ decided'[r] \in Verdicts
             /\ buf'[a].msg.verdict = decided'[r]
             /\ \A b \in Buffers : Replying(b, r)' => a = b
  BY <1>2 DEF Replies
<1>3. ASSUME NEW r \in Requests, decided'[r] = None
      PROVE  answered'[r] = <<>> /\ \A a \in Buffers : ~Replying(a, r)'
  BY <1>3 DEF Replies
<1>4. QED
  BY <1>1, <1>2, <1>3 DEF Replies

(* mcp_write(): the first message of the queue reaches the kernel.         *)
LEMMA WriterWritesMoves ==
  ASSUME TypeOK, Own, HistoryOK, Outputs, Replies, WritersIdle, NEW c \in Conns, WriterWrites(c)
  PROVE  /\ Outputs' /\ Replies'
         /\ \/ UNCHANGED answered
            \/ \E r \in Requests : /\ answered[r] = <<>> /\ decided[r] \in Verdicts
                                  /\ answered' = [answered EXCEPT ![r] = <<decided[r]>>]
                                  /\ UNCHANGED ready
         /\ \/ UNCHANGED ready
            \/ /\ Up(c) = "up" /\ ready' = [ready EXCEPT ![c] = @ + 1]
               /\ UNCHANGED answered
<1>0. PICK f, m : f = First(c) /\ m = buf[f].msg
  OBVIOUS
<1>1. /\ writer[c].pc = "take" /\ output[c] # <<>>
      /\ answered' = IF m.kind = "answer" THEN [answered EXCEPT ![m.req] = Append(@, m.verdict)]
                     ELSE answered
      /\ ready' = IF m.kind = "ready" THEN [ready EXCEPT ![c] = @ + 1] ELSE ready
      /\ output' = [output EXCEPT ![c] = Tail(@)]
      /\ writer' = [writer EXCEPT ![c] = [pc |-> "free", b |-> f]]
      /\ UNCHANGED <<buf, worker, conn, decided, initDone>>
  BY <1>0 DEF WriterWrites, WriterAt, Delivers, comm_buf_from_queue, history
<1>2. /\ f \in Items(output[c]) /\ Items(output'[c]) \subseteq Items(output[c])
      /\ \A d \in Conns \ {c} : output'[d] = output[d]
  BY <1>0, <1>1, TailItems DEF First, TypeOK, OutputOK, Queues, Own, Lists
<1>3. f \in Buffers /\ Holds("output", c, f)
  BY <1>2, OutputFits DEF Holds, InOutput
<1>4. \A d \in Conns : writer[d].b # f
  BY <1>3, HeldOnce
<1>5. /\ writer'[c].b = f /\ writer[c].b = None
      /\ \A d \in Conns \ {c} : writer'[d] = writer[d]
  BY <1>1 DEF TypeOK, WriterOK, WritersIdle
<1>6. m # None /\ buf[f].comm = c /\ (m.kind = "ready" => Up(c) = "up")
  BY <1>0, <1>2, <1>3 DEF Outputs, MailOK
<1>7. \A d : Up(d)' = Up(d)
  BY <1>1 DEF Up
<1>8. Outputs'
  BY <1>1, <1>2, <1>7 DEF Outputs, MailOK
<1>9. \A a \in Buffers, r \in Requests :
        /\ Replying(a, r)' => Replying(a, r) /\ a # f
        /\ Owing(a, r)' => Owing(a, r)
  BY <1>1, <1>5, Others DEF Replying, Owing
<1>10. CASE m.kind # "answer"
  <2>1. answered' = answered
    BY <1>1, <1>10
  <2>2. Replies'
    BY <1>1, <1>9, <2>1, RepliesLeft
  <2>3. QED
    BY <1>1, <1>6, <1>8, <2>1, <2>2
<1>11. CASE m.kind = "answer"
  <2>0. ready' = ready /\ answered' = [answered EXCEPT ![m.req] = Append(@, m.verdict)]
    BY <1>1, <1>11
  <2>1. CASE m.req \notin Requests
    <3>1. answered' = answered
      BY <2>0, <2>1 DEF HistoryOK
    <3>2. Replies'
      BY <1>1, <1>9, <3>1, RepliesLeft
    <3>3. QED
      BY <1>8, <2>0, <3>1, <3>2
  <2>2. CASE m.req \in Requests
    <3>1. PICK q \in Requests : q = m.req
      BY <2>2
    <3>2. Replying(f, q)
      BY <1>0, <1>4, <1>6, <1>11, <3>1 DEF Replying, IsAnswer
    <3>3. answered[q] = <<>> /\ decided[q] \in Verdicts /\ m.verdict = decided[q]
      BY <1>0, <1>3, <3>1, <3>2 DEF Replies
    <3>4. answered' = [answered EXCEPT ![q] = <<decided[q]>>]
      <4>1. Append(<<>>, decided[q]) = <<decided[q]>>
        OBVIOUS
      <4>2. QED
        BY <2>0, <3>1, <3>3, <4>1
    <3>5. /\ \A r \in Requests \ {q} : answered'[r] = answered[r]
          /\ \A b \in Buffers : ~Owing(b, q)
          /\ \A a \in Buffers : Replying(a, q) => a = f
      BY <1>3, <3>2, <3>4 DEF Replies, HistoryOK
    <3>6. Replies'
      <4>1. \A a \in Buffers : ~Replying(a, q)' /\ ~Owing(a, q)'
        BY <1>9, <3>5
      <4>2. decided[q] # None
        BY <3>3, Others
      <4>3. QED
        BY <1>1, <1>9, <3>5, <4>1, <4>2, RepliesLeft
    <3>7. QED
      BY <1>8, <2>0, <3>3, <3>4, <3>6
  <2>3. QED
    BY <2>1, <2>2
<1>12. QED
  BY <1>10, <1>11

-----------------------------------------------------------------------------
(* The service. *)

(* Nothing of the service changes. *)
Hidden ==
  /\ UNCHANGED <<seen, started, decided, answered, ready>>
  /\ \A c \in Conns : Up(c)' = Up(c)

LEMMA HiddenStutters == ASSUME Hidden PROVE UNCHANGED Service!vars
<1>1. \A r \in Requests : Stage(r)' = Stage(r)
  BY DEF Hidden, Stage
<1>2. [c \in Conns |-> Up(c)]' = [c \in Conns |-> Up(c)]
  BY DEF Hidden
<1>3. [r \in Requests |-> Stage(r)]' = [r \in Requests |-> Stage(r)]
  BY <1>1
<1>4. {c \in Conns : ready[c] > 0}' = {c \in Conns : ready[c] > 0}
  BY DEF Hidden
<1>5. QED
  BY <1>2, <1>3, <1>4 DEF Hidden, Service!vars

LEMMA StillHidden ==
  ASSUME UNCHANGED <<conn, initDone, seen, started, decided, answered, ready>> PROVE Hidden
BY DEF Hidden, Up

(* A request is read. *)
LEMMA AskMaps ==
  ASSUME NEW r \in Requests, r \notin seen, started[r] = 0, decided[r] = None,
         seen' = seen \cup {r}, UNCHANGED <<started, decided, answered, ready>>,
         \A c \in Conns : Up(c)' = Up(c)
  PROVE  Service!Ask(r)
<1>1. /\ Stage(r) = "unsent" /\ Stage(r)' = "waiting"
      /\ \A q \in Requests \ {r} : Stage(q)' = Stage(q)
  BY DEF Stage
<1>2. [c \in Conns |-> Up(c)]' = [c \in Conns |-> Up(c)]
  OBVIOUS
<1>3. [q \in Requests |-> Stage(q)]' = [[q \in Requests |-> Stage(q)] EXCEPT ![r] = "waiting"]
  BY <1>1
<1>4. {c \in Conns : ready[c] > 0}' = {c \in Conns : ready[c] > 0}
  OBVIOUS
<1>5. QED
  BY <1>1, <1>2, <1>3, <1>4 DEF Service!Ask

(* comm_conn_init() *)
LEMMA ConnectMaps ==
  ASSUME NEW c \in Conns, Up(c) = "new", Up(c)' \in {"starting", "up"},
         \A d \in Conns \ {c} : Up(d)' = Up(d),
         UNCHANGED <<seen, started, decided, answered, ready>>
  PROVE  Service!Connect(c)
<1>1. \A r \in Requests : Stage(r)' = Stage(r)
  BY DEF Stage
<1>2. PICK s \in {"starting", "up"} : s = Up(c)'
  OBVIOUS
<1>3. [d \in Conns |-> Up(d)]' = [[d \in Conns |-> Up(d)] EXCEPT ![c] = s]
  BY <1>2
<1>4. [r \in Requests |-> Stage(r)]' = [r \in Requests |-> Stage(r)]
  BY <1>1
<1>5. {d \in Conns : ready[d] > 0}' = {d \in Conns : ready[d] > 0}
  OBVIOUS
<1>6. QED
  BY <1>3, <1>4, <1>5 DEF Service!Connect

(* _init() is over. *)
LEMMA InitialiseMaps ==
  ASSUME NEW c \in Conns, Up(c) = "starting", Up(c)' = "up",
         \A d \in Conns \ {c} : Up(d)' = Up(d),
         UNCHANGED <<seen, started, decided, answered, ready>>
  PROVE  Service!Initialise(c)
<1>1. \A r \in Requests : Stage(r)' = Stage(r)
  BY DEF Stage
<1>3. [d \in Conns |-> Up(d)]' = [[d \in Conns |-> Up(d)] EXCEPT ![c] = "up"]
  OBVIOUS
<1>4. [r \in Requests |-> Stage(r)]' = [r \in Requests |-> Stage(r)]
  BY <1>1
<1>5. {d \in Conns : ready[d] > 0}' = {d \in Conns : ready[d] > 0}
  OBVIOUS
<1>6. QED
  BY <1>3, <1>4, <1>5 DEF Service!Initialise

(* The first handler of a request. *)
LEMMA BeginMaps ==
  ASSUME NEW r \in Requests, Up(ConnOf[r]) = "up", r \in seen, decided[r] = None,
         started[r] = 0, started'[r] = 1,
         \A q \in Requests \ {r} : started'[q] = started[q],
         UNCHANGED <<seen, decided, answered, ready>>,
         \A c \in Conns : Up(c)' = Up(c)
  PROVE  Service!Begin(r)
<1>0. ConnOf[r] \in Conns
  BY CommAssumption
<1>1. /\ Stage(r) = "waiting" /\ Stage(r)' = "begun"
      /\ \A q \in Requests \ {r} : Stage(q)' = Stage(q)
  BY DEF Stage
<1>2. [c \in Conns |-> Up(c)]' = [c \in Conns |-> Up(c)]
  OBVIOUS
<1>3. [q \in Requests |-> Stage(q)]' = [[q \in Requests |-> Stage(q)] EXCEPT ![r] = "begun"]
  BY <1>1
<1>4. {c \in Conns : ready[c] > 0}' = {c \in Conns : ready[c] > 0}
  OBVIOUS
<1>5. QED
  BY <1>0, <1>1, <1>2, <1>3, <1>4 DEF Service!Begin

(* The last handler of a request. *)
LEMMA DecideMaps ==
  ASSUME NEW r \in Requests, Up(ConnOf[r]) = "up", r \in seen, decided[r] = None,
         NEW v \in Verdicts, decided \in [Requests -> Verdicts \cup {None}],
         decided' = [decided EXCEPT ![r] = v],
         \A q \in Requests \ {r} : started'[q] = started[q],
         UNCHANGED <<seen, answered, ready>>,
         \A c \in Conns : Up(c)' = Up(c)
  PROVE  Service!Decide(r)
<1>0. ConnOf[r] \in Conns
  BY CommAssumption
<1>1. /\ Stage(r) \in {"waiting", "begun"} /\ Stage(r)' = "decided"
      /\ \A q \in Requests \ {r} : Stage(q)' = Stage(q)
  BY Others DEF Stage
<1>2. [c \in Conns |-> Up(c)]' = [c \in Conns |-> Up(c)]
  OBVIOUS
<1>3. [q \in Requests |-> Stage(q)]' = [[q \in Requests |-> Stage(q)] EXCEPT ![r] = "decided"]
  BY <1>1
<1>4. {c \in Conns : ready[c] > 0}' = {c \in Conns : ready[c] > 0}
  OBVIOUS
<1>5. QED
  BY <1>0, <1>1, <1>2, <1>3, <1>4 DEF Service!Decide

(* The answer is written. *)
LEMMA ReplyMaps ==
  ASSUME NEW r \in Requests, decided[r] \in Verdicts, answered[r] = <<>>,
         answered' = [answered EXCEPT ![r] = <<decided[r]>>],
         UNCHANGED <<seen, started, decided, ready>>,
         \A c \in Conns : Up(c)' = Up(c)
  PROVE  Service!Reply(r)
<1>1. Stage(r) = "decided" /\ \A q \in Requests : Stage(q)' = Stage(q)
  BY Others DEF Stage
<1>2. [c \in Conns |-> Up(c)]' = [c \in Conns |-> Up(c)]
  OBVIOUS
<1>3. [q \in Requests |-> Stage(q)]' = [q \in Requests |-> Stage(q)]
  BY <1>1
<1>4. {c \in Conns : ready[c] > 0}' = {c \in Conns : ready[c] > 0}
  OBVIOUS
<1>5. QED
  BY <1>1, <1>2, <1>3, <1>4 DEF Service!Reply

(* READY_ANSWER is written. *)
LEMMA WelcomeMaps ==
  ASSUME NEW c \in Conns, Up(c) = "up", ready \in [Conns -> Nat],
         ready' = [ready EXCEPT ![c] = @ + 1],
         UNCHANGED <<seen, started, decided, answered>>,
         \A d \in Conns : Up(d)' = Up(d)
  PROVE  Service!Welcome(c)
<1>1. \A q \in Requests : Stage(q)' = Stage(q)
  BY DEF Stage
<1>2. [d \in Conns |-> Up(d)]' = [d \in Conns |-> Up(d)]
  OBVIOUS
<1>3. [q \in Requests |-> Stage(q)]' = [q \in Requests |-> Stage(q)]
  BY <1>1
<1>4. {d \in Conns : ready[d] > 0}' = {d \in Conns : ready[d] > 0} \cup {c}
  <2>1. ready'[c] > 0 /\ \A d \in Conns \ {c} : ready'[d] = ready[d]
    OBVIOUS
  <2>2. QED
    BY <2>1
<1>5. QED
  BY <1>2, <1>3, <1>4 DEF Service!Welcome

-----------------------------------------------------------------------------
(* The actions that are not seen.                                          *)

(* All that the service shows.                                             *)
Public == <<conn, initDone, seen, started, decided, answered, ready>>

LEMMA ReaderHidden ==
  ASSUME NEW c \in Conns,
         \/ ReaderGets(c) \/ ReadyAnswer(c)
         \/ QueryWaits(c) \/ QueryDangles(c) \/ QueryPasses(c)
         \/ QueryQueued(c) \/ ReaderChecks(c)
         \/ UpdateAnswered(c) \/ FetchFailed(c) \/ FetchAnswered(c) \/ FetchDone(c)
         \/ AnswerUnexpected(c) \/ ReaderFrees(c)
  PROVE  UNCHANGED Public
<1>1. CASE ReaderGets(c) \/ ReadyAnswer(c) \/ QueryWaits(c) \/ QueryPasses(c)
  BY <1>1 DEF ReaderGets, ReadyAnswer, QueryWaits, QueryPasses, Public, kernel, history
<1>2. CASE QueryDangles(c) \/ QueryQueued(c) \/ ReaderChecks(c) \/ AnswerUnexpected(c)
  BY <1>2 DEF QueryDangles, QueryQueued, ReaderChecks, AnswerUnexpected, Ends,
              Public, shared, kernel, history
<1>3. CASE UpdateAnswered(c) \/ FetchFailed(c) \/ FetchAnswered(c) \/ FetchDone(c) \/ ReaderFrees(c)
  BY <1>3 DEF UpdateAnswered, FetchFailed, FetchAnswered, FetchDone, ReaderFrees,
              Public, kernel, history
<1>4. QED
  BY <1>1, <1>2, <1>3

LEMMA KernelHidden ==
  ASSUME NEW c \in Conns, ReadsReadyRequest(c) \/ ReadsStrayAnswer(c) \/ ReadsAnswer(c)
  PROVE  UNCHANGED Public
<1>1. \A pc, msg : Reads(c, pc, msg) => UNCHANGED <<conn, initDone, started, decided>>
  BY DEF Reads, shared, history
<1>2. CASE ReadsReadyRequest(c)
  BY <1>1, <1>2 DEF ReadsReadyRequest, Public, kernel
<1>3. CASE ReadsStrayAnswer(c)
  <2>1. \E m : Reads(c, "answer", m)
    BY <1>3 DEF ReadsStrayAnswer
  <2>2. UNCHANGED <<seen, answered, ready>>
    BY <1>3 DEF ReadsStrayAnswer, kernel
  <2>3. QED
    BY <1>1, <2>1, <2>2 DEF Public
<1>4. CASE ReadsAnswer(c)
  <2>1. \E m : Reads(c, "answer", m)
    BY <1>4 DEF ReadsAnswer
  <2>2. UNCHANGED <<seen, answered, ready>>
    BY <1>4 DEF ReadsAnswer
  <2>3. QED
    BY <1>1, <2>1, <2>2 DEF Public
<1>5. QED
  BY <1>2, <1>3, <1>4

LEMMA WriterHidden ==
  ASSUME NEW c \in Conns,
         WriterWaits(c) \/ WriterFindsNull(c) \/ WriterSkips(c) \/ WriterFrees(c)
  PROVE  UNCHANGED Public
BY DEF WriterWaits, WriterFindsNull, WriterSkips, WriterFrees, Ends, Public, shared, kernel, history

LEMMA WorkerHidden ==
  ASSUME TypeOK, NEW w \in Workers,
         \/ WorkerTakes(w) \/ Resizes(w) \/ AnswerUpdates(w) \/ AnswerSends(w) \/ WorkerFrees(w)
         \/ WorkerSends(w) \/ WorkerParks(w)
         \/ InitWakes(w) \/ InitFrees(w) \/ InitClears(w)
  PROVE  Hidden
<1>1. CASE AnswerUpdates(w)
  <2>1. \A b, e, k, phase : Asks(w, b, e, k, phase) => UNCHANGED <<conn, kernel>>
    BY DEF Asks
  <2>4. PICK b \in Buffers : Asks(w, b, buf[b].comm, "update", 1003) /\ UNCHANGED history
    BY <1>1, Zenon DEF AnswerUpdates
  <2>2. UNCHANGED <<conn, kernel, history>>
    BY <2>1, <2>4
  <2>3. QED
    BY <2>2, StillHidden DEF kernel, history
<1>2. CASE AnswerSends(w) \/ InitWakes(w)
  <2>1. UNCHANGED <<conn, kernel, history>>
    BY <1>2, Zenon DEF AnswerSends, InitWakes
  <2>2. QED
    BY <2>1, StillHidden DEF kernel, history
<1>3. CASE WorkerTakes(w) \/ Resizes(w) \/ WorkerFrees(w) \/ WorkerSends(w) \/ WorkerParks(w) \/ InitFrees(w)
  <2>1. UNCHANGED <<conn, kernel, history>>
    BY <1>3, Zenon DEF WorkerTakes, Resizes, WorkerFrees, WorkerSends, WorkerParks, InitFrees
  <2>2. QED
    BY <2>1, StillHidden DEF kernel, history
<1>4. CASE InitClears(w)
  <2>1. UNCHANGED <<kernel, history>> /\ \E c \in Conns : conn' = [conn EXCEPT ![c].init_buffer = None]
    BY <1>4 DEF InitClears
  <2>2. \A c \in Conns : /\ conn'[c].state = conn[c].state
                        /\ conn'[c].function_init = conn[c].function_init
    BY <2>1 DEF TypeOK, ConnOK, Connections
  <2>3. QED
    BY <2>1, <2>2 DEF Hidden, Up, kernel, history
<1>5. QED
  BY <1>1, <1>2, <1>3, <1>4

-----------------------------------------------------------------------------
(* What holds of the threads that serve orderly kernels. *)
ServiceInv ==
  /\ TypeOK /\ Own /\ BeginInv /\ Unbroken /\ OrderInv /\ WritersIdle
  /\ HistoryOK /\ Outputs /\ Replies

(* Every message and every request is carried on. *)
LEMMA PassesInv ==
  ASSUME TypeOK, Outputs, Replies, \E f : Passes(f) PROVE Outputs' /\ Replies'
BY PassesMoves, MailInv, ReplyInv

(* The mail stays in order in every step ...                               *)
LEMMA NextMail ==
  ASSUME ServiceInv, InitBufferStays, Orderly, [Next]_vars PROVE Outputs' /\ Replies'
<1>0. /\ TypeOK /\ Own /\ BeginInv /\ Unbroken /\ OrderInv /\ WritersIdle
      /\ HistoryOK /\ Outputs /\ Replies
  BY DEF ServiceInv
<1>1. ASSUME Quiet PROVE Outputs' /\ Replies'
  BY <1>0, <1>1, QuietPasses, PassesInv
<1>2. ASSUME NEW c \in Conns, KernelMoves(c) \/ ReadsAnswer(c) PROVE Quiet
  BY <1>0, <1>2, KernelQuiet
<1>3. ASSUME NEW c \in Conns, ReaderStep(c) PROVE Quiet \/ \E f : Passes(f)
  <2>1. ~QueryRefused(c) /\ ~InitRefused(c) /\ ~ReaderFails(c)
    BY <1>0, NoneCloses
  <2>2. CASE ReaderGets(c)
    BY <1>0, <2>2, ReaderGetsPasses
  <2>3. CASE ReadyAnswer(c)
    BY <1>0, <2>3, ReadyAnswerPasses
  <2>4. CASE ReadyRequest(c) \/ QueryInits(c)
    BY <1>0, <2>4, ReaderInitsPasses
  <2>5. CASE QueryPasses(c) \/ QueryWaits(c)
    BY <1>0, <2>5, QueryPutPasses
  <2>6. CASE ReaderFrees(c)
    BY <1>0, <2>6, ReaderFreesPasses
  <2>7. CASE \/ QueryQueued(c) \/ ReaderChecks(c) \/ QueryDangles(c) \/ AnswerUnexpected(c)
             \/ UpdateAnswered(c) \/ FetchFailed(c) \/ FetchAnswered(c) \/ FetchDone(c)
    BY <1>0, <2>7, ReaderQuiet
  <2>8. QED
    BY <1>3, <2>1, <2>2, <2>3, <2>4, <2>5, <2>6, <2>7 DEF ReaderStep
<1>4. ASSUME NEW w \in Workers, WorkerStep(w), ~AnswerSends(w) PROVE Quiet \/ \E f : Passes(f)
  <2>1. CASE WorkerTakes(w) \/ WorkerParks(w) \/ InitWakes(w) \/ InitClears(w)
    BY <1>0, <2>1, WorkerQuiet
  <2>2. CASE Resizes(w)
    BY <1>0, <2>2, ResizesPasses
  <2>3. CASE EventAsks(w) \/ AnswerUpdates(w)
    BY <1>0, <2>3, WorkerAsksPasses
  <2>4. CASE EventDecides(w)
    BY <1>0, <2>4, EventDecidesPasses
  <2>5. CASE WorkerFrees(w)
    BY <1>0, <2>5, WorkerFreesPasses
  <2>6. CASE WorkerSends(w)
    BY <1>0, <2>6, WorkerSendsPasses
  <2>7. CASE InitFrees(w)
    BY <1>0, <2>7, InitFreesPasses
  <2>8. QED
    BY <1>4, <2>1, <2>2, <2>3, <2>4, <2>5, <2>6, <2>7 DEF WorkerStep
<1>5. ASSUME NEW w \in Workers, AnswerSends(w) PROVE Outputs' /\ Replies'
  BY <1>0, <1>5, AnswerSendsMoves
<1>6. ASSUME NEW c \in Conns, WriterStep(c), ~WriterWrites(c) PROVE Quiet \/ \E f : Passes(f)
  <2>1. ~WriterFails(c)
    BY <1>0, NoneCloses
  <2>2. CASE WriterWaits(c) \/ WriterFindsNull(c)
    BY <1>0, <2>2, WriterQuiet
  <2>3. CASE WriterSkips(c)
    BY <1>0, <2>3, WriterSkipsPasses
  <2>4. CASE WriterFrees(c)
    BY <1>0, <2>4, WriterFreesPasses
  <2>5. QED
    BY <1>6, <2>1, <2>2, <2>3, <2>4 DEF WriterStep
<1>7. ASSUME NEW c \in Conns, WriterWrites(c) PROVE Outputs' /\ Replies'
  BY <1>0, <1>7, WriterWritesMoves
<1>8. ~MainReturns /\ \A c \in Conns : ~CloseStep(c)
  BY <1>0, CommAssumption, NoneCloses
<1>9. CASE UNCHANGED vars
  BY <1>1, <1>9, StillQuiet DEF vars, shared, kernel, history
<1>10. \A c \in Conns : KernelMoves(c) \/ ReadsAnswer(c) \/ ReaderStep(c) \/ WriterStep(c)
         => Outputs' /\ Replies'
  BY <1>0, <1>1, <1>2, <1>3, <1>6, <1>7, PassesInv
<1>11. \A w \in Workers : WorkerStep(w) => Outputs' /\ Replies'
  BY <1>0, <1>1, <1>4, <1>5, PassesInv
<1>12. QED
  BY <1>8, <1>9, <1>10, <1>11 DEF Next, Done

LEMMA PublicHidden == ASSUME HistoryOK, UNCHANGED Public PROVE Hidden /\ HistoryOK'
BY StillHidden DEF Public, HistoryOK

LEMMA ReadsQueryMaps ==
  ASSUME ServiceInv, NEW c \in Conns, ReadsQuery(c)
  PROVE  (\E r \in Requests : Service!Ask(r)) /\ HistoryOK'
<1>1. PICK r \in Requests \ seen : seen' = seen \cup {r} /\ Reads(c, "query", r)
  BY DEF ReadsQuery
<1>2. UNCHANGED <<conn, initDone, started, decided, answered, ready>>
  BY <1>1 DEF ReadsQuery, Reads, shared, history
<1>3. started[r] = 0 /\ decided[r] = None
  BY <1>1 DEF ServiceInv, BeginInv, UnseenUnbegun, Unbegun, OrderInv, Undecided
<1>4. \A d \in Conns : Up(d)' = Up(d)
  BY <1>2 DEF Up
<1>5. Service!Ask(r)
  BY <1>1, <1>2, <1>3, <1>4, AskMaps
<1>6. HistoryOK'
  BY <1>1, <1>2 DEF ServiceInv, HistoryOK
<1>7. QED
  BY <1>5, <1>6

LEMMA ReaderInitsMaps ==
  ASSUME ServiceInv, NEW c \in Conns, ReadyRequest(c) \/ QueryInits(c)
  PROVE  Service!Connect(c) /\ HistoryOK'
<1>1. /\ ConnInit(c, buf) /\ conn[c].state = 0
      /\ UNCHANGED <<initDone, seen, started, decided, answered, ready>>
  BY DEF ReadyRequest, QueryInits, ReaderAt, ServiceInv, Unbroken, kernel, history
<1>2. conn \in [Conns -> Connections]
  BY DEF ServiceInv, TypeOK, ConnOK
<1>3. \A d \in Conns \ {c} : conn'[d] = conn[d]
  BY <1>1, <1>2 DEF ConnInit
<1>4. conn'[c].state = 1
  BY <1>1, <1>2 DEF ConnInit, Connections
<1>5. Up(c) = "new" /\ Up(c)' \in {"starting", "up"} /\ \A d \in Conns \ {c} : Up(d)' = Up(d)
  BY <1>1, <1>3, <1>4 DEF Up
<1>6. HistoryOK'
  BY <1>1 DEF ServiceInv, HistoryOK
<1>7. QED
  BY <1>1, <1>5, <1>6, ConnectMaps

(* A request in a worker's hands is for a connection that is up.           *)
LEMMA ServedIsUp ==
  ASSUME ServiceInv, NEW w \in Workers, NEW b \in Buffers, Serves(w, b), buf[b].phase < 1000,
         buf[b].req # None
  PROVE  /\ buf[b].req \in Requests /\ buf[b].req \in seen /\ decided[buf[b].req] = None
         /\ Up(ConnOf[buf[b].req]) = "up"
         /\ buf[b].phase = 0 => started[buf[b].req] = 0
<1>0. TypeOK /\ Own /\ BeginInv /\ OrderInv
  BY DEF ServiceInv
<1>1. worker[w].pc = "got" /\ worker[w].b = b /\ buf[b].lock = None /\ Holds("worker", w, b)
  BY <1>0, ServesBuffer
<1>2. \A a \in Buffers : b \notin Items(buf[a].to_wake)
  <2>1. \A a \in Buffers : b \in Items(buf[a].to_wake) => Holds("to_wake", a, b)
    BY DEF Holds, InWake
  <2>2. QED
    BY <1>0, <1>1, <2>1 DEF Own, Apart
<1>3. buf[b].req \in Requests
  BY <1>0 DEF TypeOK, BufOK, Contents
<1>4. buf[b].req \in seen /\ decided[buf[b].req] = None /\ Up(ConnOf[buf[b].req]) = "up"
  BY <1>0, <1>2 DEF OrderInv, Queries
<1>5. ASSUME buf[b].phase = 0 PROVE started[buf[b].req] = 0
  <2>1. ~Begun(b)
    BY <1>1, <1>5 DEF Begun
  <2>2. QED
    BY <1>0, <1>3, <2>1 DEF BeginInv, Marked
<1>6. QED
  BY <1>3, <1>4, <1>5

LEMMA BeginsOne ==
  ASSUME ServiceInv, NEW b \in Buffers, Begins(b)
  PROVE  \A q \in Requests : q # buf[b].req => started'[q] = started[q]
<1>1. started \in [Requests -> {0, 1}]
  BY DEF ServiceInv, BeginInv, Marked
<1>2. started' = started \/ started' = [started EXCEPT ![buf[b].req] = @ + 1]
  BY DEF Begins
<1>3. QED
  BY <1>1, <1>2

LEMMA EventAsksMaps ==
  ASSUME ServiceInv, NEW w \in Workers, EventAsks(w)
  PROVE  HistoryOK' /\ (Hidden \/ \E r \in Requests : Service!Begin(r))
<1>1. PICK b \in Buffers, k \in Kinds, e \in Conns :
        Serves(w, b) /\ buf[b].phase < 1000 /\ Begins(b) /\ Asks(w, b, e, k, 1)
  BY Zenon DEF EventAsks
<1>2. UNCHANGED <<conn, kernel>>
  BY <1>1 DEF Asks
<1>3. UNCHANGED <<decided, initDone>>
  BY Zenon DEF EventAsks
<1>4. UNCHANGED <<conn, initDone, seen, decided, answered, ready>>
  BY <1>2, <1>3 DEF kernel
<1>5. \A d \in Conns : Up(d)' = Up(d)
  BY <1>4 DEF Up
<1>6. HistoryOK'
  BY <1>4 DEF ServiceInv, HistoryOK
<1>7. started \in [Requests -> {0, 1}]
  BY DEF ServiceInv, BeginInv, Marked
<1>8. CASE UNCHANGED started
  BY <1>4, <1>5, <1>6, <1>8 DEF Hidden
<1>9. CASE started' # started
  <2>1. PICK r : r = buf[b].req
    OBVIOUS
  <2>2. started' = [started EXCEPT ![r] = @ + 1] /\ buf[b].phase = 0
    BY <1>1, <1>9, <2>1 DEF Begins
  <2>3. r \in Requests
    BY <1>7, <1>9, <2>2
  <2>4. buf[b].req # None
    BY <2>1, <2>3, Others
  <2>5. /\ r \in seen /\ decided[r] = None /\ Up(ConnOf[r]) = "up" /\ started[r] = 0
    BY <1>1, <2>1, <2>2, <2>4, ServedIsUp
  <2>6. started'[r] = 1 /\ \A q \in Requests \ {r} : started'[q] = started[q]
    BY <1>7, <2>2, <2>3, <2>5
  <2>7. Service!Begin(r)
    BY <1>4, <1>5, <2>3, <2>5, <2>6, BeginMaps
  <2>8. QED
    BY <1>6, <2>3, <2>7
<1>10. QED
  BY <1>8, <1>9

LEMMA EventDecidesMaps ==
  ASSUME ServiceInv, NEW w \in Workers, EventDecides(w)
  PROVE  /\ HistoryOK'
         /\ \/ Hidden
            \/ \E c \in Conns : Service!Initialise(c)
            \/ \E r \in Requests : Service!Decide(r)
<1>1. PICK b \in Buffers :
        /\ Serves(w, b) /\ buf[b].phase < 1000 /\ Begins(b)
        /\ IF buf[b].init
           THEN /\ buf' = [buf EXCEPT ![b].phase = 1000]
                /\ initDone' = initDone \cup {buf[b].comm}
                /\ UNCHANGED decided
           ELSE \E v \in Verdicts :
                  /\ buf' = [buf EXCEPT ![b] = [@ EXCEPT !.phase = 1000, !.verdict = v]]
                  /\ decided' = [decided EXCEPT ![buf[b].req] = v]
                  /\ UNCHANGED initDone
  BY ZenonT(60) DEF EventDecides
<1>0. Serves(w, b) /\ buf[b].phase < 1000 /\ Begins(b)
  BY <1>1, Zenon
<1>2. UNCHANGED <<conn, kernel>>
  BY Zenon DEF EventDecides
<1>3. UNCHANGED <<conn, seen, answered, ready>>
  BY <1>2 DEF kernel
<1>4. TypeOK /\ Own /\ OrderInv /\ HistoryOK
  BY DEF ServiceInv
<1>5. CASE buf[b].init
  <2>1. PICK c : c = buf[b].comm
    OBVIOUS
  <2>2. c \in Conns
    BY <1>0, <1>4, <2>1, ServesBuffer
  <2>3. started' = started
    BY <1>0, <1>5 DEF Begins
  <2>4. decided' = decided /\ initDone' = initDone \cup {c}
    BY <1>1, <1>5, <2>1, Zenon
  <2>5. conn[c].state = 1
    BY <1>4, <1>5, <2>1 DEF OrderInv, Inits
  <2>6. HistoryOK'
    BY <1>3, <1>4, <2>2, <2>4 DEF HistoryOK
  <2>7. Up(c)' = "up" /\ Up(c) \in {"starting", "up"} /\ \A d \in Conns \ {c} : Up(d)' = Up(d)
    BY <1>3, <2>4, <2>5 DEF Up
  <2>8. CASE Up(c) = "starting"
    <3>1. Service!Initialise(c)
      BY <1>3, <2>2, <2>3, <2>4, <2>7, <2>8, InitialiseMaps
    <3>2. QED
      BY <2>2, <2>6, <3>1
  <2>9. CASE Up(c) = "up"
    <3>1. Hidden
      BY <1>3, <2>3, <2>4, <2>7, <2>9 DEF Hidden
    <3>2. QED
      BY <2>6, <3>1
  <2>10. QED
    BY <2>7, <2>8, <2>9
<1>6. CASE ~buf[b].init
  <2>1. PICK r : r = buf[b].req
    OBVIOUS
  <2>2. PICK v \in Verdicts : decided' = [decided EXCEPT ![r] = v] /\ initDone' = initDone
    <3>1. \E v \in Verdicts :
            decided' = [decided EXCEPT ![buf[b].req] = v] /\ UNCHANGED initDone
      BY <1>1, <1>6, ZenonT(60)
    <3>2. PICK v \in Verdicts :
            decided' = [decided EXCEPT ![buf[b].req] = v] /\ UNCHANGED initDone
      BY <3>1, ZenonT(60)
    <3>3. QED
      BY <2>1, <3>2, ZenonT(60)
  <2>3. HistoryOK'
    <3>1. decided' \in [Requests -> Verdicts \cup {None}]
      BY <1>4, <2>2 DEF HistoryOK
    <3>2. QED
      BY <1>3, <1>4, <2>2, <3>1 DEF HistoryOK
  <2>4. \A d \in Conns : Up(d)' = Up(d)
    BY <1>3, <2>2 DEF Up
  <2>5. \A q \in Requests \ {r} : started'[q] = started[q]
    BY <1>0, <2>1, BeginsOne
  <2>6. CASE r \in Requests
    <3>1. r \in seen /\ decided[r] = None /\ Up(ConnOf[r]) = "up"
      BY <1>0, <2>1, <2>6, ServedIsUp, Others
    <3>2. Service!Decide(r)
      BY <1>3, <1>4, <2>2, <2>4, <2>5, <2>6, <3>1, DecideMaps DEF HistoryOK
    <3>3. QED
      BY <2>3, <2>6, <3>2
  <2>7. CASE r \notin Requests
    <3>1. decided' = decided
      BY <1>4, <2>2, <2>7 DEF HistoryOK
    <3>2. started \in [Requests -> {0, 1}]
      BY DEF ServiceInv, BeginInv, Marked
    <3>3. started' = started
      BY <1>0, <2>1, <2>7, <3>2 DEF Begins
    <3>4. Hidden
      BY <1>3, <2>4, <3>1, <3>3 DEF Hidden
    <3>5. QED
      BY <2>3, <3>4
  <2>8. QED
    BY <2>6, <2>7
<1>7. QED
  BY <1>5, <1>6

LEMMA WriterWritesMaps ==
  ASSUME ServiceInv, NEW c \in Conns, WriterWrites(c)
  PROVE  /\ HistoryOK'
         /\ Hidden \/ Service!Welcome(c) \/ \E r \in Requests : Service!Reply(r)
<1>0. HistoryOK
  BY DEF ServiceInv
<1>1. /\ \/ UNCHANGED answered
         \/ \E r \in Requests : /\ answered[r] = <<>> /\ decided[r] \in Verdicts
                               /\ answered' = [answered EXCEPT ![r] = <<decided[r]>>]
                               /\ UNCHANGED ready
      /\ \/ UNCHANGED ready
         \/ /\ Up(c) = "up" /\ ready' = [ready EXCEPT ![c] = @ + 1]
            /\ UNCHANGED answered
  BY WriterWritesMoves DEF ServiceInv
<1>2. UNCHANGED <<conn, initDone, seen, started, decided>>
  BY DEF WriterWrites, Delivers, history
<1>3. \A d \in Conns : Up(d)' = Up(d)
  BY <1>2 DEF Up
<1>4. HistoryOK'
  <2>1. answered' \in [Requests -> {<<>>} \cup {<<v>> : v \in Verdicts}]
    BY <1>0, <1>1 DEF HistoryOK
  <2>2. ready' \in [Conns -> Nat]
    BY <1>0, <1>1 DEF HistoryOK
  <2>3. QED
    BY <1>0, <1>2, <2>1, <2>2 DEF HistoryOK
<1>5. CASE UNCHANGED <<answered, ready>>
  BY <1>2, <1>3, <1>4, <1>5 DEF Hidden
<1>6. ASSUME NEW r \in Requests, answered[r] = <<>>, decided[r] \in Verdicts,
             answered' = [answered EXCEPT ![r] = <<decided[r]>>], UNCHANGED ready
      PROVE  Service!Reply(r)
  BY <1>2, <1>3, <1>6, ReplyMaps
<1>7. ASSUME Up(c) = "up", ready' = [ready EXCEPT ![c] = @ + 1], UNCHANGED answered
      PROVE  Service!Welcome(c)
  BY <1>0, <1>2, <1>3, <1>7, WelcomeMaps DEF HistoryOK
<1>8. QED
  BY <1>1, <1>4, <1>5, <1>6, <1>7

(* ... and every step is one of the service, or hidden.                    *)
LEMMA NextMaps ==
  ASSUME ServiceInv, Orderly, [Next]_vars
  PROVE  HistoryOK' /\ [Service!Next]_(Service!vars)
<1>0. TypeOK /\ Unbroken /\ HistoryOK
  BY DEF ServiceInv
<1>1. ASSUME Hidden PROVE [Service!Next]_(Service!vars)
  BY <1>1, HiddenStutters
<1>2. ASSUME UNCHANGED Public PROVE HistoryOK' /\ Hidden
  BY <1>0, <1>2, PublicHidden
<1>3. ASSUME Hidden, UNCHANGED initDone PROVE HistoryOK'
  BY <1>0, <1>3 DEF Hidden, HistoryOK
<1>4. ASSUME NEW c \in Conns, KernelMoves(c) \/ ReadsAnswer(c)
      PROVE  HistoryOK' /\ (Hidden \/ \E r \in Requests : Service!Ask(r))
  <2>1. ~ReadFails(c)
    BY <1>0, NoneCloses
  <2>2. QED
    BY <1>2, <1>4, <2>1, KernelHidden, ReadsQueryMaps DEF KernelMoves
<1>5. ASSUME NEW c \in Conns, ReaderStep(c) PROVE HistoryOK' /\ (Hidden \/ Service!Connect(c))
  <2>1. ~QueryRefused(c) /\ ~InitRefused(c) /\ ~ReaderFails(c)
    BY <1>0, NoneCloses
  <2>2. CASE ReadyRequest(c) \/ QueryInits(c)
    BY <2>2, ReaderInitsMaps
  <2>3. CASE ~(ReadyRequest(c) \/ QueryInits(c))
    BY <1>2, <1>5, <2>1, <2>3, ReaderHidden DEF ReaderStep
  <2>4. QED
    BY <2>2, <2>3
<1>6. ASSUME NEW c \in Conns, WriterStep(c)
      PROVE  /\ HistoryOK'
             /\ Hidden \/ Service!Welcome(c) \/ \E r \in Requests : Service!Reply(r)
  <2>1. ~WriterFails(c)
    BY <1>0, NoneCloses
  <2>2. QED
    BY <1>2, <1>6, <2>1, WriterHidden, WriterWritesMaps DEF WriterStep
<1>7. ASSUME NEW w \in Workers, WorkerStep(w)
      PROVE  /\ HistoryOK'
             /\ \/ Hidden
                \/ \E c \in Conns : Service!Initialise(c)
                \/ \E r \in Requests : Service!Begin(r) \/ Service!Decide(r)
  <2>1. CASE EventAsks(w)
    BY <2>1, EventAsksMaps
  <2>2. CASE EventDecides(w)
    BY <2>2, EventDecidesMaps
  <2>3. CASE ~(EventAsks(w) \/ EventDecides(w))
    <3>1. Hidden
      BY <1>0, <1>7, <2>3, WorkerHidden DEF WorkerStep
    <3>2. UNCHANGED initDone
      <4>1. CASE AnswerUpdates(w)
        BY <4>1, Zenon DEF AnswerUpdates, history
      <4>2. CASE AnswerSends(w) \/ InitWakes(w)
        BY <4>2, Zenon DEF AnswerSends, InitWakes, history
      <4>3. CASE WorkerTakes(w) \/ Resizes(w) \/ WorkerFrees(w) \/ WorkerSends(w)
        BY <4>3 DEF WorkerTakes, Resizes, WorkerFrees, WorkerSends, history
      <4>4. CASE WorkerParks(w) \/ InitFrees(w) \/ InitClears(w)
        BY <4>4 DEF WorkerParks, InitFrees, InitClears, history
      <4>5. QED
        BY <1>7, <2>3, <4>1, <4>2, <4>3, <4>4 DEF WorkerStep
    <3>3. QED
      BY <1>3, <3>1, <3>2
  <2>4. QED
    BY <2>1, <2>2, <2>3
<1>8. ~MainReturns /\ \A c \in Conns : ~CloseStep(c)
  BY <1>0, CommAssumption, NoneCloses
<1>9. CASE UNCHANGED vars \/ Done
  <2>1. UNCHANGED Public
    BY <1>9 DEF Done, vars, Public, shared, kernel, history
  <2>2. QED
    BY <1>1, <1>2, <2>1
<1>10. ASSUME NEW c \in Conns,
              KernelMoves(c) \/ ReadsAnswer(c) \/ ReaderStep(c) \/ WriterStep(c)
       PROVE  HistoryOK' /\ [Service!Next]_(Service!vars)
  BY <1>1, <1>4, <1>5, <1>6, <1>10 DEF Service!Next
<1>11. ASSUME NEW w \in Workers, WorkerStep(w)
       PROVE  HistoryOK' /\ [Service!Next]_(Service!vars)
  BY <1>1, <1>7, <1>11 DEF Service!Next
<1>12. QED
  BY <1>8, <1>9, <1>10, <1>11 DEF Next

LEMMA InitService == Init => ServiceInv
<1> SUFFICES ASSUME Init PROVE ServiceInv
  OBVIOUS
<1>1. TypeOK /\ Own /\ BeginInv /\ Unbroken /\ OrderInv /\ HistoryOK
  BY InitTypes, InitOwn, InitBegin, InitOrder
<1>2. WritersIdle
  BY DEF Init, WritersIdle, WriterIdle
<1>3. /\ \A b \in Buffers : buf[b].msg = None /\ buf[b].req = None
      /\ \A c \in Conns : Items(output[c]) = {}
      /\ \A w \in Workers : worker[w].pc = "idle"
  BY DEF Init, Blank, Items, WorkerIdle
<1>4. Outputs
  BY <1>3 DEF Outputs, MailOK
<1>5. Replies
  BY <1>3, Others DEF Replies, Replying, IsAnswer, Owing, Init
<1>6. QED
  BY <1>1, <1>2, <1>4, <1>5 DEF ServiceInv

LEMMA InitMaps == Init => Service!Init
<1> SUFFICES ASSUME Init PROVE Service!Init
  OBVIOUS
<1>1. \A c \in Conns : Up(c) = "new" /\ ~(ready[c] > 0)
  <2>1. \A c \in Conns : conn[c].state = 0
    BY DEF Init
  <2>2. \A c \in Conns : ready[c] = 0
    BY DEF Init
  <2>3. QED
    BY <2>1, <2>2 DEF Up
<1>2. \A r \in Requests : Stage(r) = "unsent"
  BY DEF Init, Stage
<1>3. QED
  BY <1>1, <1>2 DEF Service!Init, Init

(* All of it is inductive.                                                 *)
LEMMA NextService ==
  ASSUME Orderly, ServiceInv, InitBufferStays, [Next]_vars PROVE ServiceInv'
<1>1. /\ TypeOK /\ Own /\ BeginInv /\ Unbroken /\ OrderInv /\ WritersIdle
      /\ HistoryOK /\ Outputs /\ Replies
  BY DEF ServiceInv
<1>2. TypeOK' /\ Own' /\ BeginInv' /\ Unbroken'
  BY <1>1, OwnKnown, NextTypes, NextOwn, NextBegin, NextUnbroken
<1>3. OrderInv' /\ WritersIdle'
  BY <1>1, NextOrder, NextWriters DEF HistoryOK, DecidedOK
<1>4. HistoryOK' /\ Outputs' /\ Replies'
  BY NextMail, NextMaps
<1>5. QED
  BY <1>2, <1>3, <1>4 DEF ServiceInv

(* While every connection holds, no _init() is cut short, and CommService's *)
(* two readings of "up" are one.                                           *)
LEMMA NothingCutShort == Unbroken => [c \in Conns |-> Owed(c)] = [c \in Conns |-> Up(c)]
BY DEF Unbroken, Owed

LEMMA StartsAgree == Unbroken /\ Service!Init => Unbound!Init
BY NothingCutShort, Zenon DEF Service!Init, Unbound!Init

LEMMA StepsAgree ==
  Unbroken /\ Unbroken' /\ [Service!Next]_(Service!vars) => [Unbound!Next]_(Unbound!vars)
<1> SUFFICES ASSUME Unbroken, Unbroken', [Service!Next]_(Service!vars)
             PROVE  [Unbound!Next]_(Unbound!vars)
  OBVIOUS
<1>1. /\ [c \in Conns |-> Owed(c)] = [c \in Conns |-> Up(c)]
      /\ [c \in Conns |-> Owed(c)]' = [c \in Conns |-> Up(c)]'
  <2>1. [c \in Conns |-> Owed(c)] = [c \in Conns |-> Up(c)]
    BY NothingCutShort
  <2>2. [c \in Conns |-> Owed(c)]' = [c \in Conns |-> Up(c)]'
    BY DEF Unbroken, Owed
  <2>3. QED
    BY <2>1, <2>2
<1>2. CASE UNCHANGED Service!vars
  BY <1>1, <1>2, Zenon DEF Service!vars, Unbound!vars
<1>3. ASSUME NEW c \in Conns, Service!Connect(c) PROVE Unbound!Connect(c)
  BY <1>1, <1>3, Zenon DEF Service!Connect, Unbound!Connect
<1>4. ASSUME NEW c \in Conns, Service!Initialise(c) PROVE Unbound!Initialise(c)
  BY <1>1, <1>4, Zenon DEF Service!Initialise, Unbound!Initialise
<1>5. ASSUME NEW c \in Conns, Service!Welcome(c) PROVE Unbound!Welcome(c)
  BY <1>1, <1>5, Zenon DEF Service!Welcome, Unbound!Welcome
<1>6. ASSUME NEW r \in Requests, Service!Ask(r) PROVE Unbound!Ask(r)
  BY <1>1, <1>6, Zenon DEF Service!Ask, Unbound!Ask
<1>7. ASSUME NEW r \in Requests, Service!Begin(r) PROVE Unbound!Begin(r)
  BY <1>1, <1>7, Zenon DEF Service!Begin, Unbound!Begin
<1>8. ASSUME NEW r \in Requests, Service!Decide(r) PROVE Unbound!Decide(r)
  BY <1>1, <1>8, Zenon DEF Service!Decide, Unbound!Decide
<1>9. ASSUME NEW r \in Requests, Service!Reply(r) PROVE Unbound!Reply(r)
  BY <1>1, <1>9, Zenon DEF Service!Reply, Unbound!Reply
<1>10. QED
  BY <1>2, <1>3, <1>4, <1>5, <1>6, <1>7, <1>8, <1>9, Zenon DEF Service!Next, Unbound!Next

(* Whatever the workers, readers and writers do and in whatever order,     *)
(* kernels that keep their connections see what AuthService promises: a    *)
(* connection is initialised once and READY_ANSWER comes after its         *)
(* _init(); handlers run only when that is over (mcp_r_query(),            *)
(* comm_conn_init()); a request is decided once and answered once, with    *)
(* its own verdict (comm_worker(), mcp_answer()). Unless the buffer of an  *)
(* _init() moves when it grows: comm_buf_free() of the old one would then  *)
(* send READY_ANSWER too early.                                            *)
THEOREM OrderlyKernelsServed ==
  Orderly => (Spec /\ []InitBufferStays => ImplementsServiceSafely)
<1> SUFFICES ASSUME Orderly PROVE Spec /\ []InitBufferStays => ImplementsServiceSafely
  OBVIOUS
<1>1. ServiceInv /\ InitBufferStays /\ [Next]_vars => ServiceInv'
  BY NextService
<1>2. ServiceInv /\ ServiceInv' /\ [Next]_vars => [Unbound!Next]_(Unbound!vars)
  BY NextMaps, StepsAgree DEF ServiceInv
<1>3. Init => Unbound!Init
  BY InitService, InitMaps, StartsAgree DEF ServiceInv
<1>4. QED
  BY <1>1, <1>2, <1>3, InitService, PTL DEF Spec, ImplementsServiceSafely, Unbound!SafetySpec

(* Where no tree tracks hierarchy no buffer ever grows (comm_var_data_size *)
(* is 0), and the service is kept without any condition on the buffers.    *)
THEOREM FixedBuffersServed ==
  Orderly /\ ~VarData => (Spec => ImplementsServiceSafely)
<1> SUFFICES ASSUME Orderly, ~VarData PROVE Spec => ImplementsServiceSafely
  OBVIOUS
<1>1. InitBufferStays
  BY DEF InitBufferStays
<1>2. QED
  BY <1>1, OrderlyKernelsServed, PTL

-----------------------------------------------------------------------------
(* The way of an operation: its number, the buffer that waits for it, the  *)
(* message that carries it, and the answer a handler finds.                *)

(* o has a number that fetch_object() or update_object() gave out.         *)
Issued(o) == 2 <= o.seq /\ o.seq < ids[o.kind]

(* Operation o is in buffer r, and no kernel has it yet.                   *)
Carries(r, o) == buf[r].msg = o /\ \A c \in Conns : writer[c].b # r

(* Reader c has an answer to o, or what a kernel says is one.              *)
Brings(c, o) == reader[c].pc = "answer" /\ reader[c].msg.op = o

(* No handler fetches or updates an object of another connection than the  *)
(* one its event came from.                                                *)
OwnObjects == \A c \in Conns : ObjectsOf[c] \subseteq {c}

(* A buffer waits for the answer to o.                                     *)
Awaits(o) == \E b \in Items(wait[o.comm]) : buf[b].op = o

Told(o, out) == o \in DOMAIN told /\ told[o] = out

Numbered ==
  /\ \A k \in Kinds : 2 <= ids[k]
  /\ \A b \in Buffers : /\ buf[b].op # None => Issued(buf[b].op)
                        /\ buf[b].msg \in Ops => Issued(buf[b].msg)
  /\ \A o \in asked : o \in Ops /\ Issued(o)

(* An operation is one buffer's, and on one way to its answer.             *)
Distinct ==
  /\ \A a, b \in Buffers : buf[a].op # None /\ buf[a].op = buf[b].op => a = b
  /\ \A a, b \in Buffers, o \in Ops : Carries(a, o) /\ Carries(b, o) => a = b
  /\ \A a \in Buffers, o \in asked : ~Carries(a, o)
  /\ \A c \in Conns : reader[c].pc = "answer" =>
       /\ reader[c].msg.op \notin asked
       /\ reader[c].msg.op \in Ops => \A a \in Buffers : ~Carries(a, reader[c].msg.op)

Waiting ==
  \A c \in Conns : \A b \in Items(wait[c]) :
    /\ buf[b].op \in Ops /\ buf[b].op.comm = c
    /\ buf[b].waiting = [to |-> buf[b].op.kind, seq |-> buf[b].op.seq]
    /\ buf[b].user_data = "error"

Awaited ==
  /\ \A o \in asked : Awaits(o)
  /\ \A r \in Buffers, o \in Ops : Carries(r, o) => Awaits(o)
  /\ \A c \in Conns : reader[c].pc = "answer" /\ reader[c].msg.op.seq # 1 =>
       /\ reader[c].msg.op \in Ops /\ reader[c].msg.op.comm = c
       /\ Awaits(reader[c].msg.op) /\ Told(reader[c].msg.op, reader[c].msg.outcome)

Fetched ==
  \A c \in Conns : reader[c].pc = "body" =>
    buf[reader[c].p].op # None /\ Told(buf[reader[c].p].op, "ok")

(* A handler (or mcp_answer()) has asked, and do_phase says so or will.    *)
Acts(b) ==
  \/ buf[b].phase \in Resumes
  \/ \E w \in Workers : worker[w].pc \in {"send", "park"} /\ worker[w].b = b

Back(b) ==
  b \in Items(todo) \/ \E w \in Workers : worker[w].b = b /\ worker[w].pc = "got"

Resumed ==
  \A b \in Buffers : Back(b) /\ Acts(b) =>
    buf[b].op # None /\ Told(buf[b].op, buf[b].user_data)

(* No handler has run in a buffer that waits for _init() or is about to be *)
(* queued, or that has to grow.                                            *)
Untouched ==
  /\ \A a \in Buffers : \A b \in Items(buf[a].to_wake) : buf[b].phase = 0
  /\ \A c \in Conns : reader[c].pc = "todo" => buf[reader[c].b].phase = 0
  /\ \A b \in Buffers : VarData /\ ~buf[b].room => buf[b].op = None /\ buf[b].msg = None

(* What is queued for a writer is a message to its kernel.                 *)
Mailed ==
  /\ \A c \in Conns : \A b \in Items(output[c]) : buf[b].msg # None /\ buf[b].comm = c
  /\ \A w \in Workers : worker[w].pc = "send" => buf[worker[w].r].msg # None
  /\ \A b \in Buffers : buf[b].msg \in Ops => buf[b].msg.comm = buf[b].comm

AnswerInv ==
  /\ Numbered /\ Distinct /\ Waiting /\ Awaited /\ Fetched /\ Resumed /\ Untouched /\ Mailed

-----------------------------------------------------------------------------
Retains(b) ==
  /\ buf'[b].op = buf[b].op /\ buf'[b].waiting = buf[b].waiting
  /\ buf'[b].user_data = buf[b].user_data

(* Operation o is not under way any more.                                  *)
Answered(o) ==
  /\ o \notin asked /\ \A r \in Buffers : ~Carries(r, o)
  /\ \A c \in Conns : reader'[c].pc = "answer" => reader'[c].msg.op # o

(* A step that sends no operation to a kernel and reads no answer to one.  *)
ToldNow(o, out) == o \in DOMAIN told' /\ told'[o] = out

(* A buffer keeps its operation and its message, or has none.              *)
Intact(b) ==
  /\ buf'[b].op = buf[b].op /\ buf'[b].room = buf[b].room
  /\ buf'[b].msg = buf[b].msg /\ buf'[b].comm = buf[b].comm
  /\ \A c \in Conns : writer[c].b = b => writer'[c].b = b

Vacant(b) ==
  /\ buf'[b].op = None /\ buf'[b].msg \notin Ops
  /\ buf'[b].room \/ buf'[b].msg = None

Undisturbed ==
  /\ UNCHANGED <<ids, asked>>
  /\ \A b \in Buffers :
       /\ Intact(b) \/ Vacant(b)
       /\ buf'[b].op # None /\ buf'[b].op \in DOMAIN told =>
            ToldNow(buf'[b].op, told[buf'[b].op])
       /\ Back(b)' /\ Acts(b)' =>
            \/ Back(b) /\ Acts(b) /\ Retains(b)
            \/ buf'[b].op # None /\ ToldNow(buf'[b].op, buf'[b].user_data)
       /\ \A a \in Items(buf'[b].to_wake) : buf'[a].phase = 0
  /\ \A c \in Conns :
       /\ Items(wait'[c]) \subseteq Items(wait[c])
       /\ \A b \in Items(wait'[c]) : Retains(b)
       /\ \A b \in Items(wait[c]) \ Items(wait'[c]) : Answered(buf[b].op)
       /\ reader'[c].pc = "answer" =>
            reader'[c] = reader[c] \/ reader'[c].msg.op.seq = 1
       /\ reader'[c].pc = "body" =>
            \/ reader'[c] = reader[c] /\ Retains(reader[c].p)
            \/ buf'[reader'[c].p].op # None /\ ToldNow(buf'[reader'[c].p].op, "ok")
       /\ reader'[c].pc = "todo" => buf'[reader'[c].b].phase = 0
       /\ \A b \in Items(output'[c]) :
            \/ b \in Items(output[c]) /\ Intact(b)
            \/ buf'[b].msg # None /\ buf'[b].comm = c
  /\ \A w \in Workers : worker'[w].pc = "send" =>
       \/ worker[w].pc = "send" /\ worker'[w].r = worker[w].r /\ Intact(worker[w].r)
       \/ buf'[worker'[w].r].msg # None

LEMMA OpsKnown ==
  ASSUME TypeOK
  PROVE  /\ None \notin Ops
         /\ \A b \in Buffers : buf[b].op \in Ops \cup {None}
         /\ \A c \in Conns : Items(wait[c]) \subseteq Buffers /\ Items(output[c]) \subseteq Buffers
         /\ \A a \in Buffers : Items(buf[a].to_wake) \subseteq Buffers
         /\ \A c \in Conns : reader[c].pc = "body" => reader[c].p \in Buffers
         /\ \A w \in Workers : worker[w].pc = "send" => worker[w].r \in Buffers
<1>1. None \notin Ops
  BY MessageAssumption DEF Ops
<1>2. \A b \in Buffers : buf[b].op \in Ops \cup {None} /\ buf[b].to_wake \in Seq(Buffers)
  BY DEF TypeOK, BufOK, Contents
<1>3. \A c \in Conns : wait[c] \in Seq(Buffers) /\ output[c] \in Seq(Buffers)
  BY DEF TypeOK, WaitOK, OutputOK, Queues
<1>4. QED
  BY <1>1, <1>2, <1>3, ItemsTyped DEF TypeOK, ReaderOK, WorkerOK

LEMMA UndisturbedInv ==
  ASSUME TypeOK, TypeOK', AnswerInv, Undisturbed PROVE AnswerInv'
<1>0. /\ Numbered /\ Distinct /\ Waiting /\ Awaited /\ Fetched /\ Resumed /\ Untouched /\ Mailed
      /\ UNCHANGED <<ids, asked>>
  BY DEF AnswerInv, Undisturbed
<1>1. /\ None \notin Ops
      /\ \A b \in Buffers : buf[b].op \in Ops \cup {None}
      /\ \A c \in Conns : Items(wait[c]) \subseteq Buffers /\ Items(output[c]) \subseteq Buffers
      /\ \A c \in Conns : reader[c].pc = "body" => reader[c].p \in Buffers
      /\ \A w \in Workers : worker[w].pc = "send" => worker[w].r \in Buffers
  BY OpsKnown
<1>2. \A o : Issued(o)' = Issued(o)
  BY <1>0 DEF Issued
<1>3. \A r \in Buffers, o \in Ops : Carries(r, o)' => Carries(r, o)
  BY DEF Undisturbed, Carries, Intact, Vacant
<1>4. ASSUME NEW o \in Ops, Awaits(o), ~Answered(o) PROVE Awaits(o)'
  <2>1. PICK b \in Items(wait[o.comm]) : buf[b].op = o
    BY <1>4 DEF Awaits
  <2>2. o.comm \in Conns
    BY DEF Ops
  <2>3. b \in Items(wait'[o.comm]) /\ Retains(b)
    BY <1>4, <2>1, <2>2 DEF Undisturbed
  <2>4. QED
    BY <2>1, <2>3 DEF Awaits, Retains
<1>5. Numbered'
  BY <1>0, <1>2 DEF Numbered, Undisturbed, Intact, Vacant
<1>6. Distinct'
  <2>1. \A a, b \in Buffers : buf'[a].op # None /\ buf'[a].op = buf'[b].op => a = b
    BY <1>0 DEF Distinct, Undisturbed, Intact, Vacant
  <2>2. \A a, b \in Buffers, o \in Ops : Carries(a, o)' /\ Carries(b, o)' => a = b
    BY <1>0, <1>3 DEF Distinct
  <2>3. \A a \in Buffers, o \in asked' : ~Carries(a, o)'
    BY <1>0, <1>3 DEF Distinct, Numbered
  <2>4. ASSUME NEW c \in Conns, reader'[c].pc = "answer", NEW o, o = reader'[c].msg.op
        PROVE  o \notin asked' /\ (o \in Ops => \A a \in Buffers : ~Carries(a, o)')
    <3>1. CASE reader'[c] = reader[c]
      BY <1>0, <1>3, <2>4, <3>1 DEF Distinct
    <3>2. CASE reader'[c].msg.op.seq = 1
      <4>1. ~Issued(o)
        BY <2>4, <3>2 DEF Issued
      <4>2. \A a \in Buffers : o \in Ops /\ Carries(a, o) => Issued(o)
        BY <1>0 DEF Numbered, Carries
      <4>3. o \notin asked
        BY <1>0, <4>1 DEF Numbered
      <4>4. QED
        BY <1>0, <1>3, <4>1, <4>2, <4>3
    <3>3. QED
      BY <2>4, <3>1, <3>2 DEF Undisturbed
  <2>5. QED
    BY <2>1, <2>2, <2>3, <2>4 DEF Distinct
<1>7. Waiting'
  <2>1. ASSUME NEW c \in Conns, NEW b \in Items(wait'[c])
        PROVE  /\ buf'[b].op \in Ops /\ buf'[b].op.comm = c
               /\ buf'[b].waiting = [to |-> buf'[b].op.kind, seq |-> buf'[b].op.seq]
               /\ buf'[b].user_data = "error"
    <3>1. b \in Items(wait[c]) /\ Retains(b)
      BY DEF Undisturbed
    <3>2. QED
      BY <1>0, <3>1 DEF Waiting, Retains
  <2>2. QED
    BY <2>1 DEF Waiting
<1>8. Awaited'
  <2>1. \A o \in asked' : Awaits(o)'
    BY <1>0, <1>4 DEF Awaited, Numbered, Answered
  <2>2. \A r \in Buffers, o \in Ops : Carries(r, o)' => Awaits(o)'
    BY <1>0, <1>3, <1>4 DEF Awaited, Answered
  <2>3. ASSUME NEW c \in Conns, reader'[c].pc = "answer", reader'[c].msg.op.seq # 1,
               NEW o, o = reader'[c].msg.op
        PROVE  o \in Ops /\ o.comm = c /\ Awaits(o)' /\ ToldNow(o, reader'[c].msg.outcome)
    <3>1. reader'[c] = reader[c]
      BY <2>3 DEF Undisturbed
    <3>2. o = reader[c].msg.op
      BY <2>3, <3>1
    <3>3. o \in Ops /\ o.comm = c /\ Awaits(o) /\ Told(o, reader[c].msg.outcome)
      BY <1>0, <2>3, <3>1, <3>2 DEF Awaited
    <3>4. Awaits(o)'
      BY <1>4, <2>3, <3>1, <3>2, <3>3 DEF Answered
    <3>5. PICK b \in Items(wait'[c]) : buf'[b].op = o
      BY <3>3, <3>4 DEF Awaits
    <3>6. b \in Buffers
      BY <1>1, <3>5 DEF Undisturbed
    <3>7. ToldNow(o, told[o])
      BY <1>1, <3>3, <3>5, <3>6 DEF Undisturbed, Told
    <3>8. QED
      BY <3>1, <3>2, <3>3, <3>4, <3>7 DEF Told, ToldNow
  <2>4. \A c \in Conns : reader'[c].pc = "answer" /\ reader'[c].msg.op.seq # 1 =>
          /\ reader'[c].msg.op \in Ops /\ reader'[c].msg.op.comm = c
          /\ Awaits(reader[c].msg.op)' /\ Told(reader[c].msg.op, reader[c].msg.outcome)'
    BY <2>3 DEF Awaits, Told, ToldNow
  <2>5. QED
    BY <2>1, <2>2, <2>4 DEF Awaited
<1>9. Fetched'
  <2>1. ASSUME NEW c \in Conns, reader'[c].pc = "body", NEW p, p = reader'[c].p
        PROVE  buf'[p].op # None /\ ToldNow(buf'[p].op, "ok")
    <3>1. CASE reader'[c] = reader[c] /\ Retains(reader[c].p)
      <4>1. p \in Buffers /\ buf'[p].op = buf[p].op /\ buf[p].op # None /\ Told(buf[p].op, "ok")
        BY <1>0, <1>1, <2>1, <3>1 DEF Fetched, Retains
      <4>2. ToldNow(buf'[p].op, told[buf'[p].op])
        BY <4>1 DEF Undisturbed, Told
      <4>3. QED
        BY <4>1, <4>2 DEF Told
    <3>2. QED
      BY <2>1, <3>1 DEF Undisturbed
  <2>2. QED
    BY <2>1 DEF Fetched, Told, ToldNow
<1>10. Resumed'
  <2>1. ASSUME NEW b \in Buffers, Back(b)', Acts(b)'
        PROVE  buf'[b].op # None /\ ToldNow(buf'[b].op, buf'[b].user_data)
    <3>1. CASE Back(b) /\ Acts(b) /\ Retains(b)
      <4>1. /\ buf'[b].op = buf[b].op /\ buf'[b].user_data = buf[b].user_data
            /\ buf[b].op # None /\ Told(buf[b].op, buf[b].user_data)
        BY <1>0, <3>1 DEF Resumed, Retains
      <4>2. ToldNow(buf'[b].op, told[buf'[b].op])
        BY <4>1 DEF Undisturbed, Told
      <4>3. QED
        BY <4>1, <4>2 DEF Told
    <3>2. QED
      BY <2>1, <3>1 DEF Undisturbed
  <2>2. QED
    BY <2>1 DEF Resumed, Told, ToldNow
<1>11. Untouched'
  BY <1>0 DEF Untouched, Undisturbed, Intact, Vacant
<1>12. Mailed'
  BY <1>0, <1>1 DEF Mailed, Undisturbed, Intact, Vacant
<1>13. QED
  BY <1>5, <1>6, <1>7, <1>8, <1>9, <1>10, <1>11, <1>12 DEF AnswerInv

-----------------------------------------------------------------------------
(* Most steps leave all of this alone. *)

(* A buffer that nobody works on is awaited by nobody either.              *)
LEMMA NotWanted ==
  ASSUME OrderInv, NEW b, ~Busy(b)
  PROVE  /\ ~Back(b) /\ \A c \in Conns : b \notin Items(wait[c]) /\ reader[c].p # b
         /\ \A w \in Workers : worker[w].pc \in {"send", "park"} => worker[w].b # b
BY DEF Busy, Back, OrderInv, Parked

(* The buffers that wait go on waiting, and no handler is resumed.         *)
Steady ==
  /\ UNCHANGED <<ids, asked, wait>>
  /\ \A b \in Buffers :
       /\ Intact(b) \/ Vacant(b)
       /\ Busy(b) => Retains(b)
       /\ buf'[b].op # None /\ buf'[b].op \in DOMAIN told =>
            ToldNow(buf'[b].op, told[buf'[b].op])
       /\ Back(b)' /\ Acts(b)' => Back(b) /\ Acts(b)
       /\ \A a \in Items(buf'[b].to_wake) : buf'[a].phase = 0
  /\ \A c \in Conns :
       /\ reader'[c].pc = "answer" => reader'[c] = reader[c] \/ reader'[c].msg.op.seq = 1
       /\ reader'[c].pc = "body" => reader'[c] = reader[c]
       /\ reader'[c].pc = "todo" => buf'[reader'[c].b].phase = 0
       /\ \A b \in Items(output'[c]) :
            \/ b \in Items(output[c]) /\ Intact(b)
            \/ buf'[b].msg # None /\ buf'[b].comm = c
  /\ \A w \in Workers : worker'[w].pc = "send" =>
       worker[w].pc = "send" /\ worker'[w].r = worker[w].r /\ Intact(worker[w].r)

LEMMA SteadyInv == ASSUME TypeOK, TypeOK', AnswerInv, Steady PROVE AnswerInv'
<1>1. \A c \in Conns : Items(wait[c]) \subseteq Buffers
  BY OpsKnown
<1>2. \A c \in Conns : reader[c].pc = "body" => reader[c].p \in Buffers
  BY OpsKnown
<1>3. \A b \in Buffers : Back(b) => Busy(b)
  BY DEF Back, Busy
<1>4. Undisturbed
  <2>1. \A c \in Conns : \A b \in Items(wait[c]) : Retains(b)
    BY <1>1 DEF Steady, Busy
  <2>2. \A c \in Conns : reader[c].pc = "body" => Retains(reader[c].p)
    BY <1>2 DEF Steady, Busy
  <2>3. \A b \in Buffers : Back(b) => Retains(b)
    BY <1>3 DEF Steady
  <2>4. QED
    BY <2>1, <2>2, <2>3 DEF Undisturbed, Steady
<1>5. QED
  BY <1>4, UndisturbedInv

(* Buffers that stay as they are.                                          *)
LEMMA BufStays ==
  ASSUME TypeOK, AnswerInv, UNCHANGED <<buf, told>>,
         \A c \in Conns : writer[c].b \in Buffers => writer'[c].b = writer[c].b
  PROVE  \A b \in Buffers :
           /\ Intact(b) /\ Retains(b)
           /\ buf'[b].op # None /\ buf'[b].op \in DOMAIN told =>
                ToldNow(buf'[b].op, told[buf'[b].op])
           /\ \A a \in Items(buf'[b].to_wake) : buf'[a].phase = 0
BY DEF Intact, Retains, ToldNow, AnswerInv, Untouched

LEMMA StillSteady ==
  ASSUME TypeOK, AnswerInv, UNCHANGED <<buf, told, ids, asked, wait>>,
         \A c \in Conns : writer[c].b \in Buffers => writer'[c].b = writer[c].b,
         \A b \in Buffers : Back(b)' /\ Acts(b)' => Back(b) /\ Acts(b),
         \A c \in Conns :
           \/ reader'[c] = reader[c] \/ reader'[c].pc \notin {"answer", "body", "todo"}
           \/ reader'[c].pc = "answer" /\ reader'[c].msg.op.seq = 1,
         \A c \in Conns : \A b \in Items(output'[c]) :
           b \in Items(output[c]) \/ (buf[b].msg # None /\ buf[b].comm = c),
         \A w \in Workers : worker'[w].pc = "send" =>
           worker[w].pc = "send" /\ worker'[w].r = worker[w].r
  PROVE  Steady
<1>1. \A b \in Buffers :
        /\ Intact(b) /\ Retains(b)
        /\ buf'[b].op # None /\ buf'[b].op \in DOMAIN told =>
             ToldNow(buf'[b].op, told[buf'[b].op])
        /\ \A a \in Items(buf'[b].to_wake) : buf'[a].phase = 0
  BY BufStays
<1>2. /\ \A c \in Conns : Items(output[c]) \subseteq Buffers
      /\ \A w \in Workers : worker[w].pc = "send" => worker[w].r \in Buffers
  BY OpsKnown
<1>3. \A c \in Conns : reader[c].pc = "todo" => buf[reader[c].b].phase = 0
  BY DEF AnswerInv, Untouched
<1>4. QED
  BY <1>1, <1>2, <1>3 DEF Steady

LEMMA EndsAnswers ==
  ASSUME TypeOK, TypeOK', AnswerInv, NEW how, Ends(how) PROVE AnswerInv'
<1>1. UNCHANGED <<shared, reader, worker, writer, kernel, told>>
  BY DEF Ends
<1>2. UNCHANGED <<buf, todo, ids, asked, wait, output, reader, worker, writer, told>>
  BY <1>1 DEF shared, kernel
<1>3. \A b \in Buffers : Back(b)' /\ Acts(b)' => Back(b) /\ Acts(b)
  BY <1>2 DEF Back, Acts
<1>4. Steady
  BY <1>2, <1>3, StillSteady
<1>5. QED
  BY <1>4, SteadyInv

LEMMA KernelAnswers ==
  ASSUME TypeOK, TypeOK', Orderly, Unbroken, AnswerInv, NEW c \in Conns, KernelMoves(c)
  PROVE  AnswerInv'
<1>1. ReadsReadyRequest(c) \/ ReadsQuery(c) \/ ReadsStrayAnswer(c)
  BY NoneCloses DEF KernelMoves
<1>2. UNCHANGED <<shared, asked, told, worker, writer>>
  BY <1>1 DEF ReadsReadyRequest, ReadsQuery, ReadsStrayAnswer, Reads, kernel
<1>3. UNCHANGED <<buf, todo, ids, asked, wait, output, worker, writer, told>>
  BY <1>2 DEF shared
<1>4. \A d \in Conns :
        \/ reader'[d] = reader[d] \/ reader'[d].pc \in {"ready", "query"}
        \/ reader'[d].pc = "answer" /\ reader'[d].msg.op.seq = 1
  <2>1. CASE ReadsReadyRequest(c)
    <3>1. reader' = [reader EXCEPT ![c].pc = "ready", ![c].msg = None]
      BY <2>1 DEF ReadsReadyRequest, Reads
    <3>2. QED
      BY <3>1 DEF TypeOK, ReaderOK, Readers
  <2>2. CASE ReadsQuery(c)
    <3>1. PICK r : reader' = [reader EXCEPT ![c].pc = "query", ![c].msg = r]
      BY <2>2 DEF ReadsQuery, Reads
    <3>2. QED
      BY <3>1 DEF TypeOK, ReaderOK, Readers
  <2>3. CASE ReadsStrayAnswer(c)
    <3>1. PICK k \in Kinds : Reads(c, "answer", [op |-> [comm |-> c, kind |-> k, seq |-> 1],
                                               outcome |-> "ok"])
      BY <2>3 DEF ReadsStrayAnswer
    <3> DEFINE m == [op |-> [comm |-> c, kind |-> k, seq |-> 1], outcome |-> "ok"]
    <3>2. m.op.seq = 1
      OBVIOUS
    <3>3. reader' = [reader EXCEPT ![c].pc = "answer", ![c].msg = m]
      BY <3>1 DEF Reads
    <3> HIDE DEF m
    <3>4. reader'[c].pc = "answer" /\ reader'[c].msg = m
          /\ \A d \in Conns \ {c} : reader'[d] = reader[d]
      BY <3>3 DEF TypeOK, ReaderOK, Readers
    <3>5. QED
      BY <3>2, <3>4
  <2>4. QED
    BY <1>1, <2>1, <2>2, <2>3
<1>5. \A b \in Buffers : Back(b)' /\ Acts(b)' => Back(b) /\ Acts(b)
  BY <1>3 DEF Back, Acts
<1>6. Steady
  BY <1>3, <1>4, <1>5, StillSteady
<1>7. QED
  BY <1>6, SteadyInv

(* A query goes to todo, and its reader looks back at it.                  *)
LEMMA QueuedAnswers ==
  ASSUME TypeOK, TypeOK', Own, OrderInv, AnswerInv, NEW c \in Conns,
         QueryQueued(c) \/ ReaderChecks(c)
  PROVE  AnswerInv'
<1>1. CASE QueryQueued(c)
  <2>1. /\ todo' = comm_buf_to_queue(todo, reader[c].b)
        /\ reader' = [reader EXCEPT ![c].pc = "check"] /\ reader[c].pc = "todo"
        /\ UNCHANGED <<buf, ids, asked, wait, output, worker, writer, told>>
    BY <1>1 DEF QueryQueued, ReaderAt, kernel
  <2>2. reader[c].pc \in Owning
    BY <2>1 DEF Owning
  <2>3. reader[c].b \in Buffers /\ ~Busy(reader[c].b)
    BY <2>2, ReaderFits
  <2>4. Items(todo') = Items(todo) \cup {reader[c].b}
    BY <2>1, <2>3, ToTodoItems
  <2>5. \A d \in Conns : reader'[d] = reader[d] \/ reader'[d].pc = "check"
    BY <2>1 DEF TypeOK, ReaderOK, Readers
  <2>6. buf[reader[c].b].phase = 0
    BY <2>1 DEF AnswerInv, Untouched
  <2>7. ~Acts(reader[c].b)
    BY <2>3, <2>6, NotWanted DEF Acts, Resumes
  <2>8. \A b \in Buffers : Back(b)' /\ Acts(b)' => Back(b) /\ Acts(b)
    BY <2>1, <2>4, <2>7 DEF Back, Acts
  <2>9. Steady
    BY <2>1, <2>5, <2>8, StillSteady
  <2>10. QED
    BY <2>9, SteadyInv
<1>2. CASE ReaderChecks(c)
  <2>1. CASE Ends("undefined")
    BY <2>1, EndsAnswers
  <2>2. CASE ~Ends("undefined")
    <3>1. /\ reader' = [reader EXCEPT ![c] = ReaderIdle]
          /\ UNCHANGED <<shared, worker, writer, kernel, told>>
      BY <1>2, <2>2 DEF ReaderChecks
    <3>2. UNCHANGED <<buf, todo, ids, asked, wait, output, worker, writer, told>>
      BY <3>1 DEF shared, kernel
    <3>3. \A d \in Conns : reader'[d] = reader[d] \/ reader'[d].pc = "get"
      BY <3>1 DEF TypeOK, ReaderOK, ReaderIdle
    <3>4. \A b \in Buffers : Back(b)' /\ Acts(b)' => Back(b) /\ Acts(b)
      BY <3>2 DEF Back, Acts
    <3>5. Steady
      BY <3>2, <3>3, <3>4, StillSteady
    <3>6. QED
      BY <3>5, SteadyInv
  <2>3. QED
    BY <2>1, <2>2
<1>3. QED
  BY <1>1, <1>2

(* A worker takes a buffer, queues an operation, or is through with        *)
(* _init().                                                                *)
LEMMA WorkerPassesAnswers ==
  ASSUME TypeOK, TypeOK', Own, AnswerInv, NEW w \in Workers,
         WorkerTakes(w) \/ WorkerSends(w) \/ InitClears(w)
  PROVE  AnswerInv'
<1>1. CASE WorkerTakes(w)
  <2>1. /\ todo # <<>> /\ todo' = Tail(todo) /\ worker[w].pc = "idle"
        /\ worker' = [worker EXCEPT ![w].pc = "got", ![w].b = Head(todo)]
        /\ UNCHANGED <<buf, ids, asked, wait, output, reader, writer, told>>
    BY <1>1 DEF WorkerTakes, WorkerAt, comm_buf_from_queue, kernel
  <2>2. /\ worker'[w].pc = "got" /\ worker'[w].b = Head(todo)
        /\ \A v \in Workers \ {w} : worker'[v] = worker[v]
    BY <2>1 DEF TypeOK, WorkerOK, WorkersAt
  <2>3. Items(todo') = Items(todo) \ {Head(todo)} /\ Head(todo) \in Items(todo)
    BY <2>1, TailItems DEF TypeOK, TodoOK, Own, Lists
  <2>4. \A b \in Buffers : Back(b)' /\ Acts(b)' => Back(b) /\ Acts(b)
    <3>1. \A b \in Buffers : Back(b)' => Back(b)
      BY <2>1, <2>2, <2>3 DEF Back
    <3>2. \A b \in Buffers : Acts(b)' => Acts(b)
      BY <2>1, <2>2 DEF Acts
    <3>3. QED
      BY <3>1, <3>2
  <2>5. \A v \in Workers : worker'[v].pc = "send" => worker'[v] = worker[v]
    BY <2>2
  <2>6. Steady
    BY <2>1, <2>4, <2>5, StillSteady
  <2>7. QED
    BY <2>6, SteadyInv
<1>2. CASE WorkerSends(w)
  <2> DEFINE r == worker[w].r
             d == buf[r].comm
  <2>1. /\ worker[w].pc = "send" /\ output' = [output EXCEPT ![d] = comm_buf_to_queue(@, r)]
        /\ worker' = [worker EXCEPT ![w].pc = "park", ![w].r = None]
        /\ UNCHANGED <<buf, todo, ids, asked, wait, reader, writer, told>>
    BY <1>2 DEF WorkerSends, WorkerAt, kernel
  <2>2. /\ worker'[w].pc = "park" /\ worker'[w].b = worker[w].b
        /\ \A v \in Workers \ {w} : worker'[v] = worker[v]
    BY <2>1 DEF TypeOK, WorkerOK, WorkersAt
  <2>3. r \in Buffers /\ d \in Conns /\ buf[r].msg # None
    BY <2>1, OwnKnown, OpsKnown DEF AnswerInv, Mailed
  <2>4. /\ Items(output'[d]) = Items(output[d]) \cup {r}
        /\ \A e \in Conns \ {d} : output'[e] = output[e]
    BY <2>1, <2>3, AppendItems DEF TypeOK, OutputOK, Queues, comm_buf_to_queue
  <2>5. d = buf[r].comm
    OBVIOUS
  <2> HIDE DEF r, d
  <2>6. \A e \in Conns : \A b \in Items(output'[e]) :
          b \in Items(output[e]) \/ (buf[b].msg # None /\ buf[b].comm = e)
    BY <2>3, <2>4, <2>5
  <2>7. \A b \in Buffers : Back(b)' /\ Acts(b)' => Back(b) /\ Acts(b)
    <3>1. \A b \in Buffers : Back(b)' => Back(b)
      BY <2>1, <2>2 DEF Back
    <3>2. \A b \in Buffers : Acts(b)' => Acts(b)
      BY <2>1, <2>2 DEF Acts
    <3>3. QED
      BY <3>1, <3>2
  <2>8. \A v \in Workers : worker'[v].pc = "send" => worker'[v] = worker[v]
    BY <2>2
  <2>9. Steady
    BY <2>1, <2>6, <2>7, <2>8, StillSteady
  <2>10. QED
    BY <2>9, SteadyInv
<1>3. CASE InitClears(w)
  <2>1. /\ worker' = [worker EXCEPT ![w] = WorkerIdle]
        /\ UNCHANGED <<buf, todo, ids, asked, wait, output, reader, writer, told>>
    BY <1>3 DEF InitClears, kernel
  <2>2. worker'[w].pc = "idle" /\ \A v \in Workers \ {w} : worker'[v] = worker[v]
    BY <2>1 DEF TypeOK, WorkerOK, WorkerIdle
  <2>3. \A b \in Buffers : Back(b)' /\ Acts(b)' => Back(b) /\ Acts(b)
    <3>1. \A b \in Buffers : Back(b)' => Back(b)
      BY <2>1, <2>2 DEF Back
    <3>2. \A b \in Buffers : Acts(b)' => Acts(b)
      BY <2>1, <2>2 DEF Acts
    <3>3. QED
      BY <3>1, <3>2
  <2>4. \A v \in Workers : worker'[v].pc = "send" => worker'[v] = worker[v]
    BY <2>2
  <2>5. Steady
    BY <2>1, <2>3, <2>4, StillSteady
  <2>6. QED
    BY <2>5, SteadyInv
<1>4. QED
  BY <1>1, <1>2, <1>3

(* What of a buffer has to do with its operation and its message, and with *)
(* its way.                                                                *)
Keeps(b) ==
  /\ buf'[b].op = buf[b].op /\ buf'[b].waiting = buf[b].waiting
  /\ buf'[b].user_data = buf[b].user_data /\ buf'[b].room = buf[b].room
  /\ buf'[b].msg = buf[b].msg /\ buf'[b].comm = buf[b].comm

Goes(b) == buf'[b].phase = buf[b].phase /\ buf'[b].to_wake = buf[b].to_wake

(* A buffer is filled that was free.                                       *)
LEMMA FillAnswers ==
  ASSUME TypeOK, TypeOK', Own, OrderInv, AnswerInv, NEW f, f = Fresh(mem), Available(mem),
         NEW x, buf'[f] = x, \A a \in Buffers \ {f} : Keeps(a) /\ Goes(a),
         x.op = None, x.msg \notin Ops, x.room \/ x.msg = None, x.to_wake = <<>>, x.phase = 0,
         UNCHANGED <<told, ids, asked, wait, writer>>,
         \A w \in Workers :
           worker'[w] = worker[w] \/ worker'[w].pc \notin {"got", "send", "park"},
         Items(todo') \subseteq Items(todo) \cup {f},
         \A c \in Conns :
           reader'[c] = reader[c] \/ reader'[c].pc \notin {"answer", "body", "todo"},
         \A c \in Conns : \A b \in Items(output'[c]) :
           b \in Items(output[c]) \/ (b = f /\ x.msg # None /\ x.comm = c)
  PROVE  AnswerInv'
<1>1. f \in Buffers /\ ~Busy(f)
  BY FreshFits
<1>2. /\ \A c \in Conns : f \notin Items(output[c])
      /\ \A a \in Buffers : f \notin Items(buf[a].to_wake)
  BY TakesFresh
<1>3. \A w \in Workers : worker[w].r # f
  <2>1. \A w \in Workers : worker[w].r = f => Holds("request", w, f)
    BY DEF Holds, InWorker
  <2>2. Holds(Slot(mem), None, f) /\ Slot(mem) \in Slots
    BY TakesFresh
  <2>3. "request" \notin Slots
    BY DEF Slots
  <2>4. QED
    BY <1>1, <2>1, <2>2, <2>3 DEF Own, Apart
<1>4. \A b \in Buffers \ {f} : Intact(b) /\ Retains(b)
  BY DEF Intact, Retains, Keeps
<1>5. Vacant(f)
  BY <1>1 DEF Vacant
<1>6. \A b \in Buffers : Back(b)' /\ Acts(b)' => Back(b) /\ Acts(b)
  <2>1. ~Acts(f)'
    BY <1>1, NotWanted DEF Acts, Resumes
  <2>2. ASSUME NEW b \in Buffers, b # f PROVE (Back(b)' => Back(b)) /\ (Acts(b)' => Acts(b))
    BY <2>2 DEF Back, Acts, Goes
  <2>3. QED
    BY <2>1, <2>2
<1>7. \A b \in Buffers : \A a \in Items(buf'[b].to_wake) : buf'[a].phase = 0
  <2>1. \A b \in Buffers \ {f} : \A a \in Items(buf[b].to_wake) : a \in Buffers \ {f} /\ buf[a].phase = 0
    BY <1>2, OpsKnown DEF AnswerInv, Untouched
  <2>2. Items(buf'[f].to_wake) = {}
    BY <1>1, EmptyItems
  <2>3. QED
    BY <2>1, <2>2 DEF Goes
<1>8. \A c \in Conns : reader'[c].pc = "todo" => buf'[reader'[c].b].phase = 0
  <2>1. ASSUME NEW c \in Conns, reader'[c].pc = "todo" PROVE buf'[reader'[c].b].phase = 0
    <3>1. reader[c].pc = "todo" /\ reader'[c] = reader[c]
      BY <2>1
    <3>2. reader[c].b \in Buffers
      BY <3>1, ReaderFits DEF Owning
    <3>3. buf[reader[c].b].phase = 0
      BY <3>1 DEF AnswerInv, Untouched
    <3>4. QED
      BY <1>1, <3>1, <3>2, <3>3 DEF Goes
  <2>2. QED
    BY <2>1
<1>9. /\ \A c \in Conns : Items(output[c]) \subseteq Buffers \ {f}
      /\ \A w \in Workers : worker[w].pc = "send" => worker[w].r \in Buffers \ {f}
  BY <1>2, <1>3, OpsKnown
<1>10. \A b \in Buffers : buf'[b].op # None /\ buf'[b].op \in DOMAIN told =>
            ToldNow(buf'[b].op, told[buf'[b].op])
  BY DEF ToldNow
<1>11. Steady
  BY <1>1, <1>4, <1>5, <1>6, <1>7, <1>8, <1>9, <1>10 DEF Steady
<1>12. QED
  BY <1>11, SteadyInv

LEMMA FilledWith ==
  ASSUME TypeOK, NEW f \in Buffers, NEW x, buf' = [buf EXCEPT ![f] = x]
  PROVE  buf'[f] = x /\ \A a \in Buffers \ {f} : Keeps(a) /\ Goes(a)
BY DEF TypeOK, BufOK, Keeps, Goes

LEMMA BlankVacant ==
  /\ Blank.op = None /\ Blank.msg = None /\ Blank.room /\ Blank.to_wake = <<>> /\ Blank.phase = 0
  /\ None \notin Ops
  /\ \A c : /\ For(c).op = None /\ For(c).msg = None /\ For(c).to_wake = <<>>
            /\ For(c).phase = 0
            /\ \A m : /\ Outgoing(c, m).op = None /\ Outgoing(c, m).room
                      /\ Outgoing(c, m).msg = m /\ Outgoing(c, m).comm = c
                      /\ Outgoing(c, m).to_wake = <<>> /\ Outgoing(c, m).phase = 0
            /\ \A p : /\ InitBuffer(c, p).op = None /\ InitBuffer(c, p).msg = None
                      /\ InitBuffer(c, p).to_wake = <<>> /\ InitBuffer(c, p).phase = 0
BY MessageAssumption DEF Blank, For, Outgoing, InitBuffer, Ops

(* What is sent and is no operation.                                       *)
LEMMA NoOperation ==
  /\ \A m : m = [kind |-> "ready"] => m \notin Ops /\ m # None
  /\ \A q \in Requests \cup {None}, v \in Verdicts \cup {None} : \A m :
       m = [kind |-> "answer", req |-> q, verdict |-> v] => m \notin Ops /\ m # None
<1>1. [kind |-> "ready"] \notin Ops /\ [kind |-> "ready"] # None
  <2>1. \A o \in Ops : o.kind \in Kinds
    BY DEF Ops
  <2>2. [kind |-> "ready"].kind = "ready" /\ "ready" \notin Kinds
    BY DEF Kinds
  <2>3. QED
    BY <2>1, <2>2, MessageAssumption
<1>2. ASSUME NEW q \in Requests \cup {None}, NEW v \in Verdicts \cup {None},
             NEW m, m = [kind |-> "answer", req |-> q, verdict |-> v]
      PROVE  m \notin Ops /\ m # None
  <2>1. \A o \in Ops : o.kind \in Kinds
    BY DEF Ops
  <2>2. m.kind = "answer" /\ "answer" \notin Kinds
    BY <1>2 DEF Kinds
  <2>3. m \in [kind : {"answer"}, req : Requests \cup {None}, verdict : Verdicts \cup {None}]
    BY <1>2
  <2>4. QED
    BY <2>1, <2>2, <2>3, MessageAssumption
<1>3. QED
  BY <1>1, <1>2

LEMMA ReaderFillsAnswers ==
  ASSUME TypeOK, TypeOK', Own, OrderInv, AnswerInv, NEW c \in Conns,
         ReaderGets(c) \/ ReadyAnswer(c)
  PROVE  AnswerInv'
<1>1. Available(mem) /\ Fresh(mem) \in Buffers
  <2>1. Available(mem)
    BY DEF ReaderGets, ReadyAnswer
  <2>2. QED
    BY <2>1, FreshFits
<1>2. CASE ReaderGets(c)
  <2>1. /\ buf' = [buf EXCEPT ![Fresh(mem)] = For(c)]
        /\ reader' = [reader EXCEPT ![c].pc = "recv", ![c].b = Fresh(mem)]
        /\ UNCHANGED <<told, ids, asked, wait, writer, worker, todo, output>>
    BY <1>2 DEF ReaderGets, kernel
  <2>2. /\ buf'[Fresh(mem)] = For(c)
        /\ \A a \in Buffers \ {Fresh(mem)} : Keeps(a) /\ Goes(a)
    BY <1>1, <2>1, FilledWith
  <2>3. \A d \in Conns : reader'[d] = reader[d] \/ reader'[d].pc = "recv"
    BY <2>1 DEF TypeOK, ReaderOK, Readers
  <2>4. PICK x : x = For(c)
    OBVIOUS
  <2>5. /\ x.op = None /\ x.msg \notin Ops /\ x.msg = None /\ x.to_wake = <<>> /\ x.phase = 0
    BY <2>4, BlankVacant
  <2>6. QED
    BY <1>1, <2>1, <2>2, <2>3, <2>4, <2>5, FillAnswers
<1>3. CASE ReadyAnswer(c)
  <2>1. PICK m, f, x : m = [kind |-> "ready"] /\ f = Fresh(mem) /\ x = Outgoing(c, m)
    OBVIOUS
  <2>2. /\ buf' = [buf EXCEPT ![f] = x]
        /\ output' = [output EXCEPT ![c] = comm_buf_to_queue(@, f)]
        /\ reader' = [reader EXCEPT ![c].pc = "free"]
        /\ UNCHANGED <<told, ids, asked, wait, writer, worker, todo>>
    BY <1>3, <2>1 DEF ReadyAnswer, kernel
  <2>3. buf'[f] = x /\ \A a \in Buffers \ {f} : Keeps(a) /\ Goes(a)
    BY <1>1, <2>1, <2>2, FilledWith
  <2>4. \A d \in Conns : reader'[d] = reader[d] \/ reader'[d].pc = "free"
    BY <2>2 DEF TypeOK, ReaderOK, Readers
  <2>5. /\ x.op = None /\ x.msg = m /\ x.room /\ x.to_wake = <<>> /\ x.phase = 0
        /\ x.comm = c
    BY <2>1, BlankVacant
  <2>6. m \notin Ops /\ m # None
    BY <2>1, NoOperation
  <2>7. \A d \in Conns : \A b \in Items(output'[d]) :
           b \in Items(output[d]) \/ (b = f /\ d = c)
    <3>1. Items(output'[c]) = Items(output[c]) \cup {f}
      BY <1>1, <2>1, <2>2, AppendItems DEF comm_buf_to_queue, TypeOK, OutputOK, Queues
    <3>2. \A d \in Conns \ {c} : output'[d] = output[d]
      BY <2>2 DEF TypeOK, OutputOK, Queues
    <3>3. QED
      BY <3>1, <3>2
  <2>8. QED
    BY <1>1, <2>1, <2>2, <2>3, <2>4, <2>5, <2>6, <2>7, FillAnswers
<1>4. QED
  BY <1>2, <1>3

(* comm_conn_init(): _init() has asked for nothing yet.                    *)
LEMMA ConnInitAnswers ==
  ASSUME TypeOK, TypeOK', Own, OrderInv, AnswerInv, NEW c \in Conns,
         ReadyRequest(c) \/ QueryInits(c)
  PROVE  AnswerInv'
<1>1. /\ ConnInit(c, buf)
      /\ UNCHANGED <<told, ids, asked, wait, writer, worker, output>>
  BY DEF ReadyRequest, QueryInits, kernel
<1>2. \A d \in Conns :
        reader'[d] = reader[d] \/ reader'[d].pc \in {"free", "readyanswer"}
  <2>1. CASE ReadyRequest(c)
    BY <2>1 DEF ReadyRequest, TypeOK, ReaderOK, Readers
  <2>2. CASE QueryInits(c)
    BY <2>2 DEF QueryInits
  <2>3. QED
    BY <2>1, <2>2
<1>3. CASE conn[c].function_init
  <2>1. PICK f, x : f = Fresh(mem) /\ x = InitBuffer(c, f)
    OBVIOUS
  <2>2. /\ Available(mem) /\ todo' = comm_buf_to_queue(todo, f)
        /\ buf' = [buf EXCEPT ![f] = x]
    BY <1>1, <1>3, <2>1 DEF ConnInit
  <2>3. f \in Buffers
    BY <2>1, <2>2, FreshFits
  <2>4. buf'[f] = x /\ \A a \in Buffers \ {f} : Keeps(a) /\ Goes(a)
    BY <2>2, <2>3, FilledWith
  <2>5. /\ x.op = None /\ x.msg = None /\ x.msg \notin Ops /\ x.to_wake = <<>> /\ x.phase = 0
    BY <2>1, BlankVacant
  <2>6. Items(todo') = Items(todo) \cup {f}
    BY <2>2, <2>3, ToTodoItems
  <2>7. QED
    BY <1>1, <1>2, <2>1, <2>2, <2>4, <2>5, <2>6, FillAnswers
<1>4. CASE ~conn[c].function_init
  <2>1. UNCHANGED <<buf, todo>>
    BY <1>1, <1>4 DEF ConnInit
  <2>2. \A b \in Buffers : Back(b)' /\ Acts(b)' => Back(b) /\ Acts(b)
    BY <1>1, <2>1 DEF Back, Acts
  <2>3. Steady
    BY <1>1, <1>2, <2>1, <2>2, StillSteady
  <2>4. QED
    BY <2>3, SteadyInv
<1>5. QED
  BY <1>3, <1>4

(* mcp_answer() sends the answer to the request.                           *)
LEMMA AnswerSendsAnswers ==
  ASSUME TypeOK, TypeOK', Own, OrderInv, AnswerInv, NEW w \in Workers, AnswerSends(w)
  PROVE  AnswerInv'
<1>1. PICK b \in Buffers :
        /\ Serves(w, b) /\ ~buf[b].init /\ buf[b].phase >= 1000
        /\ Available(mem)
        /\ buf' = [buf EXCEPT ![b].lock = w,
                     ![Fresh(mem)] = Outgoing(buf[b].comm,
                       [kind |-> "answer", req |-> buf[b].req, verdict |-> buf[b].verdict])]
        /\ output' = [output EXCEPT ![buf[b].comm] = comm_buf_to_queue(@, Fresh(mem))]
  BY Zenon DEF AnswerSends
<1>2. PICK f, q, c, m, y : /\ f = Fresh(mem) /\ q = buf[b].req /\ c = buf[b].comm
                        /\ m = [kind |-> "answer", req |-> q, verdict |-> buf[b].verdict]
                        /\ y = Outgoing(c, m)
  OBVIOUS
<1> DEFINE x == [buf[b] EXCEPT !.lock = w]
<1>3. /\ worker' = [worker EXCEPT ![w].pc = "free"]
      /\ UNCHANGED <<told, ids, asked, wait, writer, todo, reader>>
  BY DEF AnswerSends, kernel
<1>4. c \in Conns /\ Busy(b) /\ worker[w].pc = "got"
  BY <1>1, <1>2, ServesBuffer
<1>5. f \in Buffers /\ f # b
  BY <1>1, <1>2, <1>4, FreshFits
<1>6. q \in Requests \cup {None} /\ buf[b].verdict \in Verdicts \cup {None} /\ buf[b] \in Contents
  BY <1>2 DEF TypeOK, BufOK, Contents
<1>7. m \notin Ops /\ m # None
  BY <1>2, <1>6, NoOperation
<1>8. /\ buf'[f] = y /\ buf'[b] = x
      /\ \A d \in Buffers \ {f, b} : buf'[d] = buf[d]
  BY <1>1, <1>2, <1>5 DEF TypeOK, BufOK
<1>9. \A a \in Buffers \ {f} : Keeps(a) /\ Goes(a)
  <2>1. /\ x.op = buf[b].op /\ x.waiting = buf[b].waiting /\ x.user_data = buf[b].user_data
        /\ x.room = buf[b].room /\ x.msg = buf[b].msg /\ x.comm = buf[b].comm
        /\ x.phase = buf[b].phase /\ x.to_wake = buf[b].to_wake
    BY <1>6 DEF Contents
  <2> HIDE DEF x
  <2>2. QED
    BY <1>8, <2>1 DEF Keeps, Goes
<1> HIDE DEF x
<1>10. /\ y.op = None /\ y.msg = m /\ y.room /\ y.to_wake = <<>> /\ y.phase = 0
       /\ y.comm = c
  BY <1>2, BlankVacant
<1>11. \A v \in Workers : worker'[v] = worker[v] \/ worker'[v].pc = "free"
  BY <1>3 DEF TypeOK, WorkerOK, WorkersAt
<1>12. \A d \in Conns : \A e \in Items(output'[d]) :
         e \in Items(output[d]) \/ (e = f /\ d = c)
  <2>1. Items(output'[c]) = Items(output[c]) \cup {f}
    BY <1>1, <1>2, <1>4, <1>5, AppendItems DEF comm_buf_to_queue, TypeOK, OutputOK, Queues
  <2>2. \A d \in Conns \ {c} : output'[d] = output[d]
    BY <1>1, <1>2 DEF TypeOK, OutputOK, Queues
  <2>3. QED
    BY <2>1, <2>2
<1>13. Available(mem) /\ f = Fresh(mem) /\ buf'[f] = y
  BY <1>1, <1>2, <1>8
<1>14. QED
  BY <1>3, <1>7, <1>9, <1>10, <1>11, <1>12, <1>13, FillAnswers

(* A step that leaves the buffers where they are, but for the walk through *)
(* the handlers and what waits for _init().                                *)
LEMMA KeepsSteady ==
  ASSUME TypeOK, AnswerInv, \A b \in Buffers : Keeps(b),
         UNCHANGED <<told, ids, asked, wait, output, writer>>,
         \A b \in Buffers : Back(b)' /\ Acts(b)' => Back(b) /\ Acts(b),
         \A b \in Buffers : \A a \in Items(buf'[b].to_wake) : buf'[a].phase = 0,
         \A c \in Conns : reader'[c] = reader[c] \/ reader'[c].pc \notin {"answer", "body"},
         \A c \in Conns : reader'[c].pc = "todo" => buf'[reader'[c].b].phase = 0,
         \A w \in Workers : worker'[w] = worker[w] \/ worker'[w].pc # "send"
  PROVE  Steady
<1>1. \A b \in Buffers : Intact(b) /\ Retains(b)
  BY DEF Keeps, Intact, Retains
<1>2. /\ \A c \in Conns : Items(output[c]) \subseteq Buffers
      /\ \A w \in Workers : worker[w].pc = "send" => worker[w].r \in Buffers
  BY OpsKnown
<1>3. \A b \in Buffers : buf'[b].op # None /\ buf'[b].op \in DOMAIN told =>
        ToldNow(buf'[b].op, told[buf'[b].op])
  BY DEF ToldNow
<1>4. QED
  BY <1>1, <1>2, <1>3 DEF Steady

(* A query in its reader's hands has begun with nothing.                   *)
LEMMA QueryPutAnswers ==
  ASSUME TypeOK, TypeOK', Own, OrderInv, AnswerInv, NEW c \in Conns,
         QueryPasses(c) \/ QueryWaits(c)
  PROVE  AnswerInv'
<1>0. PICK b, q, p : b = reader[c].b /\ q = reader[c].msg /\ p = conn[c].init_buffer
  OBVIOUS
<1> DEFINE x == [buf[b] EXCEPT !.req = q]
           y == [buf[p] EXCEPT !.to_wake = Append(@, b)]
<1>1. /\ reader[c].pc = "query"
      /\ UNCHANGED <<told, ids, asked, wait, output, writer, todo, worker>>
      /\ reader' = [reader EXCEPT ![c].pc = "todo"] \/ reader' = [reader EXCEPT ![c].pc = "check"]
  BY DEF QueryPasses, QueryWaits, ReaderAt, kernel
<1>2. /\ b \in Buffers /\ Inert(buf[b])
  BY <1>0, <1>1 DEF TypeOK, ReaderOK, OrderInv, Reading, Filling, Owning
<1>3. buf[b] \in Contents
  BY <1>2 DEF TypeOK, BufOK
<1>4. /\ x.op = buf[b].op /\ x.waiting = buf[b].waiting /\ x.user_data = buf[b].user_data
      /\ x.room = buf[b].room /\ x.msg = buf[b].msg /\ x.comm = buf[b].comm
      /\ x.phase = buf[b].phase /\ x.to_wake = buf[b].to_wake
  BY <1>3 DEF Contents
<1>5. /\ \A a \in Buffers : Keeps(a) /\ buf'[a].phase = buf[a].phase
      /\ \A a \in Buffers : Items(buf'[a].to_wake) \subseteq Items(buf[a].to_wake) \cup {b}
  <2>1. CASE QueryPasses(c)
    <3>1. buf' = [buf EXCEPT ![b] = x]
      BY <1>0, <2>1 DEF QueryPasses
    <3> HIDE DEF x
    <3>2. buf'[b] = x /\ \A a \in Buffers \ {b} : buf'[a] = buf[a]
      BY <1>2, <3>1 DEF TypeOK, BufOK
    <3>3. QED
      BY <1>4, <3>2 DEF Keeps
  <2>2. CASE QueryWaits(c)
    <3>1. /\ buf' = [buf EXCEPT ![b].req = q, ![p].to_wake = Append(@, b)]
          /\ p # None /\ ~Dangles(c) /\ state_lock[c] \in {None, c}
      BY <1>0, <2>2 DEF QueryWaits, comm_buf_to_queue
    <3>2. \A w \in Workers : state_lock[c] # w
      BY <3>1, Others
    <3>3. p \in Buffers /\ buf[p].init
      BY <1>0, <3>1, <3>2 DEF OrderInv, InitBuffers, Dangles, TypeOK, ConnOK, Connections
    <3>4. b # p
      BY <1>2, <3>3 DEF Inert
    <3>5. buf' = [buf EXCEPT ![b] = x, ![p] = y]
      BY <1>2, <3>1, <3>3, <3>4 DEF TypeOK, BufOK
    <3>6. /\ y.op = buf[p].op /\ y.waiting = buf[p].waiting /\ y.user_data = buf[p].user_data
          /\ y.room = buf[p].room /\ y.msg = buf[p].msg /\ y.comm = buf[p].comm
          /\ y.phase = buf[p].phase /\ y.to_wake = Append(buf[p].to_wake, b)
          /\ buf[p].to_wake \in Seq(Buffers)
      BY <3>3 DEF TypeOK, BufOK, Contents
    <3>7. Items(y.to_wake) = Items(buf[p].to_wake) \cup {b}
      BY <1>2, <3>6, AppendItems
    <3> HIDE DEF x, y
    <3>8. buf'[b] = x /\ buf'[p] = y /\ \A a \in Buffers \ {b, p} : buf'[a] = buf[a]
      BY <1>2, <3>3, <3>4, <3>5 DEF TypeOK, BufOK
    <3>9. QED
      BY <1>4, <3>6, <3>7, <3>8 DEF Keeps
  <2>3. QED
    BY <2>1, <2>2
<1> HIDE DEF x, y
<1>6. \A d \in Conns :
        \/ reader'[d] = reader[d] \/ reader'[d].pc = "check"
        \/ reader'[d].pc = "todo" /\ reader'[d].b = b
  BY <1>0, <1>1 DEF TypeOK, ReaderOK, Readers
<1>7. buf[b].phase = 0
  BY <1>2 DEF Inert
<1>8. \A a \in Buffers : \A e \in Items(buf'[a].to_wake) : buf'[e].phase = 0
  <2>1. \A a \in Buffers : \A e \in Items(buf[a].to_wake) : e \in Buffers /\ buf[e].phase = 0
    BY OpsKnown DEF AnswerInv, Untouched
  <2>2. QED
    BY <1>2, <1>5, <1>7, <2>1
<1>9. \A d \in Conns : reader'[d].pc = "todo" => buf'[reader'[d].b].phase = 0
  <2>1. \A d \in Conns : reader[d].pc = "todo" => reader[d].b \in Buffers /\ buf[reader[d].b].phase = 0
    BY DEF AnswerInv, Untouched, TypeOK, ReaderOK, Owning
  <2>2. QED
    BY <1>2, <1>5, <1>6, <1>7, <2>1
<1>10. \A a \in Buffers : Back(a)' /\ Acts(a)' => Back(a) /\ Acts(a)
  BY <1>1, <1>5 DEF Back, Acts
<1>11. Steady
  BY <1>1, <1>5, <1>6, <1>8, <1>9, <1>10, KeepsSteady
<1>12. QED
  BY <1>11, SteadyInv

(* The handlers are through: there is no outcome to see any more.          *)
LEMMA EventDecidesAnswers ==
  ASSUME TypeOK, TypeOK', Own, OrderInv, AnswerInv, NEW w \in Workers, EventDecides(w)
  PROVE  AnswerInv'
<1>1. PICK b \in Buffers :
        /\ Serves(w, b) /\ buf[b].phase < 1000
        /\ IF buf[b].init
           THEN /\ buf' = [buf EXCEPT ![b].phase = 1000]
                /\ initDone' = initDone \cup {buf[b].comm}
                /\ UNCHANGED decided
           ELSE \E v \in Verdicts :
                  /\ buf' = [buf EXCEPT ![b] = [@ EXCEPT !.phase = 1000, !.verdict = v]]
                  /\ decided' = [decided EXCEPT ![buf[b].req] = v]
                  /\ UNCHANGED initDone
        /\ todo' = comm_buf_to_queue(todo, b)
        /\ worker' = [worker EXCEPT ![w] = WorkerIdle]
  BY Zenon DEF EventDecides
<1>2. UNCHANGED <<told, ids, asked, wait, output, writer, reader>>
  BY Zenon DEF EventDecides, kernel
<1>3. /\ Serves(w, b) /\ todo' = comm_buf_to_queue(todo, b)
      /\ worker' = [worker EXCEPT ![w] = WorkerIdle]
  BY <1>1, Zenon
<1>4. /\ worker[w].pc = "got" /\ worker[w].b = b /\ buf[b].lock = None
      /\ buf[b].comm \in Conns /\ Holds("worker", w, b)
  BY <1>3, ServesBuffer
<1>5. worker'[w].pc = "idle" /\ \A v \in Workers \ {w} : worker'[v] = worker[v]
  BY <1>3 DEF TypeOK, WorkerOK, WorkerIdle
<1>6. Items(todo') = Items(todo) \cup {b}
  BY <1>3, ToTodoItems
<1>7. buf[b] \in Contents
  BY DEF TypeOK, BufOK
<1>8. /\ \A a \in Buffers \ {b} : buf'[a] = buf[a]
      /\ Keeps(b) /\ buf'[b].phase = 1000 /\ buf'[b].to_wake = buf[b].to_wake
  <2>1. PICK x : /\ buf' = [buf EXCEPT ![b] = x]
                 /\ x.op = buf[b].op /\ x.waiting = buf[b].waiting
                 /\ x.user_data = buf[b].user_data
                 /\ x.room = buf[b].room /\ x.msg = buf[b].msg /\ x.comm = buf[b].comm
                 /\ x.phase = 1000 /\ x.to_wake = buf[b].to_wake
    <3>1. CASE buf[b].init
      <4>1. buf' = [buf EXCEPT ![b] = [buf[b] EXCEPT !.phase = 1000]]
        BY <1>1, <3>1, Zenon
      <4> DEFINE x == [buf[b] EXCEPT !.phase = 1000]
      <4>2. /\ x.op = buf[b].op /\ x.waiting = buf[b].waiting
            /\ x.user_data = buf[b].user_data
            /\ x.room = buf[b].room /\ x.msg = buf[b].msg /\ x.comm = buf[b].comm
            /\ x.phase = 1000 /\ x.to_wake = buf[b].to_wake
        BY <1>7 DEF Contents
      <4>3. buf' = [buf EXCEPT ![b] = x]
        BY <4>1
      <4> HIDE DEF x
      <4>4. QED
        BY <4>2, <4>3
    <3>2. CASE ~buf[b].init
      <4>1. PICK v \in Verdicts :
              /\ buf' = [buf EXCEPT ![b] = [@ EXCEPT !.phase = 1000, !.verdict = v]]
              /\ decided' = [decided EXCEPT ![buf[b].req] = v]
              /\ initDone' = initDone
        BY <1>1, <3>2
      <4> DEFINE x == [buf[b] EXCEPT !.phase = 1000, !.verdict = v]
      <4>2. /\ x.op = buf[b].op /\ x.waiting = buf[b].waiting
            /\ x.user_data = buf[b].user_data
            /\ x.room = buf[b].room /\ x.msg = buf[b].msg /\ x.comm = buf[b].comm
            /\ x.phase = 1000 /\ x.to_wake = buf[b].to_wake
        BY <1>7 DEF Contents
      <4>3. buf' = [buf EXCEPT ![b] = x]
        BY <4>1
      <4> HIDE DEF x
      <4>4. QED
        BY <4>2, <4>3, ZenonT(60)
    <3>3. QED
      BY <3>1, <3>2
  <2>2. QED
    BY <2>1 DEF Keeps, TypeOK, BufOK
<1>9. \A a \in Buffers : Keeps(a)
  BY <1>8 DEF Keeps
<1>10. ~Acts(b)'
  <2>1. \A v \in Workers \ {w} : worker[v].pc \in {"send", "park"} => worker[v].b # b
    BY <1>4, ServedAlone
  <2>2. QED
    BY <1>5, <1>8, <2>1 DEF Acts, Resumes
<1>11. \A a \in Buffers : Back(a)' /\ Acts(a)' => Back(a) /\ Acts(a)
  <2>1. \A a \in Buffers \ {b} : Back(a)' => Back(a)
    BY <1>5, <1>6 DEF Back
  <2>2. \A a \in Buffers \ {b} : Acts(a)' => Acts(a)
    BY <1>5, <1>8 DEF Acts
  <2>3. QED
    BY <1>10, <2>1, <2>2
<1>12. \A a \in Buffers : \A e \in Items(buf'[a].to_wake) : buf'[e].phase = 0
  <2>1. \A a \in Buffers : b \notin Items(buf[a].to_wake)
    <3>1. \A a \in Buffers : b \in Items(buf[a].to_wake) => Holds("to_wake", a, b)
      BY DEF Holds, InWake
    <3>2. QED
      BY <1>4, <3>1 DEF Own, Apart
  <2>2. \A a \in Buffers : \A e \in Items(buf[a].to_wake) : e \in Buffers \ {b} /\ buf[e].phase = 0
    BY <2>1, OpsKnown DEF AnswerInv, Untouched
  <2>3. \A a \in Buffers : buf'[a].to_wake = buf[a].to_wake
    BY <1>8
  <2>4. QED
    BY <1>8, <2>2, <2>3
<1>13. \A d \in Conns : reader'[d].pc = "todo" => buf'[reader'[d].b].phase = 0
  <2>1. \A d \in Conns : reader[d].pc = "todo" =>
          /\ reader[d].b \in Buffers /\ buf[reader[d].b].phase = 0
          /\ Holds("reader", d, reader[d].b)
    BY ThreadsHave DEF AnswerInv, Untouched, Owning
  <2>2. \A d \in Conns : reader[d].pc = "todo" => reader[d].b # b
    BY <1>4, <2>1 DEF Own, Apart
  <2>3. QED
    BY <1>2, <1>8, <2>1, <2>2
<1>14. \A v \in Workers : worker'[v] = worker[v] \/ worker'[v].pc # "send"
  BY <1>5
<1>15. Steady
  BY <1>2, <1>9, <1>11, <1>12, <1>13, <1>14, KeepsSteady
<1>16. QED
  BY <1>15, SteadyInv

(* do_phase is saved and b->lock released: only now may another worker go  *)
(* on with the buffer.                                                     *)
LEMMA WorkerParksAnswers ==
  ASSUME TypeOK, TypeOK', Own, OrderInv, AnswerInv, NEW w \in Workers, WorkerParks(w)
  PROVE  AnswerInv'
<1>0. PICK b : b = worker[w].b
  OBVIOUS
<1> DEFINE x == [buf[b] EXCEPT !.phase = worker[w].phase]
           y == [x EXCEPT !.lock = None]
<1>1. /\ worker[w].pc = "park" /\ worker' = [worker EXCEPT ![w] = WorkerIdle]
      /\ buf' = [buf EXCEPT ![b].phase = worker[w].phase, ![b].lock = None]
      /\ UNCHANGED <<told, ids, asked, wait, output, writer, todo, reader>>
  BY <1>0 DEF WorkerParks, WorkerAt, kernel
<1>2. b \in Buffers /\ Busy(b)
  BY <1>0, <1>1 DEF TypeOK, WorkerOK, OrderInv, Parked
<1>3. buf' = [buf EXCEPT ![b] = y]
  <2>1. buf' = [buf EXCEPT ![b] = [x EXCEPT !.lock = None]]
    BY <1>1, <1>2 DEF TypeOK, BufOK
  <2>2. QED
    BY <2>1
<1>4. /\ y.op = buf[b].op /\ y.waiting = buf[b].waiting /\ y.user_data = buf[b].user_data
      /\ y.room = buf[b].room /\ y.msg = buf[b].msg /\ y.comm = buf[b].comm
      /\ y.to_wake = buf[b].to_wake
  BY <1>2 DEF TypeOK, BufOK, Contents
<1> HIDE DEF x, y
<1>5. buf'[b] = y /\ \A a \in Buffers \ {b} : buf'[a] = buf[a]
  BY <1>2, <1>3 DEF TypeOK, BufOK
<1>6. worker'[w].pc = "idle" /\ \A v \in Workers \ {w} : worker'[v] = worker[v]
  BY <1>1 DEF TypeOK, WorkerOK, WorkerIdle
<1>7. \A a \in Buffers : Keeps(a) /\ buf'[a].to_wake = buf[a].to_wake
  BY <1>4, <1>5 DEF Keeps
<1>8. \A a \in Buffers : Back(a)' /\ Acts(a)' => Back(a) /\ Acts(a)
  <2>1. \A a \in Buffers : Back(a)' => Back(a)
    BY <1>1, <1>6 DEF Back
  <2>2. \A a \in Buffers : a = b => Acts(a)
    BY <1>0, <1>1 DEF Acts
  <2>3. \A a \in Buffers \ {b} : Acts(a)' => Acts(a)
    BY <1>5, <1>6 DEF Acts
  <2>4. QED
    BY <2>1, <2>2, <2>3
<1>9. \A a \in Buffers : b \notin Items(buf[a].to_wake)
  <2>1. \A a \in Buffers : b \in Items(buf[a].to_wake) => Holds("to_wake", a, b)
    BY DEF Holds, InWake
  <2>2. QED
    BY <1>2, <2>1, NotBusy DEF Own
<1>10. \A a \in Buffers : \A e \in Items(buf'[a].to_wake) : buf'[e].phase = 0
  <2>1. \A a \in Buffers : \A e \in Items(buf[a].to_wake) : e \in Buffers \ {b} /\ buf[e].phase = 0
    BY <1>9, OpsKnown DEF AnswerInv, Untouched
  <2>2. QED
    BY <1>5, <1>7, <2>1
<1>11. \A d \in Conns : reader'[d].pc = "todo" => buf'[reader'[d].b].phase = 0
  <2>1. \A d \in Conns : reader[d].pc = "todo" =>
          reader[d].b \in Buffers \ {b} /\ buf[reader[d].b].phase = 0
    BY <1>2, ReaderFits DEF AnswerInv, Untouched, Owning
  <2>2. QED
    BY <1>1, <1>5, <2>1
<1>12. \A v \in Workers : worker'[v] = worker[v] \/ worker'[v].pc # "send"
  BY <1>6
<1>13. Steady
  BY <1>1, <1>7, <1>8, <1>10, <1>11, <1>12, KeepsSteady
<1>14. QED
  BY <1>13, SteadyInv

(* The queries that are woken have begun with nothing.                     *)
LEMMA InitWakesAnswers ==
  ASSUME TypeOK, TypeOK', Own, OrderInv, AnswerInv, NEW w \in Workers, InitWakes(w)
  PROVE  AnswerInv'
<1>1. PICK b \in Buffers :
        /\ Serves(w, b)
        /\ buf[b].init /\ buf[b].phase >= 1000
        /\ state_lock[buf[b].comm] = None
        /\ state_lock' = [state_lock EXCEPT ![buf[b].comm] = w]
        /\ todo' = todo \o buf[b].to_wake
        /\ buf' = [buf EXCEPT ![b].to_wake = <<>>]
  BY Zenon DEF InitWakes
<1>2. /\ worker' = [worker EXCEPT ![w].pc = "initfree"]
      /\ UNCHANGED <<told, ids, asked, wait, output, writer, reader>>
  BY DEF InitWakes, kernel
<1> DEFINE x == [buf[b] EXCEPT !.to_wake = <<>>]
<1>3. /\ x.op = buf[b].op /\ x.waiting = buf[b].waiting /\ x.user_data = buf[b].user_data
      /\ x.room = buf[b].room /\ x.msg = buf[b].msg /\ x.comm = buf[b].comm
      /\ x.to_wake = <<>> /\ x.phase = buf[b].phase
  BY <1>1 DEF TypeOK, BufOK, Contents
<1> HIDE DEF x
<1>4. \A a \in Buffers : buf'[a] = IF a = b THEN x ELSE buf[a]
  BY <1>1 DEF TypeOK, BufOK, x
<1>5. worker'[w].pc = "initfree" /\ \A v \in Workers \ {w} : worker'[v] = worker[v]
  BY <1>2 DEF TypeOK, WorkerOK, WorkersAt
<1>6. \A a \in Buffers : Keeps(a) /\ buf'[a].phase = buf[a].phase
  BY <1>3, <1>4 DEF Keeps
<1>7. Items(todo') = Items(todo) \cup Items(buf[b].to_wake)
  BY <1>1, ConcatItems DEF TypeOK, TodoOK, BufOK, Contents
<1>8. \A a \in Items(buf[b].to_wake) : ~Acts(a) /\ a \in Buffers
  <2>1. ASSUME NEW a \in Items(buf[b].to_wake) PROVE ~Acts(a) /\ a \in Buffers
    <3>1. a \in Buffers /\ buf[a].phase = 0
      BY <2>1, OpsKnown DEF AnswerInv, Untouched
    <3>2. Holds("to_wake", b, a)
      BY <2>1 DEF Holds, InWake
    <3>3. ~Busy(a)
      BY <3>1, <3>2, NotBusy DEF Own
    <3>4. QED
      BY <3>1, <3>3, NotWanted DEF Acts, Resumes
  <2>2. QED
    BY <2>1
<1>9. \A a \in Buffers : Back(a)' /\ Acts(a)' => Back(a) /\ Acts(a)
  <2>1. \A a \in Buffers : Acts(a)' => Acts(a)
    BY <1>5, <1>6 DEF Acts
  <2>2. \A a \in Buffers : Back(a)' => Back(a) \/ a \in Items(buf[b].to_wake)
    BY <1>5, <1>7 DEF Back
  <2>3. QED
    BY <1>8, <2>1, <2>2
<1>10. \A a \in Buffers : \A e \in Items(buf'[a].to_wake) : buf'[e].phase = 0
  <2>1. \A a \in Buffers : \A e \in Items(buf[a].to_wake) : e \in Buffers /\ buf[e].phase = 0
    BY OpsKnown DEF AnswerInv, Untouched
  <2>2. \A a \in Buffers : Items(buf'[a].to_wake) \subseteq Items(buf[a].to_wake)
    BY <1>3, <1>4, EmptyItems
  <2>3. QED
    BY <1>6, <2>1, <2>2
<1>11. \A d \in Conns : reader'[d].pc = "todo" => buf'[reader'[d].b].phase = 0
  <2>1. \A d \in Conns : reader[d].pc = "todo" => reader[d].b \in Buffers /\ buf[reader[d].b].phase = 0
    BY DEF AnswerInv, Untouched, TypeOK, ReaderOK, Owning
  <2>2. QED
    BY <1>2, <1>6, <2>1
<1>12. \A v \in Workers : worker'[v] = worker[v] \/ worker'[v].pc # "send"
  BY <1>5
<1>13. Steady
  BY <1>2, <1>6, <1>9, <1>10, <1>11, <1>12, KeepsSteady
<1>14. QED
  BY <1>13, SteadyInv

LEMMA WriterWaitsAnswers ==
  ASSUME TypeOK, TypeOK', AnswerInv, NEW c \in Conns, WriterWaits(c)
  PROVE  AnswerInv'
<1>1. /\ writer' = [writer EXCEPT ![c].pc = "take"]
      /\ UNCHANGED <<buf, told, ids, asked, wait, todo, output, reader, worker>>
  BY DEF WriterWaits, kernel
<1>2. \A d \in Conns : writer'[d].b = writer[d].b
  BY <1>1 DEF TypeOK, WriterOK
<1>3. \A b \in Buffers : Back(b)' /\ Acts(b)' => Back(b) /\ Acts(b)
  BY <1>1 DEF Back, Acts
<1>4. Steady
  BY <1>1, <1>2, <1>3, StillSteady
<1>5. QED
  BY <1>4, SteadyInv

(* comm_buf_free(): the operation of the buffer is forgotten with it, and  *)
(* no other buffer's.                                                      *)
LEMMA FreeAnswers ==
  ASSUME TypeOK, TypeOK', Own, OrderInv, AnswerInv,
         NEW b \in Buffers, NEW out \in Queues, Free(b, buf, mem, out),
         NEW k, NEW x, Holds(k, x, b), k \notin Slots \cup {"wait", "fetched", "todo", "request"},
         \A w \in Workers : worker[w].pc \in {"send", "park"} => worker[w].b # b,
         UNCHANGED <<ids, asked, wait>>,
         \A c \in Conns : Items(out[c]) \subseteq Items(output[c]) \ {b},
         \A w \in Workers :
           worker'[w] = worker[w] \/ worker'[w].pc \notin {"got", "send", "park"},
         \A c \in Conns : writer'[c].b = writer[c].b \/ writer[c].b \in {b, None},
         \A c \in Conns :
           reader'[c] = reader[c] \/ reader'[c].pc \notin {"answer", "body", "todo"}
  PROVE  AnswerInv'
<1>0. PICK c, r, y : c = buf[b].comm /\ r = Fresh(mem) /\ y = Outgoing(c, [kind |-> "ready"])
  OBVIOUS
<1>1. /\ SendsReady(b) => Available(mem)
      /\ todo' = todo \o buf[b].to_wake
      /\ told' = [o \in DOMAIN told \ {buf[b].op} |-> told[o]]
      /\ buf' = IF SendsReady(b) THEN [buf EXCEPT ![b] = Blank, ![r] = y]
                ELSE [buf EXCEPT ![b] = Blank]
      /\ output' = IF SendsReady(b) THEN [out EXCEPT ![c] = comm_buf_to_queue(@, r)] ELSE out
  BY <1>0 DEF Free
<1>2. SendsReady(b) =>
        /\ r \in Buffers \ {b} /\ ~Busy(r) /\ c \in Conns
        /\ \A d \in Conns : r \notin Items(output[d])
        /\ \A w \in Workers : worker[w].r # r
  <2> SUFFICES ASSUME SendsReady(b)
               PROVE  /\ r \in Buffers \ {b} /\ ~Busy(r) /\ c \in Conns
                      /\ \A d \in Conns : r \notin Items(output[d])
                      /\ \A w \in Workers : worker[w].r # r
    OBVIOUS
  <2>1. /\ r \in Buffers /\ ~Busy(r) /\ Holds(Slot(mem), None, r) /\ Slot(mem) \in Slots
        /\ \A d \in Conns : r \notin Items(output[d])
    BY <1>0, <1>1, FreshFits, TakesFresh
  <2>2. r # b /\ Slot(mem) # "request"
    BY <2>1 DEF Own, Apart, Slots
  <2>3. c \in Conns
    BY <1>0 DEF SendsReady, TypeOK, BufOK, Contents
  <2>4. QED
    BY <2>1, <2>2, <2>3, HeldOnce
<1>3. /\ \A d \in Conns : b \notin Items(wait[d]) /\ reader[d].p # b
      /\ \A w \in Workers : worker[w].r # b
  <2>1. \A d \in Conns : b \in Items(wait[d]) => Holds("wait", d, b)
    BY DEF Holds, InWait
  <2>2. \A d \in Conns : reader[d].p = b => Holds("fetched", d, b)
    BY DEF Holds, InReader
  <2>3. QED
    BY <2>1, <2>2, HeldOnce DEF Own, Apart
<1> DEFINE new == {b} \cup (IF SendsReady(b) THEN {r} ELSE {})
<1>4. /\ \A a \in Buffers : a \notin new => buf'[a] = buf[a]
      /\ \A a \in Buffers : a \in new => (a = b /\ buf'[a] = Blank) \/ (SendsReady(b) /\ a = r /\ buf'[a] = y)
  BY <1>1, <1>2 DEF TypeOK, BufOK
<1>5. /\ y.op = None /\ y.msg \notin Ops /\ y.msg # None /\ y.room /\ y.to_wake = <<>> /\ y.phase = 0
      /\ y.comm = c
  <2>1. PICK m : m = [kind |-> "ready"]
    OBVIOUS
  <2>2. m \notin Ops /\ m # None
    BY <2>1, NoOperation
  <2>3. y = Outgoing(c, m)
    BY <1>0, <2>1
  <2>4. QED
    BY <2>2, <2>3, BlankVacant
<1>6. \A a \in Buffers : a \in new => Vacant(a) /\ buf'[a].to_wake = <<>> /\ buf'[a].phase = 0
  BY <1>4, <1>5, BlankVacant DEF Vacant
<1>7. \A a \in new : /\ \A d \in Conns : a \notin Items(wait[d]) /\ reader[d].p # a
                     /\ \A w \in Workers : worker[w].pc \in {"send", "park"} => worker[w].b # a
                     /\ \A w \in Workers : worker[w].r # a
  BY <1>2, <1>3, NotWanted
<1> HIDE DEF new
<1>8. \A a \in Buffers : a \notin new => Intact(a) /\ Retains(a)
  <2>1. b \in new /\ None \notin Buffers
    BY Others DEF new
  <2>2. QED
    BY <1>4, <2>1 DEF Intact, Retains
<1>9. \A a \in Buffers : buf'[a].op # None /\ buf'[a].op \in DOMAIN told =>
        ToldNow(buf'[a].op, told[buf'[a].op])
  <2>1. ASSUME NEW a \in Buffers, buf'[a].op # None, buf'[a].op \in DOMAIN told
        PROVE  ToldNow(buf'[a].op, told[buf'[a].op])
    <3>1. a \notin new
      BY <1>6, <2>1 DEF Vacant
    <3>2. buf'[a].op = buf[a].op /\ a # b
      BY <1>4, <3>1 DEF new
    <3>3. buf[a].op # buf[b].op
      BY <2>1, <3>2 DEF AnswerInv, Distinct
    <3>4. QED
      BY <1>1, <2>1, <3>2, <3>3 DEF ToldNow
  <2>2. QED
    BY <2>1
<1>10. Items(todo') = Items(todo) \cup Items(buf[b].to_wake)
  BY <1>1, ConcatItems DEF TypeOK, TodoOK, BufOK, Contents
<1>11. \A a \in Items(buf[b].to_wake) : ~Acts(a) /\ a \in Buffers
  <2>1. ASSUME NEW a \in Items(buf[b].to_wake) PROVE ~Acts(a) /\ a \in Buffers
    <3>1. a \in Buffers /\ buf[a].phase = 0
      BY <2>1, OpsKnown DEF AnswerInv, Untouched
    <3>2. Holds("to_wake", b, a)
      BY <2>1 DEF Holds, InWake
    <3>3. ~Busy(a)
      BY <3>1, <3>2, NotBusy DEF Own
    <3>4. QED
      BY <3>1, <3>3, NotWanted DEF Acts, Resumes
  <2>2. QED
    BY <2>1
<1>12. \A a \in Buffers : Back(a)' /\ Acts(a)' => Back(a) /\ Acts(a) /\ Retains(a)
  <2>1. \A a \in Buffers : a \in new => ~Acts(a)'
    BY <1>6, <1>7 DEF Acts, Resumes
  <2>2. \A a \in Buffers : a \notin new => (Acts(a)' => Acts(a))
    BY <1>4 DEF Acts
  <2>3. \A a \in Buffers : Back(a)' => Back(a) \/ a \in Items(buf[b].to_wake)
    BY <1>10 DEF Back
  <2>4. QED
    BY <1>8, <1>11, <2>1, <2>2, <2>3
<1>13. \A a \in Buffers : buf[a].phase = 0 => buf'[a].phase = 0
  BY <1>4, <1>6
<1>14. \A a \in Buffers : \A e \in Items(buf'[a].to_wake) : buf'[e].phase = 0
  <2>1. \A a \in Buffers : \A e \in Items(buf[a].to_wake) : e \in Buffers /\ buf[e].phase = 0
    BY OpsKnown DEF AnswerInv, Untouched
  <2>2. \A a \in Buffers : Items(buf'[a].to_wake) \subseteq Items(buf[a].to_wake)
    BY <1>4, <1>6, EmptyItems
  <2>3. QED
    BY <1>13, <2>1, <2>2
<1>15. \A d \in Conns : reader'[d].pc = "todo" => buf'[reader'[d].b].phase = 0
  <2>1. \A d \in Conns : reader[d].pc = "todo" => reader[d].b \in Buffers /\ buf[reader[d].b].phase = 0
    BY DEF AnswerInv, Untouched, TypeOK, ReaderOK, Owning
  <2>2. \A d \in Conns : reader'[d].pc = "todo" => reader'[d] = reader[d]
    OBVIOUS
  <2>3. QED
    BY <1>13, <2>1, <2>2
<1>16. \A d \in Conns : \A a \in Items(output'[d]) :
         \/ a \in Items(output[d]) /\ Intact(a)
         \/ buf'[a].msg # None /\ buf'[a].comm = d
  <2>1. \A d \in Conns : \A a \in Items(output[d]) \ {b} : a \in Buffers /\ a \notin new
    BY <1>2, OpsKnown DEF new
  <2>2. \A d \in Conns : \A a \in Items(out[d]) : a \in Items(output[d]) /\ Intact(a)
    BY <1>8, <2>1
  <2>3. CASE SendsReady(b)
    <3>1. \A d \in Conns : out[d] \in Seq(Buffers)
      BY DEF Queues
    <3>2. Items(output'[c]) = Items(out[c]) \cup {r}
      BY <1>1, <1>2, <2>3, <3>1, AppendItems DEF comm_buf_to_queue, Queues
    <3>3. \A d \in Conns \ {c} : output'[d] = out[d]
      BY <1>1, <2>3 DEF Queues
    <3>4. buf'[r] = y
      BY <1>2, <1>4, <2>3 DEF new
    <3>5. QED
      BY <1>5, <2>2, <3>2, <3>3, <3>4
  <2>4. CASE ~SendsReady(b)
    BY <1>1, <2>2, <2>4
  <2>5. QED
    BY <2>3, <2>4
<1>17. \A w \in Workers : worker'[w].pc = "send" =>
         worker[w].pc = "send" /\ worker'[w].r = worker[w].r /\ Intact(worker[w].r)
  <2>1. \A w \in Workers : worker[w].pc = "send" => worker[w].r \in Buffers /\ worker[w].r \notin new
    BY <1>7, OpsKnown
  <2>2. QED
    BY <1>8, <2>1
<1>18. \A d \in Conns :
         /\ \A a \in Items(wait[d]) : a \in Buffers /\ Retains(a)
         /\ reader[d].pc = "body" => Retains(reader[d].p)
  <2>1. \A d \in Conns : \A a \in Items(wait[d]) : a \in Buffers /\ a \notin new
    BY <1>7, OpsKnown
  <2>2. \A d \in Conns : reader[d].pc = "body" => reader[d].p \in Buffers /\ reader[d].p \notin new
    BY <1>7, OpsKnown
  <2>3. QED
    BY <1>8, <2>1, <2>2
<1>19. \A a \in Buffers : Intact(a) \/ Vacant(a)
  BY <1>6, <1>8
<1>20. Undisturbed
  BY <1>9, <1>12, <1>14, <1>15, <1>16, <1>17, <1>18, <1>19 DEF Undisturbed
<1>21. QED
  BY <1>20, UndisturbedInv

LEMMA ReaderFreesAnswers ==
  ASSUME TypeOK, TypeOK', Own, OrderInv, AnswerInv, NEW c \in Conns, ReaderFrees(c)
  PROVE  AnswerInv'
<1>0. PICK b : b = reader[c].b
  OBVIOUS
<1>1. /\ Free(b, buf, mem, output) /\ reader[c].pc = "free"
      /\ reader' = [reader EXCEPT ![c] = ReaderIdle]
      /\ UNCHANGED <<ids, asked, wait, worker, writer>>
  BY <1>0 DEF ReaderFrees, ReaderAt, kernel
<1>2. b \in Buffers /\ ~Busy(b) /\ Holds("reader", c, b)
  BY <1>0, <1>1, ReaderFits, ThreadsHave DEF Owning
<1>3. "reader" \notin Slots \cup {"wait", "fetched", "todo", "request"}
  BY DEF Slots
<1>4. \A w \in Workers : worker[w].pc \in {"send", "park"} => worker[w].b # b
  BY <1>2, NotWanted
<1>5. output \in Queues /\ \A d \in Conns : Items(output[d]) \subseteq Items(output[d]) \ {b}
  BY <1>2, HeldOnce DEF TypeOK, OutputOK
<1>6. \A d \in Conns : reader'[d] = reader[d] \/ reader'[d].pc = "get"
  BY <1>1 DEF TypeOK, ReaderOK, ReaderIdle
<1>7. QED
  BY <1>1, <1>2, <1>3, <1>4, <1>5, <1>6, FreeAnswers

LEMMA WorkerFreesAnswers ==
  ASSUME TypeOK, TypeOK', Own, OrderInv, AnswerInv, NEW w \in Workers,
         WorkerFrees(w) \/ InitFrees(w)
  PROVE  AnswerInv'
<1>0. PICK b : b = worker[w].b
  OBVIOUS
<1>1. /\ Free(b, buf, mem, output) /\ worker[w].pc \in {"free", "initfree"}
      /\ UNCHANGED <<ids, asked, wait, reader, writer>>
  BY <1>0 DEF WorkerFrees, InitFrees, WorkerAt, kernel
<1>2. \A v \in Workers : worker'[v] = worker[v] \/ worker'[v].pc \in {"idle", "initclear"}
  <2>1. CASE WorkerFrees(w)
    BY <2>1 DEF WorkerFrees, TypeOK, WorkerOK, WorkerIdle
  <2>2. CASE InitFrees(w)
    BY <2>2 DEF InitFrees, TypeOK, WorkerOK, WorkerIdle
  <2>3. QED
    BY <2>1, <2>2
<1>3. b \in Buffers /\ Holds("worker", w, b)
  BY <1>0, <1>1, ServedKnown
<1>4. "worker" \notin Slots \cup {"wait", "fetched", "todo", "request"}
  BY DEF Slots
<1>5. \A v \in Workers : worker[v].pc \in {"send", "park"} => worker[v].b # b
  <2>1. CASE worker[w].pc = "free"
    <3>1. ~Busy(b)
      BY <1>0, <1>3, <2>1, NotBusyWorker DEF Own
    <3>2. QED
      BY <3>1, NotWanted
  <2>2. CASE worker[w].pc = "initfree"
    <3>1. buf[b].lock = None
      BY <1>0, <2>2 DEF OrderInv, StateLocks
    <3>2. QED
      BY <1>0, <1>3, <2>2, <3>1, ServedAlone
  <2>3. QED
    BY <1>1, <2>1, <2>2
<1>6. output \in Queues /\ \A d \in Conns : Items(output[d]) \subseteq Items(output[d]) \ {b}
  BY <1>3, HeldOnce DEF TypeOK, OutputOK
<1>7. QED
  BY <1>1, <1>2, <1>3, <1>4, <1>5, <1>6, FreeAnswers

LEMMA WriterFreesAnswers ==
  ASSUME TypeOK, TypeOK', Own, OrderInv, AnswerInv, NEW c \in Conns, WriterFrees(c)
  PROVE  AnswerInv'
<1>0. PICK b : b = writer[c].b
  OBVIOUS
<1>1. /\ Free(b, buf, mem, output) /\ writer[c].pc = "free"
      /\ writer' = [writer EXCEPT ![c] = WriterIdle]
      /\ UNCHANGED <<ids, asked, wait, reader, worker>>
  BY <1>0 DEF WriterFrees, WriterAt, kernel
<1>2. b \in Buffers /\ ~Busy(b) /\ Holds("writer", c, b)
  BY <1>0, <1>1, ThreadsHave, WriterFits
<1>3. "writer" \notin Slots \cup {"wait", "fetched", "todo", "request"}
  BY DEF Slots
<1>4. \A w \in Workers : worker[w].pc \in {"send", "park"} => worker[w].b # b
  BY <1>2, NotWanted
<1>5. output \in Queues /\ \A d \in Conns : Items(output[d]) \subseteq Items(output[d]) \ {b}
  BY <1>2, HeldOnce DEF TypeOK, OutputOK
<1>6. \A d \in Conns : writer'[d].b = writer[d].b \/ writer[d].b = b
  BY <1>0, <1>1 DEF TypeOK, WriterOK
<1>7. QED
  BY <1>1, <1>2, <1>3, <1>4, <1>5, <1>6, FreeAnswers

LEMMA WriterSkipsAnswers ==
  ASSUME TypeOK, TypeOK', Own, OrderInv, AnswerInv, WritersIdle, NEW c \in Conns, WriterSkips(c)
  PROVE  AnswerInv'
<1>0. PICK b, out : b = First(c) /\ out = [output EXCEPT ![c] = comm_buf_from_queue(@)]
  OBVIOUS
<1>1. /\ output[c] # <<>> /\ Free(b, buf, mem, out) /\ writer[c].pc = "take"
      /\ writer' = [writer EXCEPT ![c] = WriterIdle]
      /\ UNCHANGED <<ids, asked, wait, reader, worker>>
  BY <1>0 DEF WriterSkips, WriterAt, kernel
<1>2. output \in Queues /\ out \in Queues /\ \A d \in Conns : Once(output[d])
  BY <1>0, <1>1, DequeuedOK DEF TypeOK, OutputOK, Own, Lists
<1>3. /\ b \in Items(output[c]) /\ Items(out[c]) = Items(output[c]) \ {b}
      /\ \A d \in Conns \ {c} : out[d] = output[d]
  BY <1>0, <1>1, <1>2, TailItems DEF First, Queues, comm_buf_from_queue
<1>4. b \in Buffers /\ ~Busy(b) /\ Holds("output", c, b)
  BY <1>3, OutputFits DEF Holds, InOutput
<1>5. "output" \notin Slots \cup {"wait", "fetched", "todo", "request"}
  BY DEF Slots
<1>6. \A w \in Workers : worker[w].pc \in {"send", "park"} => worker[w].b # b
  BY <1>4, NotWanted
<1>7. \A d \in Conns : Items(out[d]) \subseteq Items(output[d]) \ {b}
  BY <1>3, <1>4, HeldOnce
<1>8. \A d \in Conns : writer'[d].b = writer[d].b \/ writer[d].b = None
  BY <1>1 DEF TypeOK, WriterOK, WritersIdle
<1>9. QED
  BY <1>1, <1>2, <1>4, <1>5, <1>6, <1>7, <1>8, FreeAnswers

(* A second buffer taken at once comes from the pools, too.                *)
LEMMA TakesSecond ==
  ASSUME TypeOK, Own, Available(mem), Available(Taken(mem)), NEW r, r = Fresh(Taken(mem))
  PROVE  \E k \in Slots : Holds(k, None, r)
<1>0. PICK m : m = Taken(mem)
  OBVIOUS
<1>1. /\ Once(m.slot0) /\ Once(m.slot1) /\ m \in Memory
      /\ \A k, z, a : InMem(m, k, z, a) => InMem(mem, k, z, a)
  BY <1>0, TakesFresh, TakenOK DEF TypeOK, MemOK
<1>2. InMem(m, Slot(m), None, r) /\ Slot(m) \in Slots
  BY <1>0, <1>1, TakenFrom DEF Slot, Slots
<1>3. QED
  BY <1>1, <1>2 DEF Holds

(* comm_alloc_var_data() moves a buffer in which nothing has happened.     *)
LEMMA ResizesAnswers ==
  ASSUME TypeOK, TypeOK', Own, OrderInv, AnswerInv, NEW w \in Workers, Resizes(w)
  PROVE  AnswerInv'
<1>0. PICK b, n, r, c, y :
        /\ b = worker[w].b /\ n = Fresh(mem) /\ r = Fresh(Taken(mem)) /\ c = buf[b].comm
        /\ y = Outgoing(c, [kind |-> "ready"])
  OBVIOUS
<1> DEFINE x == [buf[b] EXCEPT !.room = TRUE]
<1>1. /\ worker[w].pc = "got" /\ b \in Buffers /\ n \in Buffers /\ n # b
      /\ c \in Conns /\ buf[b].lock = None /\ VarData /\ ~buf[b].room
      /\ ~Busy(n)
      /\ SendsReady(b) => r \in Buffers \ {b, n} /\ ~Busy(r)
      /\ \A a \in Buffers :
           buf'[a] = IF SendsReady(b) /\ a = r THEN y ELSE IF a = b THEN Blank
                     ELSE IF a = n THEN x ELSE buf[a]
      /\ todo' = todo /\ (SendsReady(b) => Available(Taken(mem)))
      /\ output' = IF SendsReady(b) THEN [output EXCEPT ![c] = comm_buf_to_queue(@, r)] ELSE output
      /\ worker' = [worker EXCEPT ![w].b = n]
      /\ UNCHANGED <<wait, reader, writer, asked>>
  BY <1>0, ResizesMoves DEF kernel
<1>2. Available(mem) /\ UNCHANGED ids
  BY DEF Resizes
<1>3. buf[b].op = None /\ buf[b].msg = None
  BY <1>1 DEF AnswerInv, Untouched
<1>4. told' = [o \in DOMAIN told \ {None} |-> told[o]]
  <2> DEFINE bufs == [buf EXCEPT ![n] = [buf[b] EXCEPT !.room = TRUE], ![b].to_wake = <<>>]
  <2>1. Free(b, bufs, Taken(mem), output)
    BY <1>0 DEF Resizes
  <2>2. bufs[b].op = None
    <3>1. bufs[b] = [buf[b] EXCEPT !.to_wake = <<>>]
      BY <1>1 DEF TypeOK, BufOK
    <3>2. buf[b] \in Contents
      BY <1>1 DEF TypeOK, BufOK
    <3> HIDE DEF bufs
    <3>3. QED
      BY <1>3, <3>1, <3>2 DEF Contents
  <2> HIDE DEF bufs
  <2>3. QED
    BY <2>1, <2>2 DEF Free
<1>5. /\ x.op = None /\ x.msg = None /\ x.room /\ x.to_wake = buf[b].to_wake
      /\ x.phase = buf[b].phase
  BY <1>1, <1>3 DEF TypeOK, BufOK, Contents
<1>6. /\ y.op = None /\ y.msg \notin Ops /\ y.msg # None /\ y.room /\ y.to_wake = <<>> /\ y.phase = 0
      /\ y.comm = c
  <2>1. PICK m : m = [kind |-> "ready"]
    OBVIOUS
  <2>2. m \notin Ops /\ m # None
    BY <2>1, NoOperation
  <2>3. y = Outgoing(c, m)
    BY <1>0, <2>1
  <2>4. QED
    BY <2>2, <2>3, BlankVacant
<1> HIDE DEF x
<1> DEFINE new == {b, n} \cup (IF SendsReady(b) THEN {r} ELSE {})
<1>7. /\ \A a \in Buffers : a \notin new => buf'[a] = buf[a]
      /\ \A a \in Buffers : a \in new =>
           \/ a = b /\ buf'[a] = Blank
           \/ a = n /\ buf'[a] = x
           \/ SendsReady(b) /\ a = r /\ buf'[a] = y
      /\ SendsReady(b) => buf'[r] = y
  BY <1>1
<1>8. \A a \in Buffers : a \in new => Vacant(a)
  BY <1>5, <1>6, <1>7, BlankVacant DEF Vacant
<1>9. Holds("worker", w, b)
  BY <1>0, <1>1 DEF Holds, InWorker
<1>10. \A a \in new : /\ \A d \in Conns : a \notin Items(wait[d]) /\ reader[d].p # a
                      /\ \A d \in Conns : a \notin Items(output[d])
                      /\ \A v \in Workers : worker[v].pc \in {"send", "park"} => worker[v].b # a
                      /\ \A v \in Workers : worker[v].r # a
  <2>1. "worker" \notin Slots \cup {"wait", "fetched", "output", "request"}
        /\ Slots \cap {"output", "request"} = {}
    BY DEF Slots
  <2>2. /\ \A d \in Conns : b \in Items(wait[d]) => Holds("wait", d, b)
        /\ \A d \in Conns : reader[d].p = b => Holds("fetched", d, b)
    BY DEF Holds, InWait, InReader
  <2>3. /\ \A d \in Conns : b \notin Items(wait[d]) /\ reader[d].p # b
        /\ \A d \in Conns : b \notin Items(output[d])
        /\ \A v \in Workers : worker[v].r # b
    BY <1>1, <1>9, <2>1, <2>2, HeldOnce DEF Own, Apart
  <2>4. \A v \in Workers : worker[v].pc \in {"send", "park"} => worker[v].b # b
    BY <1>0, <1>1, ServedAlone
  <2>5. /\ \A d \in Conns : n \notin Items(output[d])
        /\ \A v \in Workers : worker[v].r # n
    BY <1>0, <1>1, <1>2, <2>1, TakesFresh, HeldOnce
  <2>6. SendsReady(b) => /\ \A d \in Conns : r \notin Items(output[d])
                         /\ \A v \in Workers : worker[v].r # r
    <3>1. SendsReady(b) => \E k \in Slots : Holds(k, None, r)
      BY <1>0, <1>1, <1>2, TakesSecond
    <3>2. QED
      BY <1>1, <2>1, <3>1, HeldOnce
  <2>7. QED
    BY <1>1, <2>3, <2>4, <2>5, <2>6, NotWanted
<1>11. worker'[w].b = n /\ worker'[w].pc = "got" /\ \A v \in Workers \ {w} : worker'[v] = worker[v]
  BY <1>1 DEF TypeOK, WorkerOK, WorkersAt
<1>12. b \in new /\ n \in new /\ (SendsReady(b) => r \in new)
  OBVIOUS
<1> HIDE DEF new
<1>13. \A a \in Buffers : a \notin new => Intact(a) /\ Retains(a)
  BY <1>1, <1>7 DEF Intact, Retains
<1>14. \A a \in Buffers : buf'[a].op # None /\ buf'[a].op \in DOMAIN told =>
         ToldNow(buf'[a].op, told[buf'[a].op])
  BY <1>4 DEF ToldNow
<1>15. buf[b].phase \notin Resumes
  <2>1. worker[w].b = b /\ worker[w].pc = "got"
    BY <1>0, <1>1
  <2>2. Back(b)
    BY <2>1 DEF Back
  <2>3. QED
    BY <1>1, <1>3, <2>2 DEF AnswerInv, Resumed, Acts
<1>16. \A a \in Buffers : Back(a)' /\ Acts(a)' => Back(a) /\ Acts(a) /\ Retains(a)
  <2>1. \A a \in Buffers : a \in new => buf'[a].phase \notin Resumes
    BY <1>5, <1>6, <1>7, <1>15, BlankVacant DEF Resumes
  <2>2. \A a \in Buffers : a \in new => ~Acts(a)'
    BY <1>10, <1>11, <2>1 DEF Acts
  <2>3. \A a \in Buffers : a \notin new => (Acts(a)' => Acts(a))
    BY <1>7, <1>11 DEF Acts
  <2>4. \A a \in Buffers : a \notin new => (Back(a)' => Back(a))
    BY <1>1, <1>11, <1>12 DEF Back
  <2>5. QED
    BY <1>13, <2>2, <2>3, <2>4
<1>17. \A a \in Buffers : \A e \in Items(buf'[a].to_wake) : buf'[e].phase = 0
  <2>1. \A a \in Buffers : \A e \in Items(buf[a].to_wake) : e \in Buffers /\ buf[e].phase = 0
    BY OpsKnown DEF AnswerInv, Untouched
  <2>2. \A a \in Buffers : n \notin Items(buf[a].to_wake)
    BY <1>0, <1>2, FreshFits
  <2>3. \A a \in Buffers : a # n => (buf[a].phase = 0 => buf'[a].phase = 0)
    BY <1>6, <1>7, BlankVacant
  <2>4. \A a \in Buffers : \/ Items(buf'[a].to_wake) \subseteq Items(buf[a].to_wake)
                           \/ Items(buf'[a].to_wake) \subseteq Items(buf[b].to_wake)
    BY <1>5, <1>6, <1>7, BlankVacant, EmptyItems
  <2>5. QED
    BY <1>1, <2>1, <2>2, <2>3, <2>4
<1>18. \A d \in Conns : reader'[d].pc = "todo" => buf'[reader'[d].b].phase = 0
  <2>1. \A d \in Conns : reader[d].pc = "todo" => reader[d].b \in Buffers /\ buf[reader[d].b].phase = 0
    BY DEF AnswerInv, Untouched, TypeOK, ReaderOK, Owning
  <2>2. \A d \in Conns : reader[d].pc = "todo" => reader[d].b # n
    BY <1>0, <1>2, FreshFits DEF Owning
  <2>3. \A a \in Buffers : a # n => (buf[a].phase = 0 => buf'[a].phase = 0)
    BY <1>6, <1>7, BlankVacant
  <2>4. QED
    BY <1>1, <2>1, <2>2, <2>3
<1>19. \A d \in Conns : \A a \in Items(output'[d]) :
         \/ a \in Items(output[d]) /\ Intact(a)
         \/ buf'[a].msg # None /\ buf'[a].comm = d
  <2>1. \A d \in Conns : \A a \in Items(output[d]) : Intact(a)
    BY <1>10, <1>13, OpsKnown
  <2>2. CASE SendsReady(b)
    <3>1. Items(output'[c]) = Items(output[c]) \cup {r}
      BY <1>1, <2>2, AppendItems DEF comm_buf_to_queue, TypeOK, OutputOK, Queues
    <3>2. \A d \in Conns \ {c} : output'[d] = output[d]
      BY <1>1, <2>2 DEF TypeOK, OutputOK, Queues
    <3>3. QED
      BY <1>6, <1>7, <2>1, <2>2, <3>1, <3>2
  <2>3. CASE ~SendsReady(b)
    BY <1>1, <2>1, <2>3
  <2>4. QED
    BY <2>2, <2>3
<1>20. \A v \in Workers : worker'[v].pc = "send" =>
         worker[v].pc = "send" /\ worker'[v].r = worker[v].r /\ Intact(worker[v].r)
  BY <1>10, <1>11, <1>13, OpsKnown
<1>21. \A d \in Conns :
         /\ \A a \in Items(wait[d]) : Retains(a)
         /\ reader[d].pc = "body" => Retains(reader[d].p)
  BY <1>10, <1>13, OpsKnown
<1>22. \A a \in Buffers : Intact(a) \/ Vacant(a)
  BY <1>8, <1>13
<1>23. UNCHANGED <<ids, asked, wait, reader>>
  BY <1>1, <1>2
<1>24. Undisturbed
  BY <1>14, <1>16, <1>17, <1>18, <1>19, <1>20, <1>21, <1>22, <1>23 DEF Undisturbed
<1>25. QED
  BY <1>24, UndisturbedInv

-----------------------------------------------------------------------------
(* The answers. *)

(* The buffer the reader finds is the one that asked, and the outcome it   *)
(* has is what the kernel gave for that operation.                         *)
LEMMA WaiterAsked ==
  ASSUME TypeOK, Own, AnswerInv, NEW c \in Conns, reader[c].pc = "answer",
         NEW op, op = reader[c].msg.op, Waiters(c, op) # {}, NEW p, p = Waiter(c, op)
  PROVE  /\ p \in Buffers /\ p \in Items(wait[c]) /\ Holds("wait", c, p)
         /\ buf[p].op = op /\ op \in Ops /\ op.comm = c
         /\ op.seq # 1 /\ Told(op, reader[c].msg.outcome)
         /\ buf[p].user_data = "error"
<1>1. Match(c, op) \in Waiters(c, op) /\ p = wait[c][Match(c, op)]
  BY MatchFound DEF TypeOK, Waiter
<1>2. /\ Match(c, op) \in DOMAIN wait[c]
      /\ buf[p].waiting = [to |-> op.kind, seq |-> op.seq]
  BY <1>1 DEF Waiters
<1>3. p \in Items(wait[c])
  BY <1>1, <1>2 DEF Items
<1>4. p \in Buffers /\ Holds("wait", c, p)
  BY <1>3, OpsKnown DEF Holds, InWait
<1>5. PICK o : o = buf[p].op
  OBVIOUS
<1>6. /\ o \in Ops /\ o.comm = c /\ buf[p].waiting = [to |-> o.kind, seq |-> o.seq]
      /\ buf[p].user_data = "error"
  BY <1>3, <1>5 DEF AnswerInv, Waiting
<1>7. o.kind = op.kind /\ o.seq = op.seq
  BY <1>2, <1>6
<1>8. op.seq # 1
  <2>1. None \notin Ops
    BY OpsKnown
  <2>2. Issued(o)
    BY <1>4, <1>5, <1>6, <2>1 DEF AnswerInv, Numbered
  <2>3. QED
    BY <1>7, <2>2 DEF Issued
<1>9. op \in Ops /\ op.comm = c /\ Told(op, reader[c].msg.outcome)
  BY <1>8 DEF AnswerInv, Awaited
<1>10. o = op
  BY <1>6, <1>7, <1>9 DEF Ops
<1>11. QED
  BY <1>3, <1>4, <1>5, <1>6, <1>8, <1>9, <1>10

(* What was answered is under way no more.                                 *)
LEMMA NowAnswered ==
  ASSUME AnswerInv, NEW c \in Conns, reader[c].pc = "answer",
         NEW op, op = reader[c].msg.op, op \in Ops, op.comm = c, op.seq # 1,
         reader'[c].pc # "answer", \A d \in Conns \ {c} : reader'[d] = reader[d]
  PROVE  Answered(op)
<1>1. op \notin asked /\ \A r \in Buffers : ~Carries(r, op)
  BY DEF AnswerInv, Distinct
<1>2. \A d \in Conns : reader[d].pc = "answer" /\ reader[d].msg.op = op => d = c
  BY DEF AnswerInv, Awaited
<1>3. QED
  BY <1>1, <1>2 DEF Answered

(* A buffer p goes from wait_for_answer to todo, at once or by way of      *)
(* reader[c].p, with what the kernel said.                                 *)
LEMMA WokenAnswers ==
  ASSUME TypeOK, TypeOK', AnswerInv, NEW p \in Buffers, ~Back(p),
         UNCHANGED <<told, ids, asked, output, writer, worker>>,
         \A a \in Buffers :
           /\ buf'[a].op = buf[a].op /\ buf'[a].room = buf[a].room /\ buf'[a].msg = buf[a].msg
           /\ buf'[a].comm = buf[a].comm /\ Goes(a)
           /\ a # p => Retains(a),
         \A d \in Conns :
           /\ Items(wait'[d]) \subseteq Items(wait[d]) \ {p}
           /\ Items(wait[d]) \ Items(wait'[d]) \subseteq {p}
           /\ p \in Items(wait[d]) => Answered(buf[p].op),
         Items(todo') \subseteq Items(todo) \cup {p},
         p \in Items(todo') => buf[p].op # None /\ Told(buf[p].op, buf'[p].user_data),
         \A d \in Conns :
           \/ reader'[d] = reader[d] /\ (reader[d].pc = "body" => reader[d].p # p)
           \/ reader'[d].pc \notin {"answer", "body", "todo"}
           \/ /\ reader'[d].pc = "body" /\ reader'[d].p = p
              /\ buf[p].op # None /\ Told(buf[p].op, "ok")
  PROVE  AnswerInv'
<1>1. \A a \in Buffers : Intact(a)
  BY DEF Intact
<1>2. \A a \in Buffers : buf'[a].op # None /\ buf'[a].op \in DOMAIN told =>
        ToldNow(buf'[a].op, told[buf'[a].op])
  BY DEF ToldNow
<1>3. \A a \in Buffers : Back(a)' /\ Acts(a)' =>
        \/ Back(a) /\ Acts(a) /\ Retains(a)
        \/ buf'[a].op # None /\ ToldNow(buf'[a].op, buf'[a].user_data)
  <2>1. \A a \in Buffers : Acts(a)' => Acts(a)
    BY DEF Acts, Goes
  <2>2. \A a \in Buffers : a # p => (Back(a)' => Back(a))
    BY DEF Back
  <2>3. Back(p)' => p \in Items(todo')
    BY DEF Back
  <2>4. p \in Items(todo') => buf'[p].op # None /\ ToldNow(buf'[p].op, buf'[p].user_data)
    BY DEF Told, ToldNow
  <2>5. \A a \in Buffers : a = p =>
          (Back(a)' => buf'[a].op # None /\ ToldNow(buf'[a].op, buf'[a].user_data))
    BY <2>3, <2>4
  <2>6. QED
    BY <2>1, <2>2, <2>5
<1>4. \A a \in Buffers : \A e \in Items(buf'[a].to_wake) : buf'[e].phase = 0
  BY OpsKnown DEF AnswerInv, Untouched, Goes
<1>5. \A d \in Conns :
        /\ \A b \in Items(wait'[d]) : Retains(b)
        /\ \A b \in Items(wait[d]) \ Items(wait'[d]) : Answered(buf[b].op)
  BY OpsKnown
<1>6. \A d \in Conns : reader'[d].pc = "answer" => reader'[d] = reader[d]
  OBVIOUS
<1>7. \A d \in Conns : reader'[d].pc = "body" =>
        \/ reader'[d] = reader[d] /\ Retains(reader[d].p)
        \/ buf'[reader'[d].p].op # None /\ ToldNow(buf'[reader'[d].p].op, "ok")
  BY OpsKnown DEF Told, ToldNow
<1>8. \A d \in Conns : reader'[d].pc = "todo" => buf'[reader'[d].b].phase = 0
  <2>1. \A d \in Conns : reader[d].pc = "todo" => reader[d].b \in Buffers /\ buf[reader[d].b].phase = 0
    BY DEF AnswerInv, Untouched, TypeOK, ReaderOK, Owning
  <2>2. QED
    BY <2>1 DEF Goes
<1>9. /\ \A d \in Conns : \A b \in Items(output[d]) : Intact(b)
      /\ \A w \in Workers : worker[w].pc = "send" => Intact(worker[w].r)
  BY <1>1, OpsKnown
<1>10. Undisturbed
  BY <1>1, <1>2, <1>3, <1>4, <1>5, <1>6, <1>7, <1>8, <1>9 DEF Undisturbed
<1>11. QED
  BY <1>10, UndisturbedInv

(* What is taken from wait_for_answer. *)
LEMMA TakenFromWait ==
  ASSUME TypeOK, Own, NEW c \in Conns, NEW op, Waiters(c, op) # {}, NoLongerWaits(c, op),
         NEW p, p = Waiter(c, op)
  PROVE  /\ ~Back(p)
         /\ \A d \in Conns : /\ Items(wait'[d]) \subseteq Items(wait[d]) \ {p}
                             /\ Items(wait[d]) \ Items(wait'[d]) \subseteq {p}
                             /\ reader[d].pc = "body" => reader[d].p # p
<1>1. p \in Buffers /\ Holds("wait", c, p)
  BY Unwaits
<1>2. /\ \A d \in Conns : p \in Items(wait[d]) => Holds("wait", d, p)
      /\ p \in Items(todo) => Holds("todo", None, p)
      /\ \A w \in Workers : worker[w].b = p /\ worker[w].pc = "got" => Holds("worker", w, p)
      /\ \A d \in Conns : reader[d].p = p => Holds("fetched", d, p)
  BY DEF Holds, InWait, InTodo, InWorker, InReader
<1>3. /\ \A d \in Conns : p \in Items(wait[d]) => d = c
      /\ ~Back(p)
      /\ \A d \in Conns : reader[d].p # p
  BY <1>1, <1>2 DEF Own, Apart, Back
<1>4. \A d \in Conns : \A b \in Items(wait'[d]) : b \in Items(wait[d]) /\ ~(b = p /\ d = c)
  BY Unwaits DEF InWait
<1>5. \A d \in Conns : Items(wait[d]) \ {p} \subseteq Items(wait'[d])
  BY LeavesWait
<1>6. QED
  BY <1>3, <1>4, <1>5

(* The buffer as Wake leaves it.                                           *)
LEMMA WokenWith ==
  ASSUME TypeOK, NEW p \in Buffers, NEW out, Wake(p, out)
  PROVE  /\ \A a \in Buffers :
              /\ buf'[a].op = buf[a].op /\ buf'[a].room = buf[a].room /\ buf'[a].msg = buf[a].msg
              /\ buf'[a].comm = buf[a].comm /\ Goes(a)
              /\ a # p => Retains(a)
         /\ buf'[p].user_data = out
         /\ Items(todo') = Items(todo) \cup {p}
<1> DEFINE x == [buf[p] EXCEPT !.user_data = out, !.waiting = [@ EXCEPT !.to = None]]
<1>1. buf[p] \in Contents
  BY DEF TypeOK, BufOK
<1>2. buf' = [buf EXCEPT ![p] = x]
  BY DEF Wake
<1>3. /\ x.op = buf[p].op /\ x.room = buf[p].room /\ x.msg = buf[p].msg /\ x.comm = buf[p].comm
      /\ x.phase = buf[p].phase /\ x.to_wake = buf[p].to_wake /\ x.user_data = out
  BY <1>1 DEF Contents
<1> HIDE DEF x
<1>4. \A b \in Buffers : buf'[b] = IF b = p THEN x ELSE buf[b]
  BY <1>2 DEF TypeOK, BufOK
<1>5. Items(todo') = Items(todo) \cup {p}
  BY ToTodoItems DEF Wake
<1>6. QED
  BY <1>3, <1>4, <1>5 DEF Goes, Retains

LEMMA UpdateAnsweredAnswers ==
  ASSUME TypeOK, TypeOK', Own, AnswerInv, NEW c \in Conns, UpdateAnswered(c)
  PROVE  AnswerInv'
<1>0. PICK op, p : op = reader[c].msg.op /\ p = Waiter(c, op)
  OBVIOUS
<1>1. /\ Waiters(c, op) # {} /\ NoLongerWaits(c, op) /\ Wake(p, reader[c].msg.outcome)
      /\ reader' = [reader EXCEPT ![c].pc = "free"] /\ reader[c].pc = "answer"
      /\ UNCHANGED <<told, ids, asked, output, writer, worker>>
  BY <1>0 DEF UpdateAnswered, AnswerRead, ReaderAt, kernel
<1>2. /\ p \in Buffers /\ buf[p].op = op /\ op \in Ops /\ op.comm = c /\ op.seq # 1
      /\ Told(op, reader[c].msg.outcome)
  BY <1>0, <1>1, WaiterAsked
<1>3. reader'[c].pc = "free" /\ \A d \in Conns \ {c} : reader'[d] = reader[d]
  BY <1>1 DEF TypeOK, ReaderOK, Readers
<1>4. Answered(op)
  BY <1>0, <1>1, <1>2, <1>3, NowAnswered
<1>5. /\ ~Back(p)
      /\ \A d \in Conns : /\ Items(wait'[d]) \subseteq Items(wait[d]) \ {p}
                          /\ Items(wait[d]) \ Items(wait'[d]) \subseteq {p}
                          /\ reader[d].pc = "body" => reader[d].p # p
  BY <1>0, <1>1, TakenFromWait
<1>6. None \notin Ops
  BY OpsKnown
<1>7. /\ \A a \in Buffers :
           /\ buf'[a].op = buf[a].op /\ buf'[a].room = buf[a].room /\ buf'[a].msg = buf[a].msg
           /\ buf'[a].comm = buf[a].comm /\ Goes(a)
           /\ a # p => Retains(a)
      /\ buf'[p].user_data = reader[c].msg.outcome
      /\ Items(todo') = Items(todo) \cup {p}
  BY <1>1, <1>2, WokenWith
<1>8. QED
  BY <1>1, <1>2, <1>3, <1>4, <1>5, <1>6, <1>7, WokenAnswers

(* The preset outcome is the right one.                                    *)
LEMMA FetchFailedAnswers ==
  ASSUME TypeOK, TypeOK', Own, AnswerInv, NEW c \in Conns, FetchFailed(c)
  PROVE  AnswerInv'
<1>0. PICK op, p : op = reader[c].msg.op /\ p = Waiter(c, op)
  OBVIOUS
<1>1. /\ reader' = [reader EXCEPT ![c].pc = "free"] /\ reader[c].pc = "answer"
      /\ reader[c].msg.outcome = "error"
      /\ UNCHANGED <<buf, told, ids, asked, output, writer, worker>>
      /\ IF Waiters(c, op) # {}
         THEN NoLongerWaits(c, op) /\ todo' = comm_buf_to_queue(todo, p)
         ELSE UNCHANGED <<wait, todo>>
  BY <1>0 DEF FetchFailed, AnswerRead, ReaderAt, kernel
<1>2. reader'[c].pc = "free" /\ \A d \in Conns \ {c} : reader'[d] = reader[d]
  BY <1>1 DEF TypeOK, ReaderOK, Readers
<1>3. CASE Waiters(c, op) # {}
  <2>1. /\ p \in Buffers /\ buf[p].op = op /\ op \in Ops /\ op.comm = c /\ op.seq # 1
        /\ Told(op, "error") /\ buf[p].user_data = "error"
    BY <1>0, <1>1, <1>3, WaiterAsked
  <2>2. Answered(op)
    BY <1>0, <1>1, <1>2, <2>1, NowAnswered
  <2>3. /\ ~Back(p)
        /\ \A d \in Conns : /\ Items(wait'[d]) \subseteq Items(wait[d]) \ {p}
                            /\ Items(wait[d]) \ Items(wait'[d]) \subseteq {p}
                            /\ reader[d].pc = "body" => reader[d].p # p
    BY <1>0, <1>1, <1>3, TakenFromWait
  <2>4. None \notin Ops
    BY OpsKnown
  <2>5. Items(todo') = Items(todo) \cup {p}
    BY <1>1, <1>3, <2>1, ToTodoItems
  <2>6. \A a \in Buffers : Goes(a) /\ Retains(a)
    BY <1>1 DEF Goes, Retains
  <2>7. QED
    BY <1>1, <1>2, <2>1, <2>2, <2>3, <2>4, <2>5, <2>6, WokenAnswers
<1>4. CASE Waiters(c, op) = {}
  <2>1. \A b \in Buffers : Back(b)' /\ Acts(b)' => Back(b) /\ Acts(b)
    BY <1>1, <1>4 DEF Back, Acts
  <2>2. Steady
    BY <1>1, <1>2, <1>4, <2>1, StillSteady
  <2>3. QED
    BY <2>2, SteadyInv
<1>5. QED
  BY <1>3, <1>4

(* The object follows: its buffer is with the reader meanwhile.            *)
LEMMA FetchAnsweredAnswers ==
  ASSUME TypeOK, TypeOK', Own, AnswerInv, NEW c \in Conns, FetchAnswered(c)
  PROVE  AnswerInv'
<1>0. PICK op, p : op = reader[c].msg.op /\ p = Waiter(c, op)
  OBVIOUS
<1>1. /\ Waiters(c, op) # {} /\ NoLongerWaits(c, op)
      /\ reader' = [reader EXCEPT ![c].pc = "body", ![c].p = p] /\ reader[c].pc = "answer"
      /\ reader[c].msg.outcome = "ok"
      /\ UNCHANGED <<buf, todo, told, ids, asked, output, writer, worker>>
  BY <1>0 DEF FetchAnswered, AnswerRead, ReaderAt, kernel
<1>2. /\ p \in Buffers /\ buf[p].op = op /\ op \in Ops /\ op.comm = c /\ op.seq # 1
      /\ Told(op, "ok")
  BY <1>0, <1>1, WaiterAsked
<1>3. /\ reader'[c].pc = "body" /\ reader'[c].p = p
      /\ \A d \in Conns \ {c} : reader'[d] = reader[d]
  BY <1>1 DEF TypeOK, ReaderOK, Readers
<1>4. Answered(op)
  BY <1>0, <1>1, <1>2, <1>3, NowAnswered
<1>5. /\ ~Back(p)
      /\ \A d \in Conns : /\ Items(wait'[d]) \subseteq Items(wait[d]) \ {p}
                          /\ Items(wait[d]) \ Items(wait'[d]) \subseteq {p}
                          /\ reader[d].pc = "body" => reader[d].p # p
  BY <1>0, <1>1, TakenFromWait
<1>6. None \notin Ops /\ p \notin Items(todo')
  BY <1>1, <1>5, OpsKnown DEF Back
<1>7. \A a \in Buffers : Goes(a) /\ Retains(a)
  BY <1>1 DEF Goes, Retains
<1>8. QED
  BY <1>1, <1>2, <1>3, <1>4, <1>5, <1>6, <1>7, WokenAnswers, ZenonT(60)

LEMMA FetchDoneAnswers ==
  ASSUME TypeOK, TypeOK', Own, AnswerInv, NEW c \in Conns, FetchDone(c)
  PROVE  AnswerInv'
<1>0. PICK p : p = reader[c].p
  OBVIOUS
<1>1. /\ Wake(p, "ok") /\ reader[c].pc = "body"
      /\ reader' = [reader EXCEPT ![c].pc = "free", ![c].p = None]
      /\ UNCHANGED <<wait, told, ids, asked, output, writer, worker>>
  BY <1>0 DEF FetchDone, ReaderAt, kernel
<1>2. p \in Buffers /\ Holds("fetched", c, p) /\ buf[p].op # None /\ Told(buf[p].op, "ok")
  BY <1>0, <1>1, ThreadsHave DEF AnswerInv, Fetched
<1>3. /\ \A d \in Conns : p \in Items(wait[d]) => Holds("wait", d, p)
      /\ p \in Items(todo) => Holds("todo", None, p)
      /\ \A w \in Workers : worker[w].b = p /\ worker[w].pc = "got" => Holds("worker", w, p)
      /\ \A d \in Conns : reader[d].p = p => Holds("fetched", d, p)
  BY DEF Holds, InWait, InTodo, InWorker, InReader
<1>4. /\ \A d \in Conns : p \notin Items(wait[d])
      /\ ~Back(p)
      /\ \A d \in Conns \ {c} : reader[d].p # p
  BY <1>2, <1>3 DEF Own, Apart, Back
<1>5. reader'[c].pc = "free" /\ \A d \in Conns \ {c} : reader'[d] = reader[d]
  BY <1>1 DEF TypeOK, ReaderOK, Readers
<1>6. /\ \A a \in Buffers :
           /\ buf'[a].op = buf[a].op /\ buf'[a].room = buf[a].room /\ buf'[a].msg = buf[a].msg
           /\ buf'[a].comm = buf[a].comm /\ Goes(a)
           /\ a # p => Retains(a)
      /\ buf'[p].user_data = "ok"
      /\ Items(todo') = Items(todo) \cup {p}
  BY <1>1, <1>2, WokenWith
<1>7. QED
  BY <1>1, <1>2, <1>4, <1>5, <1>6, WokenAnswers

(* The answer is on the way: asked no more, told, and awaited.             *)
LEMMA ReadsAnswerAnswers ==
  ASSUME TypeOK, TypeOK', Own, AnswerInv, NEW c \in Conns, ReadsAnswer(c)
  PROVE  AnswerInv'
<1>1. PICK o \in asked, out \in {"ok", "error"} :
        /\ o.comm = c /\ asked' = asked \ {o}
        /\ told' = [x \in DOMAIN told \cup {o} |-> IF x = o THEN out ELSE told[x]]
        /\ Reads(c, "answer", [op |-> o, outcome |-> out])
  BY DEF ReadsAnswer
<1>2. PICK m : m = [op |-> o, outcome |-> out]
  OBVIOUS
<1>3. m.op = o /\ m.outcome = out
  BY <1>2
<1>4. /\ reader' = [reader EXCEPT ![c].pc = "answer", ![c].msg = m]
      /\ UNCHANGED <<buf, todo, wait, ids, output, worker, writer>>
  BY <1>1, <1>2 DEF Reads, shared
<1>5. /\ reader'[c].pc = "answer" /\ reader'[c].msg = m
      /\ \A d \in Conns \ {c} : reader'[d] = reader[d]
  BY <1>4 DEF TypeOK, ReaderOK, Readers
<1>6. /\ Numbered /\ Distinct /\ Waiting /\ Awaited /\ Fetched /\ Resumed /\ Untouched /\ Mailed
      /\ o \in Ops /\ Issued(o)
  BY DEF AnswerInv, Numbered
<1>7. None \notin Ops
  BY OpsKnown
<1>8. PICK b \in Items(wait[c]) : buf[b].op = o
  BY <1>1, <1>6 DEF Awaited, Awaits
<1>9. b \in Buffers
  BY OpsKnown
<1>10. /\ Told(o, out)'
       /\ \A x, y : x # o /\ Told(x, y) => Told(x, y)'
  BY <1>1 DEF Told
<1>11. Numbered'
  BY <1>1, <1>4, <1>6 DEF Numbered, Issued
<1>12. \A r, x : Carries(r, x)' = Carries(r, x)
  BY <1>4 DEF Carries
<1>13. \A x : Awaits(x)' = Awaits(x)
  BY <1>4 DEF Awaits
<1>14. Distinct'
  <2>1. \A e, a \in Buffers : buf'[e].op # None /\ buf'[e].op = buf'[a].op => e = a
    BY <1>4, <1>6 DEF Distinct
  <2>2. \A e, a \in Buffers, x \in Ops : Carries(e, x)' /\ Carries(a, x)' => e = a
    BY <1>6, <1>12 DEF Distinct
  <2>3. \A a \in Buffers, x \in asked' : ~Carries(a, x)'
    BY <1>1, <1>6, <1>12 DEF Distinct
  <2>4. ASSUME NEW d \in Conns, reader'[d].pc = "answer", NEW x, x = reader'[d].msg.op
        PROVE  x \notin asked' /\ (x \in Ops => \A a \in Buffers : ~Carries(a, x)')
    <3>1. CASE d = c
      <4>1. x = o
        BY <1>3, <1>5, <2>4, <3>1
      <4>2. QED
        BY <1>1, <1>6, <1>12, <4>1 DEF Distinct
    <3>2. CASE d # c
      BY <1>1, <1>5, <1>6, <1>12, <2>4, <3>2 DEF Distinct
    <3>3. QED
      BY <3>1, <3>2
  <2>5. QED
    BY <2>1, <2>2, <2>3, <2>4 DEF Distinct
<1>15. Waiting'
  BY <1>4, <1>6 DEF Waiting
<1>16. Awaited'
  <2>1. \A x \in asked' : Awaits(x)'
    BY <1>1, <1>6, <1>13 DEF Awaited
  <2>2. \A r \in Buffers, x \in Ops : Carries(r, x)' => Awaits(x)'
    BY <1>6, <1>12, <1>13 DEF Awaited
  <2>3. ASSUME NEW d \in Conns, reader'[d].pc = "answer", NEW n, n = reader'[d].msg, n.op.seq # 1
        PROVE  n.op \in Ops /\ n.op.comm = d /\ Awaits(n.op)' /\ Told(n.op, n.outcome)'
    <3>1. CASE d = c
      <4>1. n = m
        BY <1>5, <2>3, <3>1
      <4>2. Awaits(o)
        BY <1>6 DEF Awaited
      <4>3. QED
        BY <1>1, <1>3, <1>6, <1>10, <1>13, <3>1, <4>1, <4>2
    <3>2. CASE d # c
      <4>1. n = reader[d].msg /\ reader[d].pc = "answer"
        BY <1>5, <2>3, <3>2
      <4>2. n.op # o
        BY <1>6, <4>1 DEF Distinct
      <4>3. n.op \in Ops /\ n.op.comm = d /\ Awaits(n.op) /\ Told(n.op, n.outcome)
        BY <1>6, <2>3, <4>1 DEF Awaited
      <4>4. QED
        BY <1>10, <1>13, <4>2, <4>3
    <3>3. QED
      BY <3>1, <3>2
  <2>4. QED
    BY <2>1, <2>2, <2>3 DEF Awaited
<1>17. /\ Holds("wait", c, b)
       /\ b \in Items(todo) => Holds("todo", None, b)
       /\ \A w \in Workers : worker[w].b = b /\ worker[w].pc = "got" => Holds("worker", w, b)
       /\ \A d \in Conns : reader[d].p = b => Holds("fetched", d, b)
  BY DEF Holds, InWait, InTodo, InWorker, InReader
<1>18. ~Back(b) /\ \A d \in Conns : reader[d].p # b
  BY <1>9, <1>17 DEF Own, Apart, Back
<1>19. \A a \in Buffers : a # b => buf[a].op # o
  BY <1>6, <1>7, <1>8, <1>9 DEF Distinct
<1>20. Fetched'
  <2>1. ASSUME NEW d \in Conns, reader'[d].pc = "body", NEW p, p = reader'[d].p
        PROVE  buf'[p].op # None /\ Told(buf[p].op, "ok")'
    <3>1. reader[d].pc = "body" /\ p = reader[d].p
      BY <1>5, <2>1
    <3>2. p \in Buffers /\ p # b
      BY <1>18, <3>1, OpsKnown
    <3>3. buf[p].op # None /\ Told(buf[p].op, "ok") /\ buf[p].op # o
      BY <1>6, <1>19, <3>1, <3>2 DEF Fetched
    <3>4. QED
      BY <1>4, <1>10, <3>3
  <2>2. \A d \in Conns : reader'[d].pc = "body" =>
          buf'[reader'[d].p].op # None /\ ToldNow(buf'[reader'[d].p].op, "ok")
    BY <1>4, <2>1 DEF Told, ToldNow
  <2>3. QED
    BY <2>2 DEF Fetched, Told, ToldNow
<1>21. Resumed'
  <2>1. \A a : Back(a)' = Back(a) /\ Acts(a)' = Acts(a)
    BY <1>4 DEF Back, Acts
  <2>2. \A a \in Buffers : Back(a) /\ Acts(a) =>
          buf[a].op # None /\ Told(buf[a].op, buf[a].user_data) /\ buf[a].op # o
    BY <1>6, <1>18, <1>19 DEF Resumed
  <2>3. \A a \in Buffers : Back(a) /\ Acts(a) =>
          buf'[a].op # None /\ Told(buf[a].op, buf[a].user_data)'
    BY <1>4, <1>10, <2>2
  <2>4. QED
    BY <1>4, <2>1, <2>3 DEF Resumed, Told
<1>22. Untouched'
  BY <1>4, <1>5, <1>6 DEF Untouched
<1>23. Mailed'
  BY <1>4, <1>6 DEF Mailed
<1>24. QED
  BY <1>11, <1>14, <1>15, <1>16, <1>20, <1>21, <1>22, <1>23 DEF AnswerInv

-----------------------------------------------------------------------------
(* A handler asks the kernel: buffer b waits, buffer r has the operation.  *)
Asked(w, b, r, op) ==
  /\ b # r /\ ~Issued(op) /\ 2 <= op.seq /\ op \in Ops /\ op.comm = buf[b].comm
  /\ VarData => buf[b].room
  /\ ids'[op.kind] = op.seq + 1 /\ \A k \in Kinds \ {op.kind} : ids'[k] = ids[k]
  /\ \A a \in Buffers \ {b, r} : buf'[a] = buf[a]
  /\ buf'[b].op = op /\ buf'[b].user_data = "error"
  /\ buf'[b].waiting = [to |-> op.kind, seq |-> op.seq]
  /\ buf'[b].phase = buf[b].phase /\ buf'[b].to_wake = buf[b].to_wake
  /\ buf'[b].msg = buf[b].msg /\ buf'[b].room = buf[b].room /\ buf'[b].comm = buf[b].comm
  /\ buf'[r].op = None /\ buf'[r].msg = op /\ buf'[r].comm = op.comm /\ buf'[r].room
  /\ buf'[r].phase = 0 /\ buf'[r].to_wake = <<>>
  /\ Items(wait'[op.comm]) = Items(wait[op.comm]) \cup {b}
  /\ \A d \in Conns \ {op.comm} : wait'[d] = wait[d]
  /\ worker[w].pc = "got" /\ worker[w].b = b
  /\ worker'[w].pc = "send" /\ worker'[w].b = b /\ worker'[w].r = r
  /\ \A v \in Workers \ {w} : worker'[v] = worker[v]
  /\ UNCHANGED <<todo, reader, writer, output, told, asked>>

LEMMA AsksAsked ==
  ASSUME TypeOK, Own, AnswerInv, NEW w \in Workers, NEW b \in Buffers, NEW k \in Kinds,
         NEW phase, Serves(w, b), Asks(w, b, buf[b].comm, k, phase)
  PROVE  Available(mem) /\ \E op : Asked(w, b, Fresh(mem), op)
<1>0. PICK r, op : r = Fresh(mem) /\ op = [comm |-> buf[b].comm, kind |-> k, seq |-> ids[k]]
  OBVIOUS
<1> DEFINE p == [buf[b] EXCEPT !.lock = w, !.user_data = "error", !.op = op,
                               !.ops = @ + 1, !.waiting = [to |-> k, seq |-> op.seq]]
           q == Outgoing(op.comm, op)
           at == [pc |-> "send", b |-> b, r |-> r, phase |-> phase]
<1>1. /\ worker[w].pc = "got" /\ worker[w].b = b /\ buf[b].comm \in Conns /\ Busy(b)
      /\ VarData => buf[b].room
  BY ServesBuffer
<1>2. /\ Available(mem) /\ buf' = [buf EXCEPT ![b] = p, ![r] = q]
      /\ ids' = [ids EXCEPT ![k] = @ + 1]
      /\ worker' = [worker EXCEPT ![w] = at]
      /\ wait' = [wait EXCEPT ![buf[b].comm] = comm_buf_to_queue(@, b)]
      /\ UNCHANGED <<todo, reader, writer, output, told, asked>>
  BY <1>0 DEF Asks, kernel
<1>3. op \in Ops /\ op.comm = buf[b].comm /\ op.kind = k /\ op.seq = ids[k]
  BY <1>0, <1>1 DEF Ops, TypeOK, IdsOK
<1>4. ~Issued(op) /\ 2 <= op.seq
  BY <1>3 DEF Issued, AnswerInv, Numbered, TypeOK, IdsOK, Ops
<1>5. r \in Buffers /\ ~Busy(r)
  BY <1>0, <1>2, FreshFits
<1>6. b # r
  BY <1>1, <1>5
<1>7. /\ p.op = op /\ p.user_data = "error" /\ p.waiting = [to |-> op.kind, seq |-> op.seq]
      /\ p.phase = buf[b].phase /\ p.to_wake = buf[b].to_wake
      /\ p.msg = buf[b].msg /\ p.room = buf[b].room /\ p.comm = buf[b].comm
  BY <1>3 DEF TypeOK, BufOK, Contents
<1>8. /\ q.op = None /\ q.msg = op /\ q.comm = op.comm /\ q.room
      /\ q.phase = 0 /\ q.to_wake = <<>>
  BY DEF Outgoing, For, Blank
<1>9. at.pc = "send" /\ at.b = b /\ at.r = r
  OBVIOUS
<1> HIDE DEF p, q, at
<1>10. \A a \in Buffers : buf'[a] = IF a = r THEN q ELSE IF a = b THEN p ELSE buf[a]
  BY <1>2, <1>5 DEF TypeOK, BufOK
<1>11. buf'[b] = p /\ buf'[r] = q /\ \A a \in Buffers \ {b, r} : buf'[a] = buf[a]
  BY <1>5, <1>6, <1>10
<1>12. worker'[w] = at /\ \A v \in Workers \ {w} : worker'[v] = worker[v]
  BY <1>2 DEF TypeOK, WorkerOK
<1>13. /\ Items(wait'[op.comm]) = Items(wait[op.comm]) \cup {b}
       /\ \A d \in Conns \ {op.comm} : wait'[d] = wait[d]
  BY <1>1, <1>2, <1>3, AppendItems DEF TypeOK, WaitOK, Queues, comm_buf_to_queue
<1>14. ids'[op.kind] = op.seq + 1 /\ \A n \in Kinds \ {op.kind} : ids'[n] = ids[n]
  BY <1>2, <1>3 DEF TypeOK, IdsOK
<1>15. Asked(w, b, r, op)
  BY <1>1, <1>2, <1>3, <1>4, <1>6, <1>7, <1>8, <1>9, <1>11, <1>12, <1>13, <1>14 DEF Asked
<1>16. QED
  BY <1>0, <1>2, <1>15

LEMMA AskedAnswers ==
  ASSUME TypeOK, TypeOK', Own, OrderInv, AnswerInv, NEW w \in Workers, NEW b \in Buffers,
         Serves(w, b), Available(mem), NEW op, Asked(w, b, Fresh(mem), op)
  PROVE  AnswerInv'
<1>0. PICK r : r = Fresh(mem)
  OBVIOUS
<1>1. /\ Numbered /\ Distinct /\ Waiting /\ Awaited /\ Fetched /\ Resumed /\ Untouched /\ Mailed
  BY DEF AnswerInv
<1>2. /\ r \in Buffers /\ ~Busy(r)
      /\ \A c \in Conns : reader[c].pc \in Owning => reader[c].b # r
      /\ \A a \in Buffers : r \notin Items(buf[a].to_wake)
      /\ \A c \in Conns : r \notin Items(output[c]) /\ r \notin Items(wait[c])
  BY <1>0, FreshFits, TakesFresh
<1>3. /\ ~Back(r) /\ \A c \in Conns : reader[c].p # r
      /\ \A v \in Workers : worker[v].pc \in {"send", "park"} => worker[v].b # r
  BY <1>2, NotWanted
<1>4. /\ worker[w].pc = "got" /\ worker[w].b = b /\ buf[b].lock = None
      /\ Holds("worker", w, b)
  BY ServesBuffer
<1>5. /\ \A d \in Conns : b \in Items(wait[d]) => Holds("wait", d, b)
      /\ b \in Items(todo) => Holds("todo", None, b)
      /\ \A d \in Conns : reader[d].p = b => Holds("fetched", d, b)
  BY DEF Holds, InWait, InTodo, InReader
<1>6. /\ \A d \in Conns : b \notin Items(wait[d]) /\ reader[d].p # b
      /\ b \notin Items(todo)
  BY <1>4, <1>5 DEF Own, Apart
<1>7. \A v \in Workers \ {w} : worker[v].pc \in {"got", "send", "park"} => worker[v].b # b
  BY <1>4, ServedAlone
<1>8. /\ b # r /\ ~Issued(op) /\ 2 <= op.seq /\ op \in Ops /\ op.comm = buf[b].comm
      /\ VarData => buf[b].room
      /\ ids'[op.kind] = op.seq + 1 /\ \A k \in Kinds \ {op.kind} : ids'[k] = ids[k]
      /\ \A a \in Buffers \ {b, r} : buf'[a] = buf[a]
      /\ Items(wait'[op.comm]) = Items(wait[op.comm]) \cup {b}
      /\ \A d \in Conns \ {op.comm} : wait'[d] = wait[d]
      /\ worker'[w].pc = "send" /\ worker'[w].b = b /\ worker'[w].r = r
      /\ \A v \in Workers \ {w} : worker'[v] = worker[v]
      /\ UNCHANGED <<todo, reader, writer, output, told, asked>>
  BY <1>0 DEF Asked
<1>9. /\ buf'[b].op = op /\ buf'[b].user_data = "error"
      /\ buf'[b].waiting = [to |-> op.kind, seq |-> op.seq]
      /\ buf'[b].phase = buf[b].phase /\ buf'[b].to_wake = buf[b].to_wake
      /\ buf'[b].msg = buf[b].msg /\ buf'[b].room = buf[b].room /\ buf'[b].comm = buf[b].comm
      /\ buf'[r].op = None /\ buf'[r].msg = op /\ buf'[r].comm = op.comm /\ buf'[r].room
      /\ buf'[r].phase = 0 /\ buf'[r].to_wake = <<>>
  BY <1>0 DEF Asked
<1>10. /\ None \notin Ops
       /\ \A a \in Buffers : buf[a].op \in Ops \cup {None}
       /\ \A c \in Conns : Items(wait[c]) \subseteq Buffers /\ Items(output[c]) \subseteq Buffers
       /\ \A a \in Buffers : Items(buf[a].to_wake) \subseteq Buffers
       /\ \A c \in Conns : reader[c].pc = "body" => reader[c].p \in Buffers
       /\ \A v \in Workers : worker[v].pc = "send" => worker[v].r \in Buffers
  BY OpsKnown
<1>11. \A k \in Kinds : ids[k] \in Nat
  BY DEF TypeOK, IdsOK
<1>12. op.kind \in Kinds /\ op.seq \in Nat /\ op.comm \in Conns
  BY <1>8 DEF Ops
<1>13. ids[op.kind] <= op.seq
  BY <1>8, <1>11, <1>12 DEF Issued
<1>14. \A k \in Kinds : ids[k] <= ids'[k] /\ ids'[k] \in Nat
  BY <1>8, <1>11, <1>12, <1>13
<1>15. /\ \A x \in Ops : Issued(x) => Issued(x)' /\ x # op
       /\ Issued(op)'
  <2>1. \A x \in Ops : x.kind \in Kinds /\ x.seq \in Nat
    BY DEF Ops
  <2>2. QED
    BY <1>8, <1>11, <1>12, <1>14, <2>1 DEF Issued
<1>16. Numbered'
  <2>1. \A k \in Kinds : 2 <= ids'[k]
    BY <1>1, <1>11, <1>14 DEF Numbered
  <2>2. /\ \A a \in Buffers, x \in Ops : x = buf'[a].op \/ x = buf'[a].msg => Issued(x)'
        /\ \A a \in Buffers : buf'[a].op \in Ops \cup {None}
    BY <1>1, <1>8, <1>9, <1>10, <1>15 DEF Numbered
  <2>3. \A x \in asked' : x \in Ops /\ Issued(x)'
    BY <1>1, <1>8, <1>15 DEF Numbered
  <2>4. QED
    BY <2>1, <2>2, <2>3 DEF Numbered, Issued
<1>17. \A a \in Buffers, x \in Ops : Carries(a, x)' => (a = r /\ x = op) \/ (Carries(a, x) /\ Issued(x))
  <2>1. \A a \in Buffers \ {r} : buf'[a].msg = buf[a].msg
    BY <1>8, <1>9
  <2>2. \A a \in Buffers, x \in Ops : buf[a].msg = x => Issued(x)
    BY <1>1 DEF Numbered
  <2>3. QED
    BY <1>8, <1>9, <2>1, <2>2 DEF Carries
<1>18. \A x \in Ops : Awaits(x) => Issued(x) /\ Awaits(x)'
  <2>1. ASSUME NEW x \in Ops, Awaits(x) PROVE Issued(x) /\ Awaits(x)'
    <3>1. PICK a \in Items(wait[x.comm]) : buf[a].op = x
      BY <2>1 DEF Awaits
    <3>2. x.comm \in Conns
      BY DEF Ops
    <3>3. a \in Buffers /\ a # b /\ a # r
      BY <1>2, <1>6, <1>10, <3>1, <3>2
    <3>4. buf'[a].op = x /\ a \in Items(wait'[x.comm])
      BY <1>8, <3>1, <3>2, <3>3
    <3>5. QED
      BY <1>1, <1>10, <3>1, <3>3, <3>4 DEF Awaits, Numbered
  <2>2. QED
    BY <2>1
<1>19. \A c \in Conns : reader[c].pc = "answer" => reader[c].msg.op # op
  <2>1. \A c \in Conns : reader[c].pc = "answer" =>
          \/ reader[c].msg.op.seq = 1
          \/ reader[c].msg.op \in Ops /\ Awaits(reader[c].msg.op)
    BY <1>1 DEF Awaited
  <2>2. QED
    BY <1>8, <1>12, <1>18, <2>1
<1>20. Distinct'
  <2>1. \A x, a \in Buffers : buf'[x].op # None /\ buf'[x].op = buf'[a].op => x = a
    <3>1. \A a \in Buffers : buf[a].op # op
      BY <1>1, <1>8, <1>10 DEF Numbered
    <3>2. \A a \in Buffers : buf'[a].op = IF a = b THEN op ELSE IF a = r THEN None ELSE buf[a].op
      BY <1>8, <1>9
    <3>3. QED
      BY <1>1, <3>1, <3>2 DEF Distinct
  <2>2. \A e, a \in Buffers, x \in Ops : Carries(e, x)' /\ Carries(a, x)' => e = a
    BY <1>1, <1>8, <1>17 DEF Distinct
  <2>3. \A a \in Buffers, x \in asked' : ~Carries(a, x)'
    <3>1. \A x \in asked : x \in Ops /\ x # op
      BY <1>1, <1>8 DEF Numbered
    <3>2. QED
      BY <1>1, <1>8, <1>17, <3>1 DEF Distinct
  <2>4. \A c \in Conns : reader'[c].pc = "answer" =>
          /\ reader'[c].msg.op \notin asked'
          /\ reader'[c].msg.op \in Ops => \A a \in Buffers : ~Carries(a, reader[c].msg.op)'
    BY <1>1, <1>8, <1>17, <1>19 DEF Distinct
  <2>5. QED
    BY <1>8, <2>1, <2>2, <2>3, <2>4 DEF Distinct, Carries
<1>21. Waiting'
  <2>1. ASSUME NEW c \in Conns, NEW a \in Items(wait'[c])
        PROVE  /\ buf'[a].op \in Ops /\ buf'[a].op.comm = c
               /\ buf'[a].waiting = [to |-> buf'[a].op.kind, seq |-> buf'[a].op.seq]
               /\ buf'[a].user_data = "error"
    <3>1. CASE a = b
      <4>1. c = op.comm
        BY <1>6, <1>8, <2>1, <3>1
      <4>2. QED
        BY <1>8, <1>9, <3>1, <4>1
    <3>2. CASE a # b
      <4>1. a \in Items(wait[c])
        BY <1>8, <2>1, <3>2
      <4>2. buf'[a] = buf[a]
        BY <1>2, <1>8, <1>10, <3>2, <4>1
      <4>3. QED
        BY <1>1, <4>1, <4>2 DEF Waiting
    <3>3. QED
      BY <3>1, <3>2
  <2>2. QED
    BY <2>1 DEF Waiting
<1>22. Awaited'
  <2>1. \A x \in asked' : Awaits(x)'
    BY <1>1, <1>8, <1>18 DEF Awaited, Numbered
  <2>2. Awaits(op)'
    BY <1>8, <1>9 DEF Awaits
  <2>3. \A a \in Buffers, x \in Ops : Carries(a, x)' => Awaits(x)'
    BY <1>1, <1>17, <1>18, <2>2 DEF Awaited
  <2>4. \A c \in Conns : reader'[c].pc = "answer" /\ reader'[c].msg.op.seq # 1 =>
          /\ reader'[c].msg.op \in Ops /\ reader'[c].msg.op.comm = c
          /\ Awaits(reader[c].msg.op)' /\ Told(reader[c].msg.op, reader[c].msg.outcome)'
    BY <1>1, <1>8, <1>18 DEF Awaited, Told
  <2>5. QED
    BY <1>8, <2>1, <2>3, <2>4 DEF Awaited, Awaits, Told
<1>23. Fetched'
  <2>1. \A c \in Conns : reader[c].pc = "body" => buf'[reader[c].p] = buf[reader[c].p]
    BY <1>3, <1>6, <1>8, <1>10
  <2>2. QED
    BY <1>1, <1>8, <2>1 DEF Fetched, Told
<1>24. Resumed'
  <2>1. \A a \in Buffers : Back(a)' => a # b /\ a # r /\ Back(a)
    <3>1. \A a : Back(a)' => a # b /\ Back(a)
      BY <1>6, <1>7, <1>8 DEF Back
    <3>2. QED
      BY <1>3, <3>1
  <2>2. \A a \in Buffers : Acts(a)' => a = b \/ a = r \/ Acts(a)
    BY <1>8 DEF Acts
  <2>3. QED
    BY <1>1, <1>8, <2>1, <2>2 DEF Resumed, Told
<1>25. Untouched'
  <2>1. \A a \in Buffers : buf'[a].phase = buf[a].phase \/ buf'[a].phase = 0
    BY <1>8, <1>9
  <2>2. \A a \in Buffers : buf'[a].to_wake = buf[a].to_wake \/ Items(buf'[a].to_wake) = {}
    BY <1>8, <1>9, EmptyItems
  <2>3. \A c \in Conns : reader[c].pc = "todo" => reader[c].b \in Buffers
    BY DEF TypeOK, ReaderOK, Owning
  <2>4. \A a \in Buffers : VarData /\ ~buf'[a].room => a # b /\ a # r
    BY <1>8, <1>9
  <2>5. \A a \in Buffers : VarData /\ ~buf'[a].room => buf'[a].op = None /\ buf'[a].msg = None
    BY <1>1, <1>8, <2>4 DEF Untouched
  <2>6. \A a \in Buffers : \A e \in Items(buf'[a].to_wake) : buf'[e].phase = 0
    BY <1>1, <1>10, <2>1, <2>2 DEF Untouched
  <2>7. \A c \in Conns : reader'[c].pc = "todo" => buf'[reader'[c].b].phase = 0
    BY <1>1, <1>8, <2>1, <2>3 DEF Untouched
  <2>8. QED
    BY <2>5, <2>6, <2>7 DEF Untouched
<1>26. Mailed'
  <2>1. \A a \in Buffers \ {r} : buf'[a].msg = buf[a].msg /\ buf'[a].comm = buf[a].comm
    BY <1>8, <1>9
  <2>2. \A c \in Conns : \A a \in Items(output'[c]) : buf'[a].msg # None /\ buf'[a].comm = c
    BY <1>1, <1>2, <1>8, <1>10, <2>1 DEF Mailed
  <2>3. \A v \in Workers : worker'[v].pc = "send" => buf'[worker'[v].r].msg # None
    BY <1>1, <1>8, <1>9, <1>10, <2>1 DEF Mailed
  <2>4. \A a \in Buffers : buf'[a].msg \in Ops => buf'[a].msg.comm = buf'[a].comm
    BY <1>1, <1>9, <2>1 DEF Mailed
  <2>5. QED
    BY <2>2, <2>3, <2>4 DEF Mailed
<1>27. QED
  BY <1>16, <1>20, <1>21, <1>22, <1>23, <1>24, <1>25, <1>26 DEF AnswerInv

LEMMA WorkerAsksAnswers ==
  ASSUME OwnObjects, TypeOK, TypeOK', Own, OrderInv, AnswerInv, NEW w \in Workers,
         EventAsks(w) \/ AnswerUpdates(w)
  PROVE  AnswerInv'
<1>1. CASE EventAsks(w)
  <2>1. PICK b \in Buffers, k \in Kinds, e \in Conns :
          Serves(w, b) /\ e \in ObjectsOf[buf[b].comm] /\ Asks(w, b, e, k, 1)
    BY <1>1, Zenon DEF EventAsks
  <2>2. e = buf[b].comm
    BY <2>1, ServesBuffer DEF OwnObjects
  <2>3. QED
    BY <2>1, <2>2, AsksAsked, AskedAnswers
<1>2. CASE AnswerUpdates(w)
  <2>1. PICK b \in Buffers : Serves(w, b) /\ Asks(w, b, buf[b].comm, "update", 1003)
    BY <1>2, Zenon DEF AnswerUpdates
  <2>2. "update" \in Kinds
    BY DEF Kinds
  <2>3. QED
    BY <2>1, <2>2, AsksAsked, AskedAnswers
<1>3. QED
  BY <1>1, <1>2

(* The kernel has what was queued for it.                                  *)
LEMMA WriterWritesAnswers ==
  ASSUME TypeOK, TypeOK', Own, WritersIdle, AnswerInv, NEW c \in Conns, WriterWrites(c)
  PROVE  AnswerInv'
<1>0. PICK r, m : r = First(c) /\ m = buf[r].msg
  OBVIOUS
<1>1. /\ writer[c].pc = "take" /\ output[c] # <<>> /\ Delivers(c, m)
      /\ output' = [output EXCEPT ![c] = comm_buf_from_queue(@)]
      /\ writer' = [writer EXCEPT ![c] = [pc |-> "free", b |-> r]]
      /\ UNCHANGED <<buf, todo, wait, ids, reader, worker>>
  BY <1>0 DEF WriterWrites, WriterAt
<1>2. r \in Items(output[c]) /\ Items(output'[c]) \subseteq Items(output[c])
  BY <1>0, <1>1, TailItems DEF TypeOK, OutputOK, Queues, Own, Lists, comm_buf_from_queue, First
<1>3. \A d \in Conns \ {c} : output'[d] = output[d]
  BY <1>1 DEF TypeOK, OutputOK, Queues
<1>4. writer'[c].b = r /\ \A d \in Conns \ {c} : writer'[d] = writer[d]
  BY <1>1 DEF TypeOK, WriterOK
<1>5. r \in Buffers /\ Holds("output", c, r)
  BY <1>2, OpsKnown DEF Holds, InOutput
<1>6. \A d \in Conns : writer[d].b # r
  BY <1>5, HeldOnce
<1>7. writer[c].b \notin Buffers
  BY <1>1, CommAssumption DEF WritersIdle
<1>8. /\ Numbered /\ Distinct /\ Waiting /\ Awaited /\ Fetched /\ Resumed /\ Untouched /\ Mailed
      /\ m # None
  BY <1>0, <1>2 DEF AnswerInv, Mailed
<1>9. told' = told /\ asked' = IF m.kind \in Kinds THEN asked \cup {m} ELSE asked
  BY <1>1 DEF Delivers
<1>10. m.kind \in Kinds => m \in Ops
  <2>1. m \in Messages
    BY <1>0, <1>5 DEF TypeOK, BufOK, Contents
  <2>2. QED
    BY <1>8, <2>1 DEF Messages, Kinds
<1>11. /\ \A a \in Buffers : \A x : Carries(a, x)' => Carries(a, x) /\ a # r
       /\ Carries(r, m)
  <2>1. \A a \in Buffers : \A x : Carries(a, x)' => Carries(a, x) /\ a # r
    BY <1>1, <1>4, <1>7 DEF Carries
  <2>2. Carries(r, m)
    BY <1>0, <1>6 DEF Carries
  <2>3. QED
    BY <2>1, <2>2
<1>12. \A x : Awaits(x)' = Awaits(x)
  BY <1>1 DEF Awaits
<1>13. Numbered'
  BY <1>0, <1>1, <1>5, <1>8, <1>9, <1>10 DEF Numbered, Issued
<1>14. Distinct'
  <2>1. \A e, a \in Buffers : buf'[e].op # None /\ buf'[e].op = buf'[a].op => e = a
    BY <1>1, <1>8 DEF Distinct
  <2>2. \A e, a \in Buffers, x \in Ops : Carries(e, x)' /\ Carries(a, x)' => e = a
    BY <1>8, <1>11 DEF Distinct
  <2>3. \A a \in Buffers, x \in asked' : ~Carries(a, x)'
    BY <1>5, <1>8, <1>9, <1>10, <1>11 DEF Distinct
  <2>4. \A d \in Conns : reader[d].pc = "answer" =>
          /\ reader[d].msg.op \notin asked'
          /\ reader[d].msg.op \in Ops => \A a \in Buffers : ~Carries(a, reader[d].msg.op)'
    BY <1>1, <1>5, <1>8, <1>9, <1>10, <1>11 DEF Distinct
  <2>5. QED
    BY <1>1, <2>1, <2>2, <2>3, <2>4 DEF Distinct, Carries
<1>15. Waiting'
  BY <1>1, <1>8 DEF Waiting
<1>16. Awaited'
  <2>1. \A x \in asked' : Awaits(x)'
    BY <1>5, <1>8, <1>9, <1>10, <1>11, <1>12 DEF Awaited
  <2>2. \A a \in Buffers, x \in Ops : Carries(a, x)' => Awaits(x)'
    BY <1>8, <1>11, <1>12 DEF Awaited
  <2>3. QED
    BY <1>1, <1>8, <1>9, <2>1, <2>2 DEF Awaited, Awaits, Told
<1>17. Fetched' /\ Resumed'
  BY <1>1, <1>8, <1>9 DEF Fetched, Resumed, Told, Back, Acts
<1>18. Untouched'
  BY <1>1, <1>8 DEF Untouched
<1>19. Mailed'
  BY <1>1, <1>2, <1>3, <1>8 DEF Mailed
<1>20. QED
  BY <1>13, <1>14, <1>15, <1>16, <1>17, <1>18, <1>19 DEF AnswerInv

-----------------------------------------------------------------------------
LEMMA InitAnswers == Init => AnswerInv
<1> SUFFICES ASSUME Init PROVE AnswerInv
  OBVIOUS
<1>1. /\ buf = [b \in Buffers |-> Blank] /\ todo = <<>> /\ output = [c \in Conns |-> <<>>]
      /\ wait = [c \in Conns |-> <<>>] /\ ids = [k \in Kinds |-> 2] /\ asked = {}
      /\ reader = [c \in Conns |-> ReaderIdle] /\ worker = [w \in Workers |-> WorkerIdle]
  BY DEF Init
<1>2. /\ \A b \in Buffers : /\ buf[b].op = None /\ buf[b].msg = None
                            /\ buf[b].to_wake = <<>> /\ buf[b].room
      /\ \A c \in Conns : reader[c].pc = "get" /\ Items(output[c]) = {} /\ Items(wait[c]) = {}
      /\ \A w \in Workers : worker[w].pc = "idle"
      /\ Items(todo) = {} /\ \A k \in Kinds : ids[k] = 2
  BY <1>1, EmptyItems DEF Blank, ReaderIdle, WorkerIdle
<1>3. None \notin Ops
  BY MessageAssumption DEF Ops
<1>4. Numbered /\ Distinct
  BY <1>1, <1>2, <1>3 DEF Numbered, Distinct, Carries
<1>5. Waiting /\ Awaited /\ Fetched
  BY <1>1, <1>2, <1>3 DEF Waiting, Awaited, Fetched, Carries
<1>6. Resumed
  BY <1>2 DEF Resumed, Back
<1>7. Untouched /\ Mailed
  BY <1>2, <1>3, EmptyItems DEF Untouched, Mailed
<1>8. QED
  BY <1>4, <1>5, <1>6, <1>7 DEF AnswerInv

LEMMA NextAnswers ==
  ASSUME Orderly, OwnObjects, OrderlyInv, OrderlyInv', AnswerInv, [Next]_vars PROVE AnswerInv'
<1>1. /\ TypeOK /\ Own /\ Unbroken /\ OrderInv /\ WritersIdle /\ TypeOK'
  BY DEF OrderlyInv
<1>2. ASSUME UNCHANGED vars PROVE AnswerInv'
  <2>1. UNCHANGED <<buf, todo, ids, asked, wait, output, reader, worker, writer, told>>
    BY <1>2 DEF vars, shared, kernel
  <2>2. \A b \in Buffers : Back(b)' /\ Acts(b)' => Back(b) /\ Acts(b)
    BY <2>1 DEF Back, Acts
  <2>3. Steady
    BY <1>1, <2>1, <2>2, StillSteady
  <2>4. QED
    BY <1>1, <2>3, SteadyInv
<1>3. ASSUME NEW c \in Conns, KernelMoves(c) \/ ReadsAnswer(c) PROVE AnswerInv'
  BY <1>1, <1>3, KernelAnswers, ReadsAnswerAnswers
<1>4. ASSUME NEW c \in Conns, ReaderStep(c) PROVE AnswerInv'
  <2>1. ~QueryRefused(c) /\ ~InitRefused(c) /\ ~ReaderFails(c)
    BY <1>1, NoneCloses
  <2>2. CASE QueryDangles(c) \/ AnswerUnexpected(c)
    BY <1>1, <2>2, EndsAnswers DEF QueryDangles, AnswerUnexpected
  <2>3. CASE ReaderGets(c) \/ ReadyAnswer(c)
    BY <1>1, <2>3, ReaderFillsAnswers
  <2>4. CASE ReadyRequest(c) \/ QueryInits(c)
    BY <1>1, <2>4, ConnInitAnswers
  <2>5. CASE QueryPasses(c) \/ QueryWaits(c)
    BY <1>1, <2>5, QueryPutAnswers
  <2>6. CASE QueryQueued(c) \/ ReaderChecks(c)
    BY <1>1, <2>6, QueuedAnswers
  <2>7. CASE UpdateAnswered(c) \/ FetchFailed(c) \/ FetchAnswered(c) \/ FetchDone(c)
    BY <1>1, <2>7, UpdateAnsweredAnswers, FetchFailedAnswers, FetchAnsweredAnswers,
       FetchDoneAnswers
  <2>8. CASE ReaderFrees(c)
    BY <1>1, <2>8, ReaderFreesAnswers
  <2>9. QED
    BY <1>4, <2>1, <2>2, <2>3, <2>4, <2>5, <2>6, <2>7, <2>8 DEF ReaderStep
<1>5. ASSUME NEW c \in Conns, WriterStep(c) PROVE AnswerInv'
  <2>1. ~WriterFails(c)
    BY <1>1, NoneCloses
  <2>2. CASE WriterFindsNull(c)
    BY <1>1, <2>2, EndsAnswers DEF WriterFindsNull
  <2>3. CASE WriterWaits(c) \/ WriterSkips(c) \/ WriterWrites(c) \/ WriterFrees(c)
    BY <1>1, <2>3, WriterWaitsAnswers, WriterSkipsAnswers, WriterWritesAnswers, WriterFreesAnswers
  <2>4. QED
    BY <1>5, <2>1, <2>2, <2>3 DEF WriterStep
<1>6. ASSUME NEW w \in Workers, WorkerStep(w) PROVE AnswerInv'
  <2>1. CASE WorkerTakes(w) \/ WorkerSends(w) \/ InitClears(w)
    BY <1>1, <2>1, WorkerPassesAnswers
  <2>2. CASE Resizes(w)
    BY <1>1, <2>2, ResizesAnswers
  <2>3. CASE EventAsks(w) \/ AnswerUpdates(w)
    BY <1>1, <2>3, WorkerAsksAnswers
  <2>4. CASE EventDecides(w)
    BY <1>1, <2>4, EventDecidesAnswers
  <2>5. CASE AnswerSends(w)
    BY <1>1, <2>5, AnswerSendsAnswers
  <2>6. CASE WorkerFrees(w) \/ InitFrees(w)
    BY <1>1, <2>6, WorkerFreesAnswers
  <2>7. CASE WorkerParks(w) \/ InitWakes(w)
    BY <1>1, <2>7, WorkerParksAnswers, InitWakesAnswers
  <2>8. QED
    BY <1>6, <2>1, <2>2, <2>3, <2>4, <2>5, <2>6, <2>7 DEF WorkerStep
<1>7. ~MainReturns /\ \A c \in Conns : ~CloseStep(c)
  BY <1>1, CommAssumption, NoneCloses
<1>8. QED
  BY <1>2, <1>3, <1>4, <1>5, <1>6, <1>7 DEF Next, Done

LEMMA AnswersKept == Orderly /\ OwnObjects => (Spec => [](OrderlyInv /\ AnswerInv))
<1> SUFFICES ASSUME Orderly, OwnObjects PROVE Spec => [](OrderlyInv /\ AnswerInv)
  OBVIOUS
<1>1. OrderlyInv /\ AnswerInv /\ [Next]_vars => OrderlyInv' /\ AnswerInv'
  BY NextOrderly, NextAnswers
<1>2. QED
  BY <1>1, InitOrderly, InitAnswers, PTL DEF Spec

(* Whenever the kernels keep their connections (they may send answers      *)
(* nobody asked for) and handlers keep to the objects of theirs, a handler or mcp_answer() that is resumed after a    *)
(* fetch or an update sees in user_data what the kernel answered to its    *)
(* own operation (mcp_r_fetch_answer(), mcp_r_update_answer()): never the  *)
(* outcome that was preset and never another buffer's, in whatever order   *)
(* the answers come and whichever worker is first.                         *)
THEOREM HandlersSeeOutcomes == Orderly /\ OwnObjects => (Spec => []SeesOutcome)
<1>1. ASSUME AnswerInv, TypeOK PROVE SeesOutcome
  <2> SUFFICES ASSUME NEW w \in Workers, Locks(w), buf[worker[w].b].phase \in {1, 1003}
               PROVE  /\ buf[worker[w].b].op \in DOMAIN told
                      /\ buf[worker[w].b].user_data = told[buf[worker[w].b].op]
    BY DEF SeesOutcome
  <2>1. worker[w].b \in Buffers /\ Back(worker[w].b) /\ Acts(worker[w].b)
    BY <1>1 DEF Locks, WorkerAt, TypeOK, WorkerOK, Back, Acts, Resumes
  <2>2. QED
    BY <1>1, <2>1 DEF AnswerInv, Resumed, Told
<1>2. OrderlyInv => TypeOK
  BY DEF OrderlyInv
<1>3. QED
  BY <1>1, <1>2, AnswersKept, PTL

-----------------------------------------------------------------------------
(* A kernel that keeps to the protocol answers what it was asked.          *)
NoStray == \A c \in Conns : reader[c].pc = "answer" => reader[c].msg.op.seq # 1

(* The kernel was asked, or the writer is about to.                        *)
LEMMA PendingAwaited ==
  ASSUME TypeOK, Own, AnswerInv, NEW c \in Conns, NEW o \in Pending(c)
  PROVE  o \in Ops /\ o.comm = c /\ Awaits(o)
<1>1. CASE o \in asked /\ o.comm = c
  BY <1>1 DEF AnswerInv, Numbered, Awaited
<1>2. CASE ~(o \in asked /\ o.comm = c)
  <2>1. PICK i \in DOMAIN output[c] : o = buf[output[c][i]].msg /\ o.kind \in Kinds
    BY <1>2 DEF Pending
  <2>2. PICK r : r = output[c][i]
    OBVIOUS
  <2>3. r \in Items(output[c]) /\ o = buf[r].msg
    BY <2>1, <2>2 DEF Items
  <2>4. r \in Buffers /\ Holds("output", c, r) /\ o # None /\ buf[r].comm = c
    BY <2>3, OpsKnown DEF Holds, InOutput, AnswerInv, Mailed
  <2>5. \A d \in Conns : writer[d].b # r
    BY <2>4, HeldOnce
  <2>6. o \in Ops
    <3>1. o \in Messages
      BY <2>3, <2>4 DEF TypeOK, BufOK, Contents
    <3>2. QED
      BY <2>1, <2>4, <3>1 DEF Messages, Kinds
  <2>7. Carries(r, o)
    BY <2>3, <2>5 DEF Carries
  <2>8. QED
    BY <2>3, <2>4, <2>6, <2>7 DEF AnswerInv, Awaited, Mailed
<1>3. QED
  BY <1>1, <1>2

(* The answer to an operation that is awaited finds its buffer, and no     *)
(* other one.                                                              *)
LEMMA OneWaiter ==
  ASSUME TypeOK, Own, AnswerInv, NEW c \in Conns, NEW o \in Ops, o.comm = c, Awaits(o)
  PROVE  \E i \in DOMAIN wait[c] : Waiters(c, o) = {i}
<1>1. PICK i \in DOMAIN wait[c] : buf[wait[c][i]].op = o
  BY DEF Awaits, Items
<1>2. \A j \in DOMAIN wait[c] :
        /\ wait[c][j] \in Items(wait[c]) /\ wait[c][j] \in Buffers
        /\ buf[wait[c][j]].op \in Ops /\ buf[wait[c][j]].op.comm = c
        /\ buf[wait[c][j]].waiting =
             [to |-> buf[wait[c][j]].op.kind, seq |-> buf[wait[c][j]].op.seq]
  <2>1. \A j \in DOMAIN wait[c] : wait[c][j] \in Items(wait[c])
    BY DEF Items
  <2>2. QED
    BY <2>1, OpsKnown DEF AnswerInv, Waiting
<1>3. i \in Waiters(c, o)
  BY <1>1, <1>2 DEF Waiters
<1>4. ASSUME NEW j \in Waiters(c, o) PROVE j = i
  <2>1. PICK a, p : a = wait[c][j] /\ p = buf[a].op
    OBVIOUS
  <2>2. /\ j \in DOMAIN wait[c] /\ a \in Buffers /\ p \in Ops /\ p.comm = c
        /\ [to |-> p.kind, seq |-> p.seq] = [to |-> o.kind, seq |-> o.seq]
    BY <1>2, <2>1 DEF Waiters
  <2>3. p.kind = o.kind /\ p.seq = o.seq
    BY <2>2
  <2>4. p = o
    BY <2>2, <2>3 DEF Ops
  <2>5. PICK d : d = wait[c][i]
    OBVIOUS
  <2>6. a = d
    <3>1. d \in Buffers /\ buf[d].op = o /\ buf[a].op = o
      BY <1>1, <1>2, <2>1, <2>4, <2>5
    <3>2. o # None
      BY OpsKnown
    <3>3. buf[a].op # None /\ buf[a].op = buf[d].op => a = d
      BY <2>2, <3>1, Zenon DEF AnswerInv, Distinct
    <3>4. QED
      BY <3>1, <3>2, <3>3
  <2>7. QED
    BY <2>1, <2>2, <2>5, <2>6 DEF Own, Lists, Once
<1>5. QED
  BY <1>3, <1>4

LEMMA AskedOnce ==
  ASSUME TypeOK, Own, AnswerInv, status # "fatal" PROVE WaiterKnown
<1>1. ASSUME NEW c \in Conns, NEW o \in Pending(c) PROVE Cardinality(Waiters(c, o)) = 1
  <2>1. PICK i : Waiters(c, o) = {i}
    BY <1>1, PendingAwaited, OneWaiter
  <2>2. QED
    BY <2>1, FS_Singleton
<1>2. QED
  BY <1>1 DEF WaiterKnown

(* So no answer is unexpected.                                             *)
LEMMA NoneUnexpected ==
  ASSUME TypeOK, Own, AnswerInv, NoStray, NEW c \in Conns PROVE ~AnswerUnexpected(c)
<1> SUFFICES ASSUME AnswerUnexpected(c) PROVE FALSE
  OBVIOUS
<1>1. reader[c].pc = "answer" /\ Waiters(c, reader[c].msg.op) = {}
  BY DEF AnswerUnexpected, ReaderAt
<1>2. reader[c].msg.op \in Ops /\ reader[c].msg.op.comm = c /\ Awaits(reader[c].msg.op)
  BY <1>1 DEF NoStray, AnswerInv, Awaited
<1>3. QED
  BY <1>1, <1>2, OneWaiter

Heard == NoStray /\ status # "fatal"

LEMMA StillHeard ==
  ASSUME Heard, \A c \in Conns : reader'[c].pc = "answer" => reader'[c] = reader[c],
         status' # "fatal"
  PROVE  Heard'
BY DEF Heard, NoStray

LEMMA NextHeard ==
  ASSUME Unruly = {}, OrderlyInv, AnswerInv, Heard, [Next]_vars PROVE Heard'
<1>1. /\ TypeOK /\ Own /\ Unbroken /\ OrderInv /\ Orderly /\ NoStray
      /\ reader \in [Conns -> Readers]
  BY DEF OrderlyInv, Orderly, Heard, TypeOK, ReaderOK
<1>2. ASSUME UNCHANGED vars PROVE Heard'
  BY <1>2 DEF vars, Heard, NoStray
<1>3. ASSUME NEW how, how # "fatal", Ends(how) PROVE Heard'
  BY <1>3 DEF Ends, Heard, NoStray
<1>4. ASSUME UNCHANGED <<reader, status>> PROVE Heard'
  BY <1>4 DEF Heard, NoStray
<1>5. ASSUME NEW c \in Conns, KernelMoves(c) \/ ReadsAnswer(c) PROVE Heard'
  <2>1. CASE ReadsReadyRequest(c) \/ ReadsQuery(c)
    <3>1. PICK pc \in {"ready", "query"} : \E m : Reads(c, pc, m)
      BY <2>1 DEF ReadsReadyRequest, ReadsQuery
    <3>2. PICK m : Reads(c, pc, m)
      BY <3>1
    <3>3. UNCHANGED status /\ reader' = [reader EXCEPT ![c].pc = pc, ![c].msg = m]
      BY <3>2 DEF Reads
    <3>4. \A d \in Conns : reader'[d].pc = "answer" => reader'[d] = reader[d]
      BY <1>1, <3>3 DEF Readers
    <3>5. QED
      BY <3>3, <3>4, StillHeard DEF Heard
  <2>2. CASE ReadsAnswer(c)
    <3>1. PICK o \in asked, out \in {"ok", "error"} :
            Reads(c, "answer", [op |-> o, outcome |-> out])
      BY <2>2 DEF ReadsAnswer
    <3>2. PICK m : m = [op |-> o, outcome |-> out]
      OBVIOUS
    <3>3. UNCHANGED status /\ reader' = [reader EXCEPT ![c].pc = "answer", ![c].msg = m]
      BY <3>1, <3>2 DEF Reads
    <3>4. m.op.seq # 1
      BY <3>2 DEF AnswerInv, Numbered, Issued, Ops
    <3>5. \A d \in Conns : reader'[d] = reader[d] \/ reader'[d].msg = m
      BY <1>1, <3>3 DEF Readers
    <3>6. \A d \in Conns : reader'[d].pc = "answer" => reader'[d].msg.op.seq # 1
      BY <1>1, <3>4, <3>5 DEF NoStray
    <3>7. QED
      BY <3>3, <3>6 DEF Heard, NoStray
  <2>3. ~ReadsStrayAnswer(c) /\ ~ReadFails(c)
    BY <1>1, NoneCloses DEF ReadsStrayAnswer
  <2>4. QED
    BY <1>5, <2>1, <2>2, <2>3 DEF KernelMoves
<1>6. ASSUME NEW c \in Conns, ReaderStep(c) PROVE Heard'
  <2>0. ASSUME NEW pc, pc # "answer", UNCHANGED status, reader'[c].pc = pc,
               \A d \in Conns \ {c} : reader'[d] = reader[d]
        PROVE  Heard'
    BY <2>0, StillHeard DEF Heard
  <2>1. ~QueryRefused(c) /\ ~InitRefused(c) /\ ~ReaderFails(c) /\ ~AnswerUnexpected(c)
    BY <1>1, NoneCloses, NoneUnexpected
  <2>2. CASE QueryDangles(c)
    BY <1>3, <2>2 DEF QueryDangles
  <2>3. CASE ReaderGets(c) \/ ReadyAnswer(c)
    BY <1>1, <2>0, <2>3 DEF ReaderGets, ReadyAnswer, Readers
  <2>4. CASE ReadyRequest(c)
    <3>1. PICK pc : pc = IF conn[c].function_init THEN "free" ELSE "readyanswer"
      OBVIOUS
    <3>2. pc # "answer" /\ UNCHANGED status /\ reader' = [reader EXCEPT ![c].pc = pc]
      BY <2>4, <3>1 DEF ReadyRequest
    <3>3. QED
      BY <1>1, <2>0, <3>2 DEF Readers
  <2>5. CASE QueryInits(c)
    BY <1>4, <2>5 DEF QueryInits
  <2>6. CASE QueryPasses(c) \/ QueryWaits(c) \/ QueryQueued(c)
    BY <1>1, <2>0, <2>6 DEF QueryPasses, QueryWaits, QueryQueued, Readers
  <2>7. CASE ReaderChecks(c)
    <3>1. CASE Ends("undefined")
      BY <1>3, <3>1
    <3>2. CASE ~Ends("undefined")
      BY <1>1, <2>0, <2>7, <3>2 DEF ReaderChecks, ReaderIdle, shared
    <3>3. QED
      BY <3>1, <3>2
  <2>8. CASE UpdateAnswered(c) \/ FetchFailed(c) \/ FetchDone(c)
    BY <1>1, <2>0, <2>8 DEF UpdateAnswered, FetchFailed, FetchDone, Readers
  <2>9. CASE FetchAnswered(c)
    <3>1. PICK p : reader' = [reader EXCEPT ![c].pc = "body", ![c].p = p] /\ UNCHANGED status
      BY <2>9 DEF FetchAnswered
    <3>2. QED
      BY <1>1, <2>0, <3>1 DEF Readers
  <2>10. CASE ReaderFrees(c)
    BY <1>1, <2>0, <2>10 DEF ReaderFrees, ReaderIdle
  <2>11. QED
    BY <1>6, <2>1, <2>2, <2>3, <2>4, <2>5, <2>6, <2>7, <2>8, <2>9, <2>10 DEF ReaderStep
<1>7. ASSUME NEW c \in Conns, WriterStep(c) PROVE Heard'
  <2>1. CASE WriterFindsNull(c)
    BY <1>3, <2>1 DEF WriterFindsNull
  <2>2. CASE ~WriterFindsNull(c)
    BY <1>4, <1>7, <2>2
       DEF WriterStep, WriterWaits, WriterSkips, WriterWrites, WriterFrees, WriterFails
  <2>3. QED
    BY <2>1, <2>2
<1>8. ASSUME NEW w \in Workers, WorkerStep(w) PROVE Heard'
  <2>1. CASE EventAsks(w) \/ AnswerUpdates(w)
    BY <1>4, <2>1, ZenonT(60) DEF EventAsks, AnswerUpdates, Asks
  <2>2. CASE EventDecides(w)
    <3>1. UNCHANGED <<reader, status>>
      BY <2>2, Zenon DEF EventDecides
    <3>2. QED
      BY <1>4, <3>1
  <2>3. CASE AnswerSends(w) \/ InitWakes(w)
    <3>1. UNCHANGED <<reader, status>>
      BY <2>3, Zenon DEF AnswerSends, InitWakes
    <3>2. QED
      BY <1>4, <3>1
  <2>4. CASE ~(EventAsks(w) \/ AnswerUpdates(w) \/ EventDecides(w) \/ AnswerSends(w) \/ InitWakes(w))
    BY <1>4, <1>8, <2>4 DEF WorkerStep, WorkerTakes, Resizes, WorkerFrees, WorkerSends,
                            WorkerParks, InitFrees, InitClears
  <2>5. QED
    BY <2>1, <2>2, <2>3, <2>4
<1>9. ~MainReturns /\ \A c \in Conns : ~CloseStep(c)
  BY <1>1, CommAssumption, NoneCloses
<1>10. QED
  BY <1>2, <1>5, <1>6, <1>7, <1>8, <1>9 DEF Next, Done

(* When the kernels keep to the protocol and no handler fetches or updates *)
(* an object of another connection, an operation that was sent, or         *)
(* is queued for the writer, has exactly one buffer waiting for it on      *)
(* wait_for_answer, so that mcp_r_fetch_answer() and mcp_r_update_answer() *)
(* find it, and no other, whichever answer comes first; the fatal() for an *)
(* answer nobody waits for is never reached.  The hypothesis on the        *)
(* objects is needed: with [name] a handler gets an object of another      *)
(* connection, its buffer waits on wake->comm (mcp.c) and the answer comes *)
(* to the other one, which ends the process.                               *)
THEOREM EveryOperationHasItsWaiter ==
  Unruly = {} /\ OwnObjects => (Spec => []WaiterKnown)
<1> SUFFICES ASSUME Unruly = {}, OwnObjects PROVE Spec => []WaiterKnown
  OBVIOUS
<1>1. Orderly
  BY DEF Orderly
<1>2. Init => Heard
  BY DEF Init, Heard, NoStray, ReaderIdle
<1>3. OrderlyInv /\ AnswerInv /\ Heard /\ [Next]_vars => Heard'
  BY NextHeard
<1>4. OrderlyInv /\ AnswerInv /\ Heard => WaiterKnown
  BY AskedOnce DEF OrderlyInv, Heard
<1>5. Spec => [](OrderlyInv /\ AnswerInv)
  BY <1>1, AnswersKept
<1>6. QED
  BY <1>2, <1>3, <1>4, <1>5, PTL DEF Spec

=============================================================================
