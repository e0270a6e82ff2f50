----------------------------- MODULE CommProofs ------------------------------
(***************************************************************************)
(* What else holds of Comm for any number of threads, buffers and requests *)
(* and however connections end: the writer's semaphore counts its queue,   *)
(* and the handlers of a request are begun at most once.                   *)
(***************************************************************************)
EXTENDS CommOwnership

-----------------------------------------------------------------------------
(* The semaphore of the writer.  It counts the queue until the connection  *)
(* is closed; a thread in mcp_close() has closed the descriptor before.    *)

Taking(c) == IF writer[c].pc = "take" THEN 1 ELSE 0
Left(c)   == output_sem[c] - Len(output[c])

Closes(c) ==
  \/ reader[c].pc \in {"close", "closing", "fail", "close again", "closing again", "dead"}
  \/ writer[c].pc \in {"close", "closing", "dead"}

Shut == \A c \in Conns : Closes(c) => ~conn[c].fd

SemInv == SemCounts /\ Shut

(* Nobody opens a descriptor, and what a thread enqueues it posts.         *)
Counted ==
  \A c \in Conns : conn'[c].fd =>
    /\ conn[c].fd
    /\ Left(c)' + Taking(c)' = Left(c) + Taking(c)
    /\ Closes(c)' => Closes(c)

LEMMA CountedInv == ASSUME TypeOK, TypeOK', SemInv, Counted PROVE SemInv'
<1>1. ASSUME NEW c \in Conns PROVE output_sem[c] \in Int /\ Len(output[c]) \in Int /\ Taking(c) \in Int
  BY DEF TypeOK, SemOK, OutputOK, Queues, Taking
<1>2. ASSUME NEW c \in Conns
      PROVE  output_sem'[c] \in Int /\ Len(output'[c]) \in Int /\ Taking(c)' \in Int
  BY DEF TypeOK, SemOK, OutputOK, Queues, Taking
<1>3. ASSUME NEW c \in Conns, conn'[c].fd
      PROVE  output_sem'[c] + Taking(c)' = Len(output'[c])
  <2> DEFINE a == output_sem[c]
             l == Len(output[c])
             t == Taking(c)
             x == output_sem'[c]
             k == Len(output'[c])
             y == Taking(c)'
  <2>1. a + t = l
    BY <1>3 DEF Counted, SemInv, SemCounts, Taking
  <2>2. (x - k) + y = (a - l) + t
    BY <1>3 DEF Counted, Left
  <2>3. a \in Int /\ l \in Int /\ t \in Int /\ x \in Int /\ k \in Int /\ y \in Int
    BY <1>1, <1>2
  <2> HIDE DEF a, l, t, x, k, y
  <2>4. x + y = k
    BY <2>1, <2>2, <2>3
  <2>5. QED
    BY <2>4 DEF x, y, k
<1>4. SemCounts'
  BY <1>3 DEF SemCounts, Taking
<1>5. Shut'
  BY DEF Counted, SemInv, Shut
<1>6. QED
  BY <1>4, <1>5 DEF SemInv

(* comm_buf_output_enqueue() *)
LEMMA SentCounts ==
  ASSUME SemOK, NEW q \in Queues, NEW c \in Conns \cup {None}, NEW b \in Buffers,
         output' = [q EXCEPT ![c] = comm_buf_to_queue(@, b)],
         output_sem' = [output_sem EXCEPT ![c] = @ + 1]
  PROVE  \A d \in Conns : Left(d)' = output_sem[d] - Len(q[d])
<1> SUFFICES ASSUME NEW d \in Conns PROVE output_sem'[d] - Len(output'[d]) = output_sem[d] - Len(q[d])
  BY DEF Left
<1>1. q[d] \in Seq(Buffers) /\ output_sem[d] \in Int /\ Len(q[d]) \in Int
  BY DEF Queues, SemOK
<1>2. CASE d = c
  <2>1. output'[d] = Append(q[d], b) /\ output_sem'[d] = output_sem[d] + 1
    BY <1>2 DEF Queues, SemOK, comm_buf_to_queue
  <2>2. Len(output'[d]) = Len(q[d]) + 1
    BY <1>1, <2>1
  <2>3. QED
    BY <1>1, <2>1, <2>2
<1>3. CASE d # c
  BY <1>3 DEF Queues, SemOK
<1>4. QED
  BY <1>2, <1>3

(* comm_buf_free() *)
LEMMA FreeCounts ==
  ASSUME TypeOK, NEW b \in Buffers, NEW bufs \in [Buffers -> Contents], NEW m \in Memory,
         NEW q \in Queues, Free(b, bufs, m, q)
  PROVE  \A d \in Conns : Left(d)' = output_sem[d] - Len(q[d])
<1>1. CASE SendsReady(b)
  <2>1. /\ Available(m)
        /\ output' = [q EXCEPT ![bufs[b].comm] = comm_buf_to_queue(@, Fresh(m))]
        /\ output_sem' = [output_sem EXCEPT ![bufs[b].comm] = @ + 1]
    BY <1>1 DEF Free
  <2>2. Fresh(m) \in Buffers /\ bufs[b].comm \in Conns \cup {None}
    BY <2>1, TakenOK DEF Contents
  <2>3. QED
    BY <2>1, <2>2, SentCounts DEF TypeOK
<1>2. CASE ~SendsReady(b)
  BY <1>2 DEF Free, Left
<1>3. QED
  BY <1>1, <1>2

(* A step of other threads and queues.                                     *)
LEMMA CountsKept ==
  ASSUME UNCHANGED <<output, output_sem, writer>>,
         \A c \in Conns : (conn'[c].fd => conn[c].fd)
                          /\ (Closes(c)' /\ conn'[c].fd => Closes(c))
  PROVE  Counted
BY DEF Counted, Left, Taking

LEMMA CountsFreed ==
  ASSUME \A c \in Conns : Left(c)' = Left(c), UNCHANGED <<writer, conn>>,
         \A c \in Conns : Closes(c)' => Closes(c)
  PROVE  Counted
BY DEF Counted, Taking

Closing == {"close", "closing", "fail", "close again", "closing again", "dead"}

LEMMA ReaderGoesOn ==
  ASSUME ReaderOK, NEW c \in Conns, NEW pc, pc \notin Closing,
         \A d \in Conns : reader'[d].pc = IF d = c THEN pc ELSE reader[d].pc,
         UNCHANGED writer
  PROVE  \A d \in Conns : Closes(d)' => Closes(d)
BY DEF Closing, Closes

LEMMA KernelCounts ==
  ASSUME TypeOK, NEW c \in Conns, KernelMoves(c) \/ ReadsAnswer(c)
  PROVE  Counted
<1>1. ASSUME NEW pc, NEW msg, Reads(c, pc, msg), pc \in {"ready", "query", "answer"}
      PROVE  Counted
  <2>1. /\ \A d \in Conns : reader'[d].pc = IF d = c THEN pc ELSE reader[d].pc
        /\ UNCHANGED <<output, output_sem, conn, writer>>
    BY <1>1 DEF Reads, shared, TypeOK, ReaderOK, Readers
  <2>2. pc \notin Closing
    BY <1>1 DEF Closing
  <2>3. QED
    BY <2>1, <2>2, ReaderGoesOn, CountsKept DEF TypeOK
<1>2. CASE ReadFails(c)
  <2>1. /\ UNCHANGED <<output, output_sem, writer>>
        /\ \A d \in Conns : conn'[d].fd = IF d = c THEN FALSE ELSE conn[d].fd
        /\ \A d \in Conns \ {c} : reader'[d] = reader[d]
    BY <1>2 DEF ReadFails, TypeOK, ReaderOK, ConnOK, Connections
  <2>2. QED
    BY <2>1, CountsKept DEF Closes
<1>3. QED
  BY <1>1, <1>2 DEF KernelMoves, ReadsAnswer, ReadsReadyRequest, ReadsQuery, ReadsStrayAnswer

LEMMA ConnInitCounts ==
  ASSUME ConnOK, NEW c \in Conns, NEW bufs, ConnInit(c, bufs)
  PROVE  \A d \in Conns : conn'[d].fd => conn[d].fd
BY DEF ConnInit, ConnOK, Connections

LEMMA EndsCounts == ASSUME NEW how, Ends(how) PROVE Counted
BY CountsKept DEF Ends, shared, Closes

LEMMA ReaderFreesCounts ==
  ASSUME TypeOK, NEW c \in Conns, ReaderFrees(c) \/ ReaderFails(c)
  PROVE  Counted
<1>1. /\ reader[c].pc \in {"free", "fail"} /\ Free(reader[c].b, buf, mem, output)
      /\ UNCHANGED <<conn, writer>>
  BY DEF ReaderFrees, ReaderFails, ReaderAt
<1>2. reader[c].b \in Buffers
  BY <1>1 DEF TypeOK, ReaderOK, Owning
<1>3. \A d \in Conns : Left(d)' = Left(d)
  BY <1>1, <1>2, FreeCounts DEF TypeOK, BufOK, MemOK, OutputOK, Left
<1>4. \A d \in Conns : Closes(d)' => Closes(d)
  <2>1. CASE ReaderFrees(c)
    <3>1. /\ \A d \in Conns : reader'[d].pc = IF d = c THEN "get" ELSE reader[d].pc
          /\ "get" \notin Closing
      BY <2>1 DEF ReaderFrees, ReaderIdle, Closing, TypeOK, ReaderOK
    <3>2. QED
      BY <1>1, <3>1, ReaderGoesOn DEF TypeOK
  <2>2. CASE ReaderFails(c)
    <3>1. reader[c].pc = "fail" /\ \A d \in Conns \ {c} : reader'[d] = reader[d]
      BY <2>2 DEF ReaderFails, ReaderAt, TypeOK, ReaderOK
    <3>2. QED
      BY <1>1, <3>1 DEF Closes
  <2>3. QED
    BY <2>1, <2>2
<1>5. QED
  BY <1>1, <1>3, <1>4, CountsFreed

LEMMA ReaderCounts ==
  ASSUME TypeOK, NEW c \in Conns, ReaderStep(c)
  PROVE  Counted
<1>1. CASE ReaderGets(c)
  BY <1>1, ReaderGoesOn, CountsKept, ZenonT(60) DEF ReaderGets, Closing, TypeOK, ReaderOK, Readers
<1>2. CASE ReadyRequest(c)
  <2> DEFINE pc == IF conn[c].function_init THEN "free" ELSE "readyanswer"
  <2>1. /\ \A d \in Conns : reader'[d].pc = IF d = c THEN pc ELSE reader[d].pc
        /\ UNCHANGED <<output, output_sem, writer>> /\ ConnInit(c, buf)
    BY <1>2 DEF ReadyRequest, TypeOK, ReaderOK, Readers
  <2>2. pc \notin Closing
    BY DEF Closing
  <2> HIDE DEF pc
  <2>3. QED
    BY <2>1, <2>2, ConnInitCounts, ReaderGoesOn, CountsKept DEF TypeOK
<1>3. CASE ReadyAnswer(c)
  <2>1. /\ \A d \in Conns : reader'[d].pc = IF d = c THEN "free" ELSE reader[d].pc
        /\ UNCHANGED <<writer, conn>> /\ Available(mem)
        /\ output' = [output EXCEPT ![c] = comm_buf_to_queue(@, Fresh(mem))]
        /\ output_sem' = [output_sem EXCEPT ![c] = @ + 1]
    BY <1>3 DEF ReadyAnswer, TypeOK, ReaderOK, Readers
  <2>2. Fresh(mem) \in Buffers
    BY <2>1, TakenOK DEF TypeOK, MemOK
  <2>3. \A d \in Conns : Left(d)' = Left(d)
    BY <2>1, <2>2, SentCounts DEF TypeOK, OutputOK, Left
  <2>4. "free" \notin Closing
    BY DEF Closing
  <2>5. QED
    BY <2>1, <2>3, <2>4, ReaderGoesOn, CountsFreed DEF TypeOK
<1>4. CASE QueryInits(c)
  <2>1. UNCHANGED <<output, output_sem, writer, reader>> /\ ConnInit(c, buf)
    BY <1>4 DEF QueryInits
  <2>2. QED
    BY <2>1, ConnInitCounts, CountsKept DEF TypeOK, Closes
<1>5. CASE QueryRefused(c) \/ InitRefused(c)
  <2>1. /\ UNCHANGED <<output, output_sem, writer>>
        /\ \A d \in Conns : conn'[d].fd = IF d = c THEN FALSE ELSE conn[d].fd
        /\ \A d \in Conns \ {c} : reader'[d] = reader[d]
    BY <1>5 DEF QueryRefused, InitRefused, TypeOK, ReaderOK, ConnOK, Connections
  <2>2. QED
    BY <2>1, CountsKept DEF Closes
<1>6. ASSUME NEW pc \in {"check", "todo", "free", "body", "get"},
             \A d \in Conns : reader'[d].pc = IF d = c THEN pc ELSE reader[d].pc,
             UNCHANGED <<output, output_sem, conn, writer>>
      PROVE  Counted
  <2>1. pc \notin Closing
    BY DEF Closing
  <2>2. QED
    BY <1>6, <2>1, ReaderGoesOn, CountsKept DEF TypeOK
<1>7. CASE QueryWaits(c) \/ QueryQueued(c)
  <2>1. /\ \A d \in Conns : reader'[d].pc = IF d = c THEN "check" ELSE reader[d].pc
        /\ UNCHANGED <<output, output_sem, conn, writer>>
    BY <1>7 DEF QueryWaits, QueryQueued, TypeOK, ReaderOK, Readers
  <2>2. QED
    BY <1>6, <2>1
<1>8. CASE QueryPasses(c)
  <2>1. /\ \A d \in Conns : reader'[d].pc = IF d = c THEN "todo" ELSE reader[d].pc
        /\ UNCHANGED <<output, output_sem, conn, writer>>
    BY <1>8 DEF QueryPasses, TypeOK, ReaderOK, Readers
  <2>2. QED
    BY <1>6, <2>1
<1>9. CASE QueryDangles(c) \/ AnswerUnexpected(c)
  BY <1>9, EndsCounts DEF QueryDangles, AnswerUnexpected
<1>10. CASE ReaderChecks(c)
  <2>1. CASE Ends("undefined")
    BY <2>1, EndsCounts
  <2>2. CASE ~Ends("undefined")
    <3>1. /\ \A d \in Conns : reader'[d].pc = IF d = c THEN "get" ELSE reader[d].pc
          /\ UNCHANGED <<output, output_sem, conn, writer>>
      BY <1>10, <2>2 DEF ReaderChecks, ReaderIdle, shared, TypeOK, ReaderOK, Readers
    <3>2. QED
      BY <1>6, <3>1
  <2>3. QED
    BY <2>1, <2>2
<1>11. CASE UpdateAnswered(c) \/ FetchFailed(c) \/ FetchDone(c)
  <2>1. /\ \A d \in Conns : reader'[d].pc = IF d = c THEN "free" ELSE reader[d].pc
        /\ UNCHANGED <<output, output_sem, conn, writer>>
    BY <1>11 DEF UpdateAnswered, FetchFailed, FetchDone, TypeOK, ReaderOK, Readers
  <2>2. QED
    BY <1>6, <2>1
<1>12. CASE FetchAnswered(c)
  <2>1. /\ \A d \in Conns : reader'[d].pc = IF d = c THEN "body" ELSE reader[d].pc
        /\ UNCHANGED <<output, output_sem, conn, writer>>
    BY <1>12 DEF FetchAnswered, TypeOK, ReaderOK, Readers
  <2>2. QED
    BY <1>6, <2>1
<1>13. QED
  BY <1>1, <1>2, <1>3, <1>4, <1>5, <1>7, <1>8, <1>9, <1>10, <1>11, <1>12,
     ReaderFreesCounts DEF ReaderStep


(* mcp_close() runs only where the descriptor is closed.                   *)
LEMMA CloseCounts ==
  ASSUME TypeOK, SemInv, NEW c \in Conns, CloseStep(c)
  PROVE  Counted
<1>1. CASE CloseRelocks(c)
  BY <1>1, EndsCounts DEF CloseRelocks
<1>2. CASE CloseOutput(c)
  <2> DEFINE q == [output EXCEPT ![c] = comm_buf_from_queue(@)]
  <2>1. /\ output[c] # <<>> /\ Free(Head(output[c]), buf, mem, q)
        /\ UNCHANGED <<conn, reader, writer>>
        /\ Closes(c)
    BY <1>2 DEF CloseOutput, Draining, Closes
  <2>2. Head(output[c]) \in Buffers /\ q \in Queues
    BY <2>1, DequeuedOK DEF TypeOK, OutputOK
  <2>3. \A d \in Conns \ {c} : q[d] = output[d]
    BY DEF TypeOK, OutputOK, Queues
  <2> HIDE DEF q
  <2>4. \A d \in Conns : Left(d)' = output_sem[d] - Len(q[d])
    BY <2>1, <2>2, FreeCounts DEF TypeOK, BufOK, MemOK
  <2>5. \A d \in Conns \ {c} : Left(d)' = Left(d)
    BY <2>3, <2>4 DEF Left
  <2>6. ~conn'[c].fd
    BY <2>1 DEF SemInv, Shut
  <2>7. QED
    BY <2>1, <2>5, <2>6 DEF Counted, Taking, Closes
<1>3. CASE CloseWait(c)
  <2>1. /\ wait[c] # <<>> /\ Free(Head(wait[c]), buf, mem, output)
        /\ UNCHANGED <<conn, reader, writer>>
    BY <1>3 DEF CloseWait
  <2>2. Head(wait[c]) \in Buffers
    BY <2>1, DequeuedOK DEF TypeOK, WaitOK
  <2>3. \A d \in Conns : Left(d)' = Left(d)
    BY <2>1, <2>2, FreeCounts DEF TypeOK, BufOK, MemOK, OutputOK, Left
  <2>4. QED
    BY <2>1, <2>3, CountsFreed DEF Closes
<1>4. CASE Drained(c) \/ Closed(c)
  <2>1. /\ UNCHANGED <<output, output_sem>>
        /\ \A d \in Conns : conn'[d].fd = conn[d].fd
    <3>1. CASE Drained(c)
      BY <3>1 DEF Drained, shared
    <3>2. CASE Closed(c)
      BY <3>2 DEF Closed, TypeOK, ConnOK, Connections
    <3>3. QED
      BY <1>4, <3>1, <3>2
  <2>2. /\ \A d \in Conns \ {c} : reader'[d] = reader[d] /\ writer'[d] = writer[d]
        /\ Closes(c)
    BY <1>4 DEF Drained, Closed, ReaderAt, WriterAt, Closes, TypeOK, ReaderOK, WriterOK
  <2>3. ~conn'[c].fd
    BY <2>1, <2>2 DEF SemInv, Shut
  <2>4. QED
    BY <2>1, <2>2, <2>3 DEF Counted, Left, Taking, Closes
<1>5. QED
  BY <1>1, <1>2, <1>3, <1>4 DEF CloseStep

LEMMA WriterCounts ==
  ASSUME TypeOK, NEW c \in Conns, WriterStep(c)
  PROVE  Counted
<1>1. CASE WriterWaits(c)
  <2>1. /\ UNCHANGED <<output, conn, reader>>
        /\ writer[c].pc = "wait" /\ writer'[c].pc = "take" /\ output_sem'[c] = output_sem[c] - 1
        /\ \A d \in Conns \ {c} : output_sem'[d] = output_sem[d] /\ writer'[d] = writer[d]
    BY <1>1 DEF WriterWaits, WriterAt, TypeOK, WriterOK, SemOK
  <2>2. output_sem[c] \in Int /\ Len(output[c]) \in Int
    BY DEF TypeOK, SemOK, OutputOK, Queues
  <2>3. Left(c)' + Taking(c)' = Left(c) + Taking(c)
    BY <2>1, <2>2 DEF Left, Taking
  <2>4. Closes(c)' => Closes(c)
    BY <2>1 DEF Closes
  <2>5. \A d \in Conns \ {c} : /\ Left(d)' + Taking(d)' = Left(d) + Taking(d)
                               /\ Closes(d)' => Closes(d)
    BY <2>1 DEF Left, Taking, Closes
  <2>6. QED
    BY <2>1, <2>3, <2>4, <2>5 DEF Counted
<1>2. CASE WriterFindsNull(c)
  BY <1>2, EndsCounts DEF WriterFindsNull
<1> DEFINE q == [output EXCEPT ![c] = comm_buf_from_queue(@)]
<1>3. ASSUME output[c] # <<>>, writer[c].pc = "take", writer'[c].pc \in {"wait", "free"},
             \A d \in Conns : Left(d)' = output_sem[d] - Len(q[d]),
             \A d \in Conns \ {c} : writer'[d] = writer[d],
             UNCHANGED <<conn, reader>>
      PROVE  Counted
  <2>1. output[c] \in Seq(Buffers) /\ output_sem[c] \in Int
    BY DEF TypeOK, SemOK, OutputOK, Queues
  <2>2. Len(q[c]) = Len(output[c]) - 1 /\ Len(output[c]) \in Int
    BY <1>3, <2>1 DEF TypeOK, OutputOK, Queues, comm_buf_from_queue
  <2>3. \A d \in Conns \ {c} : q[d] = output[d]
    BY DEF TypeOK, OutputOK, Queues
  <2> HIDE DEF q
  <2>4. Taking(c) = 1 /\ Taking(c)' = 0
    BY <1>3 DEF Taking
  <2>5. Left(c)' = output_sem[c] - (Len(output[c]) - 1)
    BY <1>3, <2>2
  <2>6. Left(c)' + Taking(c)' = Left(c) + Taking(c)
    BY <2>1, <2>2, <2>4, <2>5 DEF Left
  <2>7. \A d \in Conns \ {c} : Left(d)' + Taking(d)' = Left(d) + Taking(d)
    BY <1>3, <2>3 DEF Left, Taking
  <2>8. \A d \in Conns : Closes(d)' => Closes(d)
    BY <1>3 DEF Closes
  <2>9. QED
    BY <1>3, <2>6, <2>7, <2>8 DEF Counted
<1>4. CASE WriterSkips(c)
  <2>1. /\ output[c] # <<>> /\ writer[c].pc = "take" /\ writer'[c].pc = "wait"
        /\ \A d \in Conns \ {c} : writer'[d] = writer[d]
        /\ UNCHANGED <<conn, reader>>
        /\ Free(First(c), buf, mem, q)
    BY <1>4 DEF WriterSkips, WriterAt, WriterIdle, TypeOK, WriterOK
  <2>2. First(c) \in Buffers /\ q \in Queues
    BY <2>1, DequeuedOK DEF TypeOK, OutputOK, First
  <2>3. \A d \in Conns : Left(d)' = output_sem[d] - Len(q[d])
    BY <2>1, <2>2, FreeCounts DEF TypeOK, BufOK, MemOK
  <2>4. QED
    BY <1>3, <2>1, <2>3
<1>5. CASE WriterWrites(c)
  <2>1. /\ output[c] # <<>> /\ writer[c].pc = "take" /\ writer'[c].pc = "free"
        /\ \A d \in Conns \ {c} : writer'[d] = writer[d]
        /\ UNCHANGED <<conn, reader, output_sem>> /\ output' = q
    BY <1>5 DEF WriterWrites, WriterAt, TypeOK, WriterOK
  <2>2. \A d \in Conns : Left(d)' = output_sem[d] - Len(q[d])
    BY <2>1 DEF Left
  <2>3. QED
    BY <1>3, <2>1, <2>2
<1>6. CASE WriterFrees(c)
  <2>1. /\ writer[c].pc = "free" /\ writer'[c].pc = "wait"
        /\ \A d \in Conns \ {c} : writer'[d] = writer[d]
        /\ UNCHANGED <<conn, reader>>
        /\ Free(writer[c].b, buf, mem, output) /\ writer[c].b \in Buffers
    BY <1>6 DEF WriterFrees, WriterAt, WriterIdle, TypeOK, WriterOK
  <2>2. \A d \in Conns : Left(d)' = Left(d)
    BY <2>1, FreeCounts DEF TypeOK, BufOK, MemOK, OutputOK, Left
  <2>3. \A d \in Conns : Taking(d)' = Taking(d) /\ (Closes(d)' => Closes(d))
    BY <2>1 DEF Taking, Closes
  <2>4. QED
    BY <2>1, <2>2, <2>3 DEF Counted
<1>7. CASE WriterFails(c)
  <2>1. /\ \A d \in Conns \ {c} : /\ writer'[d] = writer[d] /\ output'[d] = output[d]
                                  /\ conn'[d] = conn[d]
        /\ UNCHANGED <<reader, output_sem>> /\ ~conn'[c].fd
    BY <1>7 DEF WriterFails, TypeOK, WriterOK, OutputOK, Queues, ConnOK, Connections
  <2>2. QED
    BY <2>1 DEF Counted, Left, Taking, Closes
<1>8. QED
  BY <1>1, <1>2, <1>4, <1>5, <1>6, <1>7 DEF WriterStep

LEMMA WorkerCounts ==
  ASSUME TypeOK, Own, NEW w \in Workers, WorkerStep(w)
  PROVE  Counted
<1>1. UNCHANGED <<reader, writer>>
  BY ZenonT(60) DEF WorkerStep, WorkerTakes, Resizes, EventAsks, EventDecides, AnswerUpdates, Asks,
     AnswerSends, WorkerFrees, WorkerSends, WorkerParks, InitWakes, InitFrees, InitClears
<1>2. \A d \in Conns : Closes(d)' => Closes(d)
  BY <1>1 DEF Closes
<1>3. CASE \/ WorkerTakes(w) \/ EventAsks(w) \/ EventDecides(w) \/ AnswerUpdates(w)
           \/ WorkerParks(w) \/ InitWakes(w)
  <2>1. UNCHANGED <<output, output_sem, conn>>
    BY <1>3, ZenonT(60) DEF WorkerTakes, EventAsks, EventDecides, AnswerUpdates, Asks, WorkerParks, InitWakes
  <2>2. QED
    BY <1>1, <1>2, <2>1, CountsKept
<1>4. CASE InitClears(w)
  <2>1. UNCHANGED <<output, output_sem>> /\ \A d \in Conns : conn'[d].fd = conn[d].fd
    BY <1>4 DEF InitClears, TypeOK, ConnOK, Connections
  <2>2. QED
    BY <1>1, <1>2, <2>1, CountsKept
<1>5. CASE WorkerFrees(w) \/ InitFrees(w)
  <2>1. /\ worker[w].b \in Buffers /\ Free(worker[w].b, buf, mem, output)
        /\ UNCHANGED conn
    BY <1>5 DEF WorkerFrees, InitFrees, WorkerAt, TypeOK, WorkerOK
  <2>2. \A d \in Conns : Left(d)' = Left(d)
    BY <2>1, FreeCounts DEF TypeOK, BufOK, MemOK, OutputOK, Left
  <2>3. QED
    BY <1>1, <1>2, <2>1, <2>2, CountsFreed
<1>6. CASE Resizes(w)
  <2> DEFINE b == worker[w].b
             n == Fresh(mem)
             bufs == Resized(b, n)
  <2>1. /\ worker[w].pc = "got" /\ Available(mem) /\ UNCHANGED conn
        /\ Free(b, bufs, Taken(mem), output)
    BY <1>6 DEF Resizes, Locks, WorkerAt, Resized
  <2>2. b \in Buffers
    BY <2>1 DEF TypeOK, WorkerOK
  <2>3. n \in Buffers /\ Taken(mem) \in Memory
    BY <2>1, TakenOK DEF TypeOK, MemOK
  <2> HIDE DEF b, n
  <2>4. bufs \in [Buffers -> Contents]
    BY <2>2, <2>3, ResizedOK
  <2> HIDE DEF bufs
  <2>5. \A d \in Conns : Left(d)' = Left(d)
    BY <2>1, <2>2, <2>3, <2>4, FreeCounts DEF TypeOK, OutputOK, Left
  <2>6. QED
    BY <1>1, <1>2, <2>1, <2>5, CountsFreed
<1>7. ASSUME NEW c \in Conns \cup {None}, NEW r \in Buffers, UNCHANGED conn,
             output' = [output EXCEPT ![c] = comm_buf_to_queue(@, r)],
             output_sem' = [output_sem EXCEPT ![c] = @ + 1]
      PROVE  Counted
  <2>1. \A d \in Conns : Left(d)' = Left(d)
    BY <1>7, SentCounts DEF TypeOK, OutputOK, Left
  <2>2. QED
    BY <1>1, <1>2, <1>7, <2>1, CountsFreed
<1>8. CASE AnswerSends(w)
  <2>1. PICK b \in Buffers :
          /\ Available(mem)
          /\ output' = [output EXCEPT ![buf[b].comm] = comm_buf_to_queue(@, Fresh(mem))]
          /\ output_sem' = [output_sem EXCEPT ![buf[b].comm] = @ + 1]
    BY <1>8, Zenon DEF AnswerSends
  <2>2. buf[b].comm \in Conns \cup {None} /\ Fresh(mem) \in Buffers /\ UNCHANGED conn
    BY <1>8, <2>1, TakenOK DEF AnswerSends, TypeOK, MemOK, BufOK, Contents
  <2>3. QED
    BY <1>7, <2>1, <2>2
<1>9. CASE WorkerSends(w)
  <2>1. /\ worker[w].pc = "send" /\ UNCHANGED conn
        /\ output' = [output EXCEPT ![buf[worker[w].r].comm] = comm_buf_to_queue(@, worker[w].r)]
        /\ output_sem' = [output_sem EXCEPT ![buf[worker[w].r].comm] = @ + 1]
    BY <1>9 DEF WorkerSends, WorkerAt
  <2>2. worker[w].r \in Buffers /\ buf[worker[w].r].comm \in Conns \cup {None}
    BY <2>1 DEF TypeOK, WorkerOK, BufOK, Contents
  <2>3. QED
    BY <1>7, <2>1, <2>2
<1>10. QED
  BY <1>3, <1>4, <1>5, <1>6, <1>8, <1>9 DEF WorkerStep

LEMMA NextSem == TypeOK /\ TypeOK' /\ Own /\ SemInv /\ [Next]_vars => SemInv'
<1> SUFFICES ASSUME TypeOK, TypeOK', Own, SemInv, [Next]_vars PROVE SemInv'
  OBVIOUS
<1>1. CASE UNCHANGED vars
  BY <1>1, CountsKept, CountedInv DEF vars, shared, Closes
<1>2. ASSUME NEW c \in Conns,
             \/ KernelMoves(c) \/ ReadsAnswer(c) \/ ReaderStep(c)
             \/ CloseStep(c) \/ WriterStep(c)
      PROVE  SemInv'
  BY <1>2, KernelCounts, ReaderCounts, CloseCounts, WriterCounts, CountedInv
<1>3. ASSUME NEW w \in Workers, WorkerStep(w) PROVE SemInv'
  BY <1>3, WorkerCounts, CountedInv
<1>4. CASE MainReturns
  BY <1>4, EndsCounts, CountedInv DEF MainReturns
<1>5. QED
  BY <1>1, <1>2, <1>3, <1>4 DEF Next, Done

LEMMA InitSem == Init => SemInv
<1> SUFFICES ASSUME Init, NEW c \in Conns
             PROVE  /\ output_sem[c] + Taking(c) = Len(output[c])
                    /\ ~Closes(c)
  BY DEF SemInv, SemCounts, Shut, Taking
<1>1. reader[c].pc = "get" /\ writer[c].pc = "wait"
  BY DEF Init, ReaderIdle, WriterIdle
<1>2. output_sem[c] = 0 /\ Len(output[c]) = 0
  BY DEF Init
<1>3. QED
  BY <1>1, <1>2 DEF Taking, Closes

(* As long as a connection is open, its writer's semaphore counts what is  *)
(* queued for it: sem_wait() in the writer is followed by a dequeue that   *)
(* finds a buffer (comm_buf_output_enqueue(), comm_buf_output_dequeue(),   *)
(* write_loop()), with any number of threads that send.                    *)
THEOREM SemaphoreCounts == Spec => []SemCounts
<1>1. TypeOK /\ Own /\ (TypeOK /\ Own)' /\ SemInv /\ [Next]_vars => SemInv'
  BY NextSem
<1>2. SemInv => SemCounts
  BY DEF SemInv
<1>3. QED
  BY <1>1, <1>2, InitSem, OwnInvariant, PTL DEF Spec


-----------------------------------------------------------------------------
(* A request's handlers are begun once.  A query is in the hands of its    *)
(* reader, then in one buffer; once do_event() has begun, either do_phase  *)
(* says so or the worker that saves it still holds b->lock.                *)

Unbegun(r) == started[r] = 0 /\ \A b \in Buffers : buf[b].req # r

Begun(b) == buf[b].phase # 0 \/ buf[b].lock # None

ReadOnce ==
  \A c \in Conns : reader[c].pc = "query" =>
    /\ reader[c].msg \in seen /\ ConnOf[reader[c].msg] = c
    /\ Unbegun(reader[c].msg)

UnseenUnbegun == \A r \in Requests \ seen : Unbegun(r)

OneBuffer ==
  \A a, b \in Buffers : buf[a].req = buf[b].req /\ buf[a].req # None => a = b

Marked ==
  /\ started \in [Requests -> {0, 1}]
  /\ \A b \in Buffers : buf[b].req \in Requests /\ started[buf[b].req] = 1 => Begun(b)

BeginInv == ReadOnce /\ UnseenUnbegun /\ OneBuffer /\ Marked

(* The contents of a buffer that carries a request stay, or move to another *)
(* buffer (f says where from); a worker that begins locks the buffer or    *)
(* saves do_phase.                                                         *)
SameQueries ==
  /\ seen' = seen
  /\ \A c \in Conns : reader'[c].pc = "query" =>
       reader[c].pc = "query" /\ reader'[c].msg = reader[c].msg

Carried(f) ==
  /\ f \in [Buffers -> Buffers]
  /\ \A b \in Buffers : buf'[b].req # None =>
       /\ buf'[b].req = buf[f[b]].req
       /\ Begun(f[b]) => Begun(b)'
       /\ \A a \in Buffers : buf'[a].req # None /\ f[a] = f[b] => a = b

LEMMA CarriedInv ==
  ASSUME TypeOK, BeginInv, SameQueries, UNCHANGED started, NEW f, Carried(f)
  PROVE  BeginInv'
<1>1. \A r \in Requests : Unbegun(r) => Unbegun(r)'
  <2>1. None \notin Requests
    BY CommAssumption
  <2>2. QED
    BY <2>1 DEF Unbegun, Carried
<1>2. ReadOnce'
  BY <1>1 DEF BeginInv, ReadOnce, SameQueries, TypeOK, ReaderOK
<1>3. UnseenUnbegun'
  BY <1>1 DEF BeginInv, UnseenUnbegun, SameQueries
<1>4. OneBuffer'
  BY DEF BeginInv, OneBuffer, Carried
<1>5. Marked'
  <2>1. None \notin Requests
    BY CommAssumption
  <2>2. QED
    BY <2>1 DEF BeginInv, Marked, Carried
<1>6. QED
  BY <1>2, <1>3, <1>4, <1>5 DEF BeginInv

(* Every buffer keeps its contents or is given back.                       *)
LEMMA StayedInv ==
  ASSUME TypeOK, BeginInv, SameQueries, UNCHANGED started,
         \A b \in Buffers : \/ buf'[b].req = None
                            \/ buf'[b].req = buf[b].req /\ (Begun(b) => Begun(b)')
  PROVE  BeginInv'
<1> DEFINE f == [b \in Buffers |-> b]
<1>1. Carried(f)
  BY DEF Carried
<1>2. QED
  BY <1>1, CarriedInv

LEMMA SameBufInv ==
  ASSUME TypeOK, BeginInv, SameQueries, UNCHANGED <<started, buf>>
  PROVE  BeginInv'
BY StayedInv DEF Begun

LEMMA EndsBegin == ASSUME TypeOK, BeginInv, NEW how, Ends(how) PROVE BeginInv'
BY SameBufInv DEF Ends, SameQueries, shared, kernel, history

(* comm_buf_free() *)
LEMMA FreeCarries ==
  ASSUME NEW b \in Buffers, NEW bufs \in [Buffers -> Contents], NEW m \in Memory,
         NEW out, Free(b, bufs, m, out)
  PROVE  /\ \A a \in Buffers : buf'[a].req = None \/ buf'[a] = bufs[a]
         /\ buf'[b].req = None
<1>1. Blank.req = None
  BY DEF Blank
<1>2. \A c, x : Outgoing(c, x).req = None
  BY DEF Outgoing, For, Blank
<1>3. CASE SendsReady(b)
  <2>1. /\ Available(m)
        /\ buf' = [bufs EXCEPT ![b] = Blank,
                     ![Fresh(m)] = Outgoing(bufs[b].comm, [kind |-> "ready"])]
    BY <1>3 DEF Free
  <2>2. Fresh(m) \in Buffers
    BY <2>1, TakenOK
  <2>3. \A a \in Buffers : \/ buf'[a] = Blank
                           \/ buf'[a] = Outgoing(bufs[b].comm, [kind |-> "ready"])
                           \/ a # b /\ buf'[a] = bufs[a]
    BY <2>1, <2>2
  <2>4. QED
    BY <1>1, <1>2, <2>3
<1>4. CASE ~SendsReady(b)
  <2>1. buf' = [bufs EXCEPT ![b] = Blank]
    BY <1>4 DEF Free
  <2>2. QED
    BY <1>1, <2>1
<1>5. QED
  BY <1>3, <1>4

LEMMA FreeBegin ==
  ASSUME TypeOK, BeginInv, SameQueries, UNCHANGED started, NEW b \in Buffers,
         NEW out, Free(b, buf, mem, out)
  PROVE  BeginInv'
<1>1. \A a \in Buffers : buf'[a].req = None \/ buf'[a] = buf[a]
  BY FreeCarries DEF TypeOK, BufOK, MemOK
<1>2. QED
  BY <1>1, StayedInv DEF Begun


LEMMA KernelBegin ==
  ASSUME TypeOK, BeginInv, NEW c \in Conns, KernelMoves(c) \/ ReadsAnswer(c)
  PROVE  BeginInv'
<1>1. ASSUME NEW pc, NEW msg, Reads(c, pc, msg), pc # "query", seen' = seen
      PROVE  BeginInv'
  <2>1. UNCHANGED <<buf, started>>
    BY <1>1 DEF Reads, shared, history
  <2>2. SameQueries
    BY <1>1 DEF Reads, SameQueries, TypeOK, ReaderOK, Readers
  <2>3. QED
    BY <2>1, <2>2, SameBufInv
<1>2. CASE ReadsQuery(c)
  <2>1. PICK r \in Requests \ seen :
          ConnOf[r] = c /\ seen' = seen \cup {r} /\ Reads(c, "query", r)
    BY <1>2 DEF ReadsQuery
  <2>2. UNCHANGED <<buf, started>>
    BY <2>1 DEF Reads, shared, history
  <2>3. \A s : Unbegun(s) => Unbegun(s)'
    BY <2>2 DEF Unbegun
  <2>4. ReadOnce'
    <3>1. /\ reader'[c].msg = r
          /\ \A d \in Conns \ {c} : reader'[d] = reader[d]
      BY <2>1 DEF Reads, TypeOK, ReaderOK, Readers
    <3>2. Unbegun(r)'
      BY <2>1, <2>3 DEF BeginInv, UnseenUnbegun
    <3>3. QED
      BY <2>1, <2>3, <3>1, <3>2 DEF BeginInv, ReadOnce
  <2>5. UnseenUnbegun'
    BY <2>1, <2>3 DEF BeginInv, UnseenUnbegun
  <2>6. OneBuffer' /\ Marked'
    BY <2>2 DEF BeginInv, OneBuffer, Marked, Begun
  <2>7. QED
    BY <2>4, <2>5, <2>6 DEF BeginInv
<1>3. CASE ReadFails(c)
  <2>1. UNCHANGED <<buf, started>> /\ SameQueries
    BY <1>3 DEF ReadFails, SameQueries, kernel, history, TypeOK, ReaderOK, Readers
  <2>2. QED
    BY <2>1, SameBufInv
<1>4. CASE ReadsReadyRequest(c) \/ ReadsStrayAnswer(c)
  <2>1. PICK pc, msg : pc \in {"ready", "answer"} /\ Reads(c, pc, msg)
    <3>1. CASE ReadsReadyRequest(c)
      BY <3>1 DEF ReadsReadyRequest
    <3>2. CASE ReadsStrayAnswer(c)
      <4>1. \E m : Reads(c, "answer", m)
        BY <3>2 DEF ReadsStrayAnswer
      <4>2. QED
        BY <4>1
    <3>3. QED
      BY <1>4, <3>1, <3>2
  <2>2. seen' = seen
    BY <1>4 DEF ReadsReadyRequest, ReadsStrayAnswer, kernel
  <2>3. QED
    BY <1>1, <2>1, <2>2
<1>5. CASE ReadsAnswer(c)
  <2>1. PICK msg : Reads(c, "answer", msg)
    BY <1>5 DEF ReadsAnswer
  <2>2. seen' = seen
    BY <1>5 DEF ReadsAnswer
  <2>3. QED
    BY <1>1, <2>1, <2>2
<1>6. QED
  BY <1>2, <1>3, <1>4, <1>5 DEF KernelMoves

LEMMA ConnInitBegin ==
  ASSUME TypeOK, BeginInv, SameQueries, UNCHANGED started, NEW c \in Conns, ConnInit(c, buf)
  PROVE  BeginInv'
<1>1. InitBuffer(c, Fresh(mem)).req = None
  BY DEF InitBuffer, For, Blank
<1>2. \A b \in Buffers : buf'[b].req = None \/ buf'[b] = buf[b]
  BY <1>1 DEF ConnInit, TypeOK, BufOK
<1>3. QED
  BY <1>2, StayedInv DEF Begun

(* The query is put into the reader's buffer.                              *)
LEMMA QueryBegin ==
  ASSUME TypeOK, BeginInv, NEW c \in Conns, QueryWaits(c) \/ QueryPasses(c)
  PROVE  BeginInv'
<1> DEFINE b0 == reader[c].b
           r == reader[c].msg
<1>1. /\ reader[c].pc = "query" /\ UNCHANGED <<seen, started>>
      /\ \A d \in Conns : reader'[d].pc = "query" => d # c /\ reader'[d] = reader[d]
  BY DEF QueryWaits, QueryPasses, ReaderAt, kernel, history, TypeOK, ReaderOK, Readers
<1>2. b0 \in Buffers /\ r \in Requests
  BY <1>1 DEF TypeOK, ReaderOK, Owning
<1>3. /\ \A b \in Buffers : /\ buf'[b].req = IF b = b0 THEN r ELSE buf[b].req
                            /\ buf'[b].phase = buf[b].phase /\ buf'[b].lock = buf[b].lock
  <2>1. CASE QueryPasses(c)
    BY <2>1 DEF QueryPasses, TypeOK, BufOK, Contents
  <2>2. CASE QueryWaits(c)
    <3> DEFINE i == conn[c].init_buffer
               x == [buf EXCEPT ![b0].req = r]
    <3>1. buf' = [x EXCEPT ![i] = [x[i] EXCEPT !.to_wake = comm_buf_to_queue(@, b0)]]
      BY <2>2 DEF QueryWaits
    <3>2. /\ x \in [Buffers -> Contents]
          /\ \A b \in Buffers : /\ x[b].req = IF b = b0 THEN r ELSE buf[b].req
                                /\ x[b].phase = buf[b].phase /\ x[b].lock = buf[b].lock
      <4>1. [buf[b0] EXCEPT !.req = r] \in Contents
        BY <1>2, ReqSet DEF TypeOK, BufOK
      <4>2. x = [buf EXCEPT ![b0] = [buf[b0] EXCEPT !.req = r]]
        OBVIOUS
      <4>3. QED
        BY <1>2, <4>1, <4>2 DEF TypeOK, BufOK, Contents
    <3> HIDE DEF x, i, b0
    <3>3. \A b \in Buffers : /\ buf'[b].req = x[b].req
                             /\ buf'[b].phase = x[b].phase /\ buf'[b].lock = x[b].lock
      BY <3>1, <3>2 DEF Contents
    <3>4. QED
      BY <3>2, <3>3
  <2>3. QED
    BY <2>1, <2>2
<1>4. r \in seen /\ ConnOf[r] = c /\ Unbegun(r)
  BY <1>1 DEF BeginInv, ReadOnce
<1> HIDE DEF b0, r
<1>5. \A s \in Requests : s # r /\ Unbegun(s) => Unbegun(s)'
  BY <1>1, <1>3 DEF Unbegun
<1>6. ReadOnce'
  BY <1>1, <1>4, <1>5 DEF BeginInv, ReadOnce, TypeOK, ReaderOK
<1>7. UnseenUnbegun'
  BY <1>1, <1>4, <1>5 DEF BeginInv, UnseenUnbegun
<1>8. OneBuffer'
  BY <1>3, <1>4 DEF BeginInv, OneBuffer, Unbegun
<1>9. Marked'
  BY <1>1, <1>2, <1>3, <1>4 DEF BeginInv, Marked, Begun, Unbegun
<1>10. QED
  BY <1>6, <1>7, <1>8, <1>9 DEF BeginInv

LEMMA WakeBegin ==
  ASSUME TypeOK, BeginInv, SameQueries, UNCHANGED started, NEW p, NEW out, Wake(p, out)
  PROVE  BeginInv'
<1> DEFINE x == [buf[p] EXCEPT !.user_data = out]
<1>1. buf' = [buf EXCEPT ![p] = [x EXCEPT !.waiting.to = None]]
  BY DEF Wake, TypeOK, BufOK
<1>2. \A b \in Buffers : /\ buf'[b].req = buf[b].req
                         /\ buf'[b].phase = buf[b].phase /\ buf'[b].lock = buf[b].lock
  BY <1>1 DEF TypeOK, BufOK, Contents
<1>3. QED
  BY <1>2, StayedInv DEF Begun

LEMMA ReaderBegin ==
  ASSUME TypeOK, BeginInv, NEW c \in Conns, ReaderStep(c)
  PROVE  BeginInv'
<1>1. CASE QueryWaits(c) \/ QueryPasses(c)
  BY <1>1, QueryBegin
<1>2. CASE QueryDangles(c) \/ AnswerUnexpected(c)
  BY <1>2, EndsBegin DEF QueryDangles, AnswerUnexpected
<1>3. CASE ReaderChecks(c)
  <2>1. CASE Ends("undefined")
    BY <2>1, EndsBegin
  <2>2. CASE ~Ends("undefined")
    <3>1. UNCHANGED <<buf, started>> /\ SameQueries
      BY <1>3, <2>2 DEF ReaderChecks, SameQueries, shared, kernel, history, ReaderIdle, TypeOK, ReaderOK
    <3>2. QED
      BY <3>1, SameBufInv
  <2>3. QED
    BY <2>1, <2>2
<1>4. CASE QueryRefused(c) \/ InitRefused(c) \/ QueryQueued(c) \/ FetchFailed(c) \/ FetchAnswered(c)
  <2>1. UNCHANGED <<buf, started>> /\ SameQueries
    BY <1>4 DEF QueryRefused, InitRefused, QueryQueued, FetchFailed, FetchAnswered, SameQueries, kernel,
                history, TypeOK, ReaderOK, Readers
  <2>2. QED
    BY <2>1, SameBufInv
<1>5. CASE UpdateAnswered(c) \/ FetchDone(c)
  <2>1. UNCHANGED started /\ SameQueries
    BY <1>5 DEF UpdateAnswered, FetchDone, SameQueries, kernel, history, TypeOK, ReaderOK, Readers
  <2>2. QED
    BY <1>5, <2>1, WakeBegin DEF UpdateAnswered, FetchDone
<1>6. CASE ReadyRequest(c) \/ QueryInits(c)
  <2>1. UNCHANGED started /\ SameQueries /\ ConnInit(c, buf)
    BY <1>6 DEF ReadyRequest, QueryInits, SameQueries, kernel, history, TypeOK, ReaderOK, Readers
  <2>2. QED
    BY <2>1, ConnInitBegin
<1>7. CASE ReaderGets(c) \/ ReadyAnswer(c)
  <2>1. UNCHANGED started /\ SameQueries
    BY <1>7 DEF ReaderGets, ReadyAnswer, SameQueries, kernel, history, TypeOK, ReaderOK, Readers
  <2>2. For(c).req = None /\ \A m : Outgoing(c, m).req = None
    BY DEF Outgoing, For, Blank
  <2>3. \A b \in Buffers : buf'[b].req = None \/ buf'[b] = buf[b]
    BY <1>7, <2>2 DEF ReaderGets, ReadyAnswer, TypeOK, BufOK
  <2>4. QED
    BY <2>1, <2>3, StayedInv DEF Begun
<1>8. CASE ReaderFrees(c) \/ ReaderFails(c)
  <2>1. UNCHANGED started /\ SameQueries
    <3>1. CASE ReaderFrees(c)
      BY <3>1 DEF ReaderFrees, SameQueries, kernel, history, ReaderIdle, TypeOK, ReaderOK
    <3>2. CASE ReaderFails(c)
      BY <3>2 DEF ReaderFails, SameQueries, kernel, history, ReaderIdle, TypeOK, ReaderOK
    <3>3. QED
      BY <1>8, <3>1, <3>2
  <2>2. reader[c].b \in Buffers /\ Free(reader[c].b, buf, mem, output)
    BY <1>8 DEF ReaderFrees, ReaderFails, ReaderAt, TypeOK, ReaderOK, Owning
  <2>3. QED
    BY <2>1, <2>2, FreeBegin
<1>9. QED
  BY <1>1, <1>2, <1>3, <1>4, <1>5, <1>6, <1>7, <1>8 DEF ReaderStep

LEMMA CloseBegin ==
  ASSUME TypeOK, BeginInv, NEW c \in Conns, CloseStep(c)
  PROVE  BeginInv'
<1>1. CASE CloseRelocks(c)
  BY <1>1, EndsBegin DEF CloseRelocks
<1>2. CASE CloseOutput(c)
  <2>1. UNCHANGED started /\ SameQueries
    BY <1>2 DEF CloseOutput, SameQueries, kernel, history
  <2>2. Head(output[c]) \in Buffers
    BY <1>2, DequeuedOK DEF CloseOutput, TypeOK, OutputOK
  <2>3. PICK out : Free(Head(output[c]), buf, mem, out)
    BY <1>2 DEF CloseOutput
  <2>4. QED
    BY <2>1, <2>2, <2>3, FreeBegin
<1>3. CASE CloseWait(c)
  <2>1. UNCHANGED started /\ SameQueries
    BY <1>3 DEF CloseWait, SameQueries, kernel, history
  <2>2. Head(wait[c]) \in Buffers /\ Free(Head(wait[c]), buf, mem, output)
    BY <1>3, DequeuedOK DEF CloseWait, TypeOK, WaitOK
  <2>3. QED
    BY <2>1, <2>2, FreeBegin
<1>4. CASE Drained(c) \/ Closed(c)
  <2>1. UNCHANGED <<buf, started>> /\ SameQueries
    BY <1>4 DEF Drained, Closed, SameQueries, shared, kernel, history, TypeOK, ReaderOK, Readers
  <2>2. QED
    BY <2>1, SameBufInv
<1>5. QED
  BY <1>1, <1>2, <1>3, <1>4 DEF CloseStep

LEMMA WriterBegin ==
  ASSUME TypeOK, BeginInv, NEW c \in Conns, WriterStep(c)
  PROVE  BeginInv'
<1>1. CASE WriterFindsNull(c)
  BY <1>1, EndsBegin DEF WriterFindsNull
<1>2. CASE WriterWaits(c) \/ WriterWrites(c) \/ WriterFails(c)
  <2>1. UNCHANGED <<buf, started>> /\ SameQueries
    BY <1>2 DEF WriterWaits, WriterWrites, WriterFails, Delivers, SameQueries, kernel, history
  <2>2. QED
    BY <2>1, SameBufInv
<1>3. CASE WriterSkips(c)
  <2>1. UNCHANGED started /\ SameQueries
    BY <1>3 DEF WriterSkips, SameQueries, kernel, history
  <2>2. First(c) \in Buffers
    BY <1>3, DequeuedOK DEF WriterSkips, First, TypeOK, OutputOK
  <2>3. PICK out : Free(First(c), buf, mem, out)
    BY <1>3 DEF WriterSkips
  <2>4. QED
    BY <2>1, <2>2, <2>3, FreeBegin
<1>4. CASE WriterFrees(c)
  <2>1. UNCHANGED started /\ SameQueries
    BY <1>4 DEF WriterFrees, SameQueries, kernel, history
  <2>2. writer[c].b \in Buffers /\ Free(writer[c].b, buf, mem, output)
    BY <1>4 DEF WriterFrees, WriterAt, TypeOK, WriterOK
  <2>3. QED
    BY <2>1, <2>2, FreeBegin
<1>5. QED
  BY <1>1, <1>2, <1>3, <1>4 DEF WriterStep


(* do_event() begins, or goes on: afterwards the buffer is locked or has a *)
(* do_phase.                                                               *)
LEMMA BeginsBegin ==
  ASSUME TypeOK, BeginInv, SameQueries, NEW b \in Buffers, buf[b].lock = None, Begins(b),
         \A a \in Buffers \ {b} : buf'[a].req = None \/ buf'[a] = buf[a],
         buf'[b].req = buf[b].req, Begun(b)'
  PROVE  BeginInv'
<1> DEFINE q == buf[b].req
<1>1. CASE buf[b].phase = 0 /\ ~buf[b].init /\ q \in Requests
  <2>1. started[q] = 0
    BY <1>1 DEF BeginInv, Marked, Begun
  <2>2. started' = [started EXCEPT ![q] = 1]
    BY <1>1, <2>1 DEF Begins
  <2>3. q # None
    BY <1>1, CommAssumption
  <2>4. \A a \in Buffers \ {b} : buf[a].req # q
    BY <2>3 DEF BeginInv, OneBuffer
  <2>5. \A a \in Buffers \ {b} : buf'[a].req # q
    BY <2>3, <2>4
  <2> HIDE DEF q
  <2>6. \A r \in Requests : Unbegun(r) => r # q
    BY DEF Unbegun, q
  <2>7. \A r \in Requests : Unbegun(r) => Unbegun(r)'
    <3>1. None \notin Requests
      BY CommAssumption
    <3>2. ASSUME NEW r \in Requests, Unbegun(r) PROVE Unbegun(r)'
      <4>1. started'[r] = 0
        BY <2>2, <2>6, <3>2 DEF BeginInv, Marked, Unbegun
      <4>2. \A a \in Buffers : buf'[a].req # r
        BY <3>1, <3>2 DEF Unbegun
      <4>3. QED
        BY <4>1, <4>2 DEF Unbegun
    <3>3. QED
      BY <3>2
  <2>8. ReadOnce'
    BY <2>7 DEF BeginInv, ReadOnce, SameQueries, TypeOK, ReaderOK
  <2>9. UnseenUnbegun'
    BY <2>7 DEF BeginInv, UnseenUnbegun, SameQueries
  <2>10. OneBuffer'
    BY DEF BeginInv, OneBuffer
  <2>11. Marked'
    <3>1. started' \in [Requests -> {0, 1}]
      BY <2>2 DEF BeginInv, Marked
    <3>2. ASSUME NEW a \in Buffers, buf'[a].req \in Requests, started'[buf'[a].req] = 1
          PROVE  Begun(a)'
      <4>1. CASE a = b
        BY <4>1
      <4>2. CASE a # b
        <5>1. buf'[a] = buf[a] /\ buf'[a].req # q
          BY <2>5, <3>2, <4>2, CommAssumption
        <5>2. started[buf[a].req] = 1
          BY <2>2, <3>2, <5>1 DEF BeginInv, Marked
        <5>3. Begun(a)
          BY <3>2, <5>1, <5>2 DEF BeginInv, Marked
        <5>4. QED
          BY <5>1, <5>3 DEF Begun
      <4>3. QED
        BY <4>1, <4>2
    <3>3. QED
      BY <3>1, <3>2 DEF Marked
  <2>12. QED
    BY <2>8, <2>9, <2>10, <2>11 DEF BeginInv
<1>2. CASE ~(buf[b].phase = 0 /\ ~buf[b].init /\ q \in Requests)
  <2>1. started' = started
    BY <1>2 DEF Begins, BeginInv, Marked
  <2>2. QED
    BY <2>1, StayedInv DEF Begun
<1>3. QED
  BY <1>1, <1>2

(* fetch_object() or update_object()                                       *)
LEMMA AsksMarks ==
  ASSUME TypeOK, Own, NEW w \in Workers, NEW b \in Buffers, NEW k0 \in Kinds, NEW phase,
         NEW e \in Conns, Serves(w, b), Asks(w, b, e, k0, phase)
  PROVE  /\ \A a \in Buffers \ {b} : buf'[a].req = None \/ buf'[a] = buf[a]
         /\ buf'[b].req = buf[b].req /\ Begun(b)' /\ buf[b].lock = None
<1> DEFINE r == Fresh(mem)
           op == [comm |-> e, kind |-> k0, seq |-> ids[k0]]
           p == [buf[b] EXCEPT !.lock = w, !.user_data = "error", !.op = op,
                               !.ops = @ + 1, !.waiting = [to |-> k0, seq |-> op.seq]]
           q == Outgoing(e, op)
<1>1. worker[w].pc = "got" /\ worker[w].b = b /\ buf[b].lock = None
  BY Zenon DEF Serves, Locks, WorkerAt
<1>2. Available(mem) /\ buf' = [buf EXCEPT ![b] = p, ![r] = q]
  BY DEF Asks
<1>3. buf[b] \in Contents /\ Holds("worker", w, b)
  BY <1>1, ThreadsHave DEF TypeOK, BufOK
<1>4. p.req = buf[b].req /\ p.lock = w
  BY <1>3 DEF Contents
<1>5. q.req = None
  BY DEF Outgoing, For, Blank
<1> HIDE DEF op, p, q
<1>6. r \in Buffers /\ Holds(Slot(mem), None, r) /\ Slot(mem) # "worker"
  BY <1>2, TakesFresh DEF Slot
<1> HIDE DEF r
<1>7. r # b
  BY <1>3, <1>6 DEF Own, Apart
<1>8. buf'[b] = p /\ \A a \in Buffers \ {b} : buf'[a] = q \/ buf'[a] = buf[a]
  BY <1>2, <1>6, <1>7 DEF TypeOK, BufOK
<1>9. w # None
  BY CommAssumption
<1>10. QED
  BY <1>1, <1>4, <1>5, <1>8, <1>9 DEF Begun

LEMMA WorkerBegin ==
  ASSUME TypeOK, Own, BeginInv, NEW w \in Workers, WorkerStep(w)
  PROVE  BeginInv'
<1>1. SameQueries
  <2>1. UNCHANGED <<reader, kernel>>
    <3>1. CASE WorkerTakes(w) \/ WorkerSends(w) \/ WorkerParks(w)
      BY <3>1 DEF WorkerTakes, WorkerSends, WorkerParks
    <3>2. CASE EventAsks(w) \/ AnswerUpdates(w)
      BY <3>2, ZenonT(60) DEF EventAsks, AnswerUpdates, Asks
    <3>3. CASE EventDecides(w)
      BY <3>3, Zenon DEF EventDecides
    <3>4. CASE Resizes(w) \/ WorkerFrees(w) \/ InitFrees(w)
      BY <3>4 DEF Resizes, WorkerFrees, InitFrees
    <3>5. CASE AnswerSends(w) \/ InitWakes(w) \/ InitClears(w)
      BY <3>5 DEF AnswerSends, InitWakes, InitClears
    <3>6. QED
      BY <3>1, <3>2, <3>3, <3>4, <3>5 DEF WorkerStep
  <2>2. QED
    BY <2>1 DEF SameQueries, kernel
<1>2. CASE WorkerTakes(w) \/ WorkerSends(w) \/ InitClears(w)
  BY <1>1, <1>2, SameBufInv DEF WorkerTakes, WorkerSends, InitClears, history
<1>3. CASE WorkerFrees(w) \/ InitFrees(w)
  <2>1. /\ worker[w].b \in Buffers /\ Free(worker[w].b, buf, mem, output)
        /\ UNCHANGED started
    BY <1>3 DEF WorkerFrees, InitFrees, WorkerAt, TypeOK, WorkerOK, history
  <2>2. QED
    BY <1>1, <2>1, FreeBegin
<1>4. CASE EventAsks(w)
  <2>1. PICK b \in Buffers, k \in Kinds, e \in Conns :
          Serves(w, b) /\ Begins(b) /\ Asks(w, b, e, k, 1)
    BY <1>4 DEF EventAsks
  <2>2. QED
    BY <1>1, <2>1, AsksMarks, BeginsBegin
<1>5. CASE EventDecides(w)
  <2>1. PICK b \in Buffers :
          /\ Serves(w, b) /\ Begins(b)
          /\ IF buf[b].init
             THEN /\ buf' = [buf EXCEPT ![b].phase = 1000]
                  /\ initDone' = initDone \cup {buf[b].comm}
                  /\ UNCHANGED decided
             ELSE \E v \in Verdicts :
                    /\ buf' = [buf EXCEPT ![b] = [@ EXCEPT !.phase = 1000, !.verdict = v]]
                    /\ decided' = [decided EXCEPT ![buf[b].req] = v]
                    /\ UNCHANGED initDone
    BY <1>5, ZenonT(60) DEF EventDecides
  <2>2. buf[b].lock = None
    BY <2>1, Zenon DEF Serves, Locks
  <2>3. /\ \A a \in Buffers \ {b} : buf'[a] = buf[a]
        /\ buf'[b].req = buf[b].req /\ Begun(b)'
    <3>1. CASE buf[b].init
      <4>1. buf' = [buf EXCEPT ![b].phase = 1000]
        BY <2>1, <3>1, Zenon
      <4>2. QED
        BY <4>1 DEF TypeOK, BufOK, Contents, Begun
    <3>2. CASE ~buf[b].init
      <4>1. PICK v \in Verdicts :
              /\ buf' = [buf EXCEPT ![b] = [@ EXCEPT !.phase = 1000, !.verdict = v]]
              /\ decided' = [decided EXCEPT ![buf[b].req] = v]
              /\ UNCHANGED initDone
        BY <2>1, <3>2
      <4>2. QED
        BY <4>1 DEF TypeOK, BufOK, Contents, Begun
    <3>3. QED
      BY <3>1, <3>2
  <2>4. Begins(b)
    BY <2>1, Zenon
  <2>5. QED
    BY <1>1, <2>2, <2>3, <2>4, BeginsBegin
<1>6. CASE AnswerUpdates(w)
  <2>1. PICK b \in Buffers : Serves(w, b) /\ Asks(w, b, buf[b].comm, "update", 1003)
    BY <1>6, Zenon DEF AnswerUpdates
  <2>2. "update" \in Kinds /\ UNCHANGED started
    BY <1>6 DEF Kinds, AnswerUpdates, history
  <2>5. buf[b].comm \in Conns
    BY <2>1, OwnKnown, ServesOK
  <2>3. /\ \A a \in Buffers \ {b} : buf'[a].req = None \/ buf'[a] = buf[a]
        /\ buf'[b].req = buf[b].req /\ Begun(b)'
    BY <2>1, <2>2, <2>5, AsksMarks
  <2>4. QED
    BY <1>1, <2>2, <2>3, StayedInv DEF Begun
<1>7. CASE AnswerSends(w)
  <2>1. PICK b \in Buffers :
          /\ Serves(w, b) /\ Available(mem)
          /\ buf' = [buf EXCEPT ![b].lock = w,
                       ![Fresh(mem)] = Outgoing(buf[b].comm,
                         [kind |-> "answer", req |-> buf[b].req, verdict |-> buf[b].verdict])]
    BY <1>7, Zenon DEF AnswerSends
  <2> DEFINE q == Outgoing(buf[b].comm,
                    [kind |-> "answer", req |-> buf[b].req, verdict |-> buf[b].verdict])
             p == [buf[b] EXCEPT !.lock = w]
  <2>2. q.req = None
    BY DEF Outgoing, For, Blank
  <2>3. p.req = buf[b].req /\ p.lock = w /\ w # None
    <3>1. p.req = buf[b].req /\ p.lock = w
      BY DEF TypeOK, BufOK, Contents
    <3>2. w # None
      BY CommAssumption
    <3>3. QED
      BY <3>1, <3>2
  <2>4. buf' = [buf EXCEPT ![b] = p, ![Fresh(mem)] = q]
    BY <2>1 DEF TypeOK, BufOK
  <2> HIDE DEF p, q
  <2>5. \A a \in Buffers : \/ buf'[a] = q
                           \/ a = b /\ buf'[a] = p
                           \/ a # b /\ buf'[a] = buf[a]
    BY <2>4 DEF TypeOK, BufOK
  <2>6. UNCHANGED started
    BY <1>7 DEF AnswerSends, history
  <2>7. QED
    BY <1>1, <2>2, <2>3, <2>5, <2>6, StayedInv DEF Begun
<1>8. CASE WorkerParks(w)
  <2> DEFINE b == worker[w].b
             x == [buf[b] EXCEPT !.phase = worker[w].phase]
  <2>1. /\ worker[w].pc = "park" /\ UNCHANGED started
        /\ buf' = [buf EXCEPT ![b] = [x EXCEPT !.lock = None]]
    BY <1>8 DEF WorkerParks, WorkerAt, history, TypeOK, BufOK
  <2>2. b \in Buffers /\ worker[w].phase \in Resumes
    BY <2>1 DEF TypeOK, WorkerOK
  <2>3. /\ \A a \in Buffers \ {b} : buf'[a] = buf[a]
        /\ buf'[b].req = buf[b].req /\ buf'[b].phase = worker[w].phase
    BY <2>1, <2>2 DEF TypeOK, BufOK, Contents
  <2>4. worker[w].phase # 0
    BY <2>2 DEF Resumes
  <2>5. QED
    BY <1>1, <2>1, <2>3, <2>4, StayedInv DEF Begun
<1>9. CASE InitWakes(w)
  <2>1. /\ UNCHANGED started
        /\ \A a \in Buffers : /\ buf'[a].req = buf[a].req /\ buf'[a].phase = buf[a].phase
                              /\ buf'[a].lock = buf[a].lock
    BY <1>9 DEF InitWakes, history, TypeOK, BufOK, Contents
  <2>2. QED
    BY <1>1, <2>1, StayedInv DEF Begun
<1>10. CASE Resizes(w)
  <2> DEFINE b == worker[w].b
             n == Fresh(mem)
             bufs == Resized(b, n)
             f == [a \in Buffers |-> IF a = n THEN b ELSE a]
  <2>1. /\ worker[w].pc = "got" /\ Available(mem) /\ UNCHANGED started
        /\ Free(b, bufs, Taken(mem), output)
    BY <1>10 DEF Resizes, Locks, WorkerAt, Resized, history
  <2>2. b \in Buffers /\ n \in Buffers /\ Taken(mem) \in Memory
    BY <2>1, TakenOK DEF TypeOK, MemOK, WorkerOK
  <2>3. n # b
    BY <2>1, ThreadsHave, TakesFresh DEF Own, Apart, Slots
  <2> HIDE DEF b, n
  <2>4. /\ bufs \in [Buffers -> Contents]
        /\ \A a \in Buffers \ {b, n} : bufs[a] = buf[a]
        /\ bufs[n].req = buf[b].req /\ bufs[n].phase = buf[b].phase /\ bufs[n].lock = buf[b].lock
    BY <2>2, <2>3, ResizedOK
  <2> HIDE DEF bufs
  <2>5. /\ \A a \in Buffers : buf'[a].req = None \/ buf'[a] = bufs[a]
        /\ buf'[b].req = None
    BY <2>1, <2>2, <2>4, FreeCarries
  <2>6. Carried(f)
    <3>1. f \in [Buffers -> Buffers] /\ \A a \in Buffers : f[a] = IF a = n THEN b ELSE a
      BY <2>2
    <3> HIDE DEF f
    <3>2. ASSUME NEW a \in Buffers, buf'[a].req # None
          PROVE  /\ buf'[a].req = buf[f[a]].req
                 /\ Begun(f[a]) => Begun(a)'
      BY <2>4, <2>5, <3>1, <3>2 DEF Begun
    <3>3. ASSUME NEW a \in Buffers, buf'[a].req # None, NEW d \in Buffers, buf'[d].req # None,
                 f[d] = f[a]
          PROVE  d = a
      BY <2>5, <3>1, <3>3
    <3>4. QED
      BY <3>1, <3>2, <3>3 DEF Carried
  <2>7. QED
    BY <1>1, <2>1, <2>6, CarriedInv
<1>11. QED
  BY <1>2, <1>3, <1>4, <1>5, <1>6, <1>7, <1>8, <1>9, <1>10 DEF WorkerStep

LEMMA NextBegin == TypeOK /\ Own /\ BeginInv /\ [Next]_vars => BeginInv'
<1> SUFFICES ASSUME TypeOK, Own, BeginInv, [Next]_vars PROVE BeginInv'
  OBVIOUS
<1>1. CASE UNCHANGED vars
  BY <1>1, SameBufInv DEF vars, shared, kernel, history, SameQueries
<1>2. ASSUME NEW c \in Conns,
             \/ KernelMoves(c) \/ ReadsAnswer(c) \/ ReaderStep(c)
             \/ CloseStep(c) \/ WriterStep(c)
      PROVE  BeginInv'
  BY <1>2, KernelBegin, ReaderBegin, CloseBegin, WriterBegin
<1>3. ASSUME NEW w \in Workers, WorkerStep(w) PROVE BeginInv'
  BY <1>3, WorkerBegin
<1>4. CASE MainReturns
  BY <1>4, EndsBegin DEF MainReturns
<1>5. QED
  BY <1>1, <1>2, <1>3, <1>4 DEF Next, Done

LEMMA InitBegin == Init => BeginInv
<1> SUFFICES ASSUME Init PROVE BeginInv
  OBVIOUS
<1>1. \A b \in Buffers : buf[b].req = None
  BY DEF Init, Blank
<1>2. None \notin Requests
  BY CommAssumption
<1>3. \A r \in Requests : Unbegun(r)
  BY <1>1, <1>2 DEF Init, Unbegun
<1>4. ReadOnce
  BY DEF Init, ReadOnce, ReaderIdle
<1>5. Marked
  BY <1>1, <1>2 DEF Init, Marked
<1>6. QED
  BY <1>1, <1>3, <1>4, <1>5 DEF BeginInv, UnseenUnbegun, OneBuffer

(* do_event() begins the handlers of a request at most once, although the  *)
(* buffer goes from worker to worker: a worker that gets it back from the  *)
(* kernel before do_phase was saved waits for b->lock (comm_worker(),      *)
(* do_event()), and no step of a closing connection brings a query back.   *)
THEOREM HandlersBeginOnce == Spec => []BeginsOnce
<1>1. TypeOK /\ Own /\ BeginInv /\ [Next]_vars => BeginInv'
  BY NextBegin
<1>2. BeginInv => BeginsOnce
  BY DEF BeginInv, Marked, BeginsOnce
<1>3. QED
  BY <1>1, <1>2, InitBegin, OwnInvariant, PTL DEF Spec

=============================================================================
