---------------------------- MODULE CommOwnership ----------------------------
(***************************************************************************)
(* No buffer of Comm is ever in two places: not in two queues, not twice   *)
(* in one, not free and still used, not in the hands of two threads.  This *)
(* holds for any number of threads and buffers, and however connections    *)
(* end.                                                                    *)
(***************************************************************************)
EXTENDS CommTypes

-----------------------------------------------------------------------------
(* Lists without repetitions. *)

Items(q) == {q[i] : i \in DOMAIN q}
Once(q) == \A i, j \in DOMAIN q : q[i] = q[j] => i = j

LEMMA EmptyItems == Items(<<>>) = {} /\ Once(<<>>)
BY DEF Items, Once

LEMMA ItemsTyped == ASSUME NEW q \in Seq(Buffers) PROVE Items(q) \subseteq Buffers
BY LenProperties, ElementOfSeq DEF Items

LEMMA AppendItems ==
  ASSUME NEW q \in Seq(Buffers), NEW b \in Buffers
  PROVE  /\ Items(Append(q, b)) = Items(q) \cup {b}
         /\ Once(q) /\ b \notin Items(q) => Once(Append(q, b))
<1> DEFINE n == Len(q)
           t == Append(q, b)
<1>1. n \in Nat /\ DOMAIN q = 1..n /\ DOMAIN t = 1..(n + 1)
  BY LenProperties, AppendProperties
<1>2. t[n + 1] = b /\ \A i \in 1..n : t[i] = q[i]
  BY AppendProperties
<1> HIDE DEF n, t
<1>3. Items(t) = Items(q) \cup {b}
  <2>1. \A i \in 1..n : i \in 1..(n + 1)
    BY <1>1
  <2>2. n + 1 \in 1..(n + 1)
    BY <1>1
  <2>3. \A i \in 1..(n + 1) : i \in 1..n \/ i = n + 1
    BY <1>1
  <2>4. QED
    BY <1>1, <1>2, <2>1, <2>2, <2>3 DEF Items
<1>4. ASSUME Once(q), b \notin Items(q) PROVE Once(t)
  <2>1. \A i \in 1..(n + 1) : i \in 1..n \/ i = n + 1
    BY <1>1
  <2>2. QED
    BY <1>1, <1>2, <1>4, <2>1 DEF Items, Once
<1>5. QED
  BY <1>3, <1>4 DEF t

LEMMA TailItems ==
  ASSUME NEW q \in Seq(Buffers), q # <<>>, Once(q)
  PROVE  /\ Items(Tail(q)) = Items(q) \ {Head(q)} /\ Head(q) \in Items(q)
         /\ Once(Tail(q))
<1> DEFINE n == Len(q)
           t == Tail(q)
<1>1. n \in Nat /\ n > 0 /\ DOMAIN q = 1..n /\ DOMAIN t = 1..(n - 1) /\ Head(q) = q[1]
  <2>1. n \in Nat \ {0} /\ DOMAIN q = 1..n
    BY LenProperties, EmptySeq
  <2>2. t \in Seq(Buffers) /\ Len(t) = n - 1
    BY HeadTailProperties
  <2>3. DOMAIN t = 1..(n - 1)
    BY <2>2, LenProperties
  <2>4. Head(q) = q[1]
    OBVIOUS
  <2>5. QED
    BY <2>1, <2>3, <2>4
<1>2. \A i \in 1..(n - 1) : t[i] = q[i + 1]
  BY HeadTailProperties
<1> HIDE DEF n, t
<1>3. \A i \in 1..n : i = 1 \/ (i - 1 \in 1..(n - 1) /\ (i - 1) + 1 = i)
  BY <1>1
<1>4. \A i \in 1..(n - 1) : i + 1 \in 1..n /\ i + 1 # 1
  BY <1>1
<1>5. 1 \in 1..n
  BY <1>1
<1>6. Items(t) = Items(q) \ {Head(q)}
  <2>1. ASSUME NEW b \in Items(t) PROVE b \in Items(q) \ {Head(q)}
    BY <1>1, <1>2, <1>4, <1>5 DEF Items, Once
  <2>2. ASSUME NEW b \in Items(q) \ {Head(q)} PROVE b \in Items(t)
    <3>1. PICK i \in 1..n : b = q[i] /\ i # 1
      BY <1>1 DEF Items
    <3>2. i - 1 \in 1..(n - 1) /\ t[i - 1] = b
      BY <1>2, <1>3, <3>1
    <3>3. QED
      BY <1>1, <3>2 DEF Items
  <2>3. QED
    BY <2>1, <2>2
<1>7. Once(t)
  <2>1. \A i, j \in 1..(n - 1) : i + 1 = j + 1 => i = j
    BY <1>1
  <2>2. QED
    BY <1>1, <1>2, <1>4, <2>1 DEF Once
<1>8. Head(q) \in Items(q)
  BY <1>1, <1>5 DEF Items
<1>9. QED
  BY <1>6, <1>7, <1>8 DEF t

LEMMA ConcatItems ==
  ASSUME NEW p \in Seq(Buffers), NEW q \in Seq(Buffers)
  PROVE  /\ Items(p \o q) = Items(p) \cup Items(q)
         /\ Once(p) /\ Once(q) /\ Items(p) \cap Items(q) = {} => Once(p \o q)
<1> DEFINE m == Len(p)
           n == Len(q)
           t == p \o q
<1>1. /\ m \in Nat /\ n \in Nat /\ DOMAIN p = 1..m /\ DOMAIN q = 1..n
      /\ DOMAIN t = 1..(m + n)
  <2>1. t \in Seq(Buffers) /\ Len(t) = m + n
    BY ConcatProperties
  <2>2. QED
    BY <2>1, LenProperties
<1>2. \A i \in 1..(m + n) : t[i] = IF i <= m THEN p[i] ELSE q[i - m]
  BY ConcatProperties
<1> HIDE DEF m, n, t
<1>3. \A i \in 1..(m + n) : \/ i \in 1..m /\ i <= m
                            \/ ~(i <= m) /\ i - m \in 1..n
  BY <1>1
<1>4. \A i \in 1..m : i \in 1..(m + n) /\ i <= m
  BY <1>1
<1>5. \A i \in 1..n : i + m \in 1..(m + n) /\ ~(i + m <= m) /\ (i + m) - m = i
  BY <1>1
<1>6. Items(t) = Items(p) \cup Items(q)
  <2>1. ASSUME NEW b \in Items(t) PROVE b \in Items(p) \cup Items(q)
    BY <1>1, <1>2, <1>3 DEF Items
  <2>2. ASSUME NEW b \in Items(p) PROVE b \in Items(t)
    BY <1>1, <1>2, <1>4 DEF Items
  <2>3. ASSUME NEW b \in Items(q) PROVE b \in Items(t)
    <3>1. PICK i \in 1..n : b = q[i]
      BY <1>1 DEF Items
    <3>2. i + m \in 1..(m + n) /\ t[i + m] = b
      BY <1>2, <1>5, <3>1
    <3>3. QED
      BY <1>1, <3>2 DEF Items
  <2>4. QED
    BY <2>1, <2>2, <2>3
<1>7. ASSUME Once(p), Once(q), Items(p) \cap Items(q) = {} PROVE Once(t)
  <2> SUFFICES ASSUME NEW i \in 1..(m + n), NEW j \in 1..(m + n), t[i] = t[j]
               PROVE  i = j
    BY <1>1 DEF Once
  <2>1. CASE i <= m /\ j <= m
    BY <1>1, <1>2, <1>3, <1>7, <2>1 DEF Once
  <2>2. CASE ~(i <= m) /\ ~(j <= m)
    <3>1. i - m = j - m
      BY <1>1, <1>2, <1>3, <1>7, <2>2 DEF Once
    <3>2. QED
      BY <1>1, <3>1
  <2>3. CASE i <= m /\ ~(j <= m)
    <3>1. t[i] \in Items(p) /\ t[j] \in Items(q)
      BY <1>1, <1>2, <1>3, <2>3 DEF Items
    <3>2. QED
      BY <1>7, <3>1
  <2>4. CASE ~(i <= m) /\ j <= m
    <3>1. t[j] \in Items(p) /\ t[i] \in Items(q)
      BY <1>1, <1>2, <1>3, <2>4 DEF Items
    <3>2. QED
      BY <1>7, <3>1
  <2>5. QED
    BY <2>1, <2>2, <2>3, <2>4
<1>8. QED
  BY <1>6, <1>7 DEF t

LEMMA WithoutItems ==
  ASSUME NEW q \in Seq(Buffers), NEW i \in DOMAIN q, Once(q)
  PROVE  /\ Items(Without(q, i)) = Items(q) \ {q[i]} /\ q[i] \in Items(q)
         /\ Once(Without(q, i))
<1> DEFINE n == Len(q)
           t == Without(q, i)
<1>1. n \in Nat /\ DOMAIN q = 1..n /\ DOMAIN t = 1..(n - 1)
  BY LenProperties DEF Without
<1>2. \A j \in 1..(n - 1) : t[j] = IF j < i THEN q[j] ELSE q[j + 1]
  BY <1>1 DEF Without
<1>3. i \in 1..n /\ i \in Nat
  BY <1>1
<1> HIDE DEF n, t
<1>4. \A j \in 1..(n - 1) : /\ j \in 1..n /\ j + 1 \in 1..n
                            /\ j < i => j # i
                            /\ ~(j < i) => j + 1 # i
  BY <1>1, <1>3
<1>5. Items(t) = Items(q) \ {q[i]}
  <2>1. ASSUME NEW b \in Items(t) PROVE b \in Items(q) \ {q[i]}
    <3>1. PICK j \in 1..(n - 1) : b = t[j]
      BY <1>1 DEF Items
    <3>2. PICK l \in 1..n : b = q[l] /\ l # i
      BY <1>2, <1>4, <3>1
    <3>3. QED
      BY <1>1, <1>3, <3>2 DEF Items, Once
  <2>2. ASSUME NEW b \in Items(q) \ {q[i]} PROVE b \in Items(t)
    <3>1. PICK j \in 1..n : b = q[j] /\ j # i
      BY <1>1 DEF Items
    <3>2. CASE j < i
      <4>1. j \in 1..(n - 1)
        BY <1>1, <1>3, <3>1, <3>2
      <4>2. QED
        BY <1>1, <1>2, <3>1, <3>2, <4>1 DEF Items
    <3>3. CASE ~(j < i)
      <4>1. j - 1 \in 1..(n - 1) /\ ~(j - 1 < i) /\ (j - 1) + 1 = j
        BY <1>1, <1>3, <3>1, <3>3
      <4>2. t[j - 1] = b
        BY <1>2, <3>1, <4>1
      <4>3. QED
        BY <1>1, <4>1, <4>2 DEF Items
    <3>4. QED
      BY <3>2, <3>3
  <2>3. QED
    BY <2>1, <2>2
<1>6. Once(t)
  <2> SUFFICES ASSUME NEW j \in 1..(n - 1), NEW l \in 1..(n - 1), t[j] = t[l]
               PROVE  j = l
    BY <1>1 DEF Once
  <2>1. CASE j < i /\ l < i
    BY <1>1, <1>2, <1>4, <2>1 DEF Once
  <2>2. CASE ~(j < i) /\ ~(l < i)
    <3>1. j + 1 = l + 1
      BY <1>1, <1>2, <1>4, <2>2 DEF Once
    <3>2. QED
      BY <1>1, <3>1
  <2>3. CASE j < i /\ ~(l < i)
    <3>1. j = l + 1
      BY <1>1, <1>2, <1>4, <2>3 DEF Once
    <3>2. QED
      BY <1>1, <1>3, <2>3, <3>1
  <2>4. CASE ~(j < i) /\ l < i
    <3>1. l = j + 1
      BY <1>1, <1>2, <1>4, <2>4 DEF Once
    <3>2. QED
      BY <1>1, <1>3, <2>4, <3>1
  <2>5. QED
    BY <2>1, <2>2, <2>3, <2>4
<1>7. q[i] \in Items(q)
  BY DEF Items
<1>8. QED
  BY <1>5, <1>6, <1>7 DEF t

LEMMA PushItems ==
  ASSUME NEW q \in Seq(Buffers), NEW b \in Buffers
  PROVE  /\ Items(<<b>> \o q) = Items(q) \cup {b}
         /\ Once(q) /\ b \notin Items(q) => Once(<<b>> \o q)
<1> DEFINE s == <<b>>
<1>1. s \in Seq(Buffers)
  OBVIOUS
<1>2. Items(s) = {b} /\ Once(s)
  BY DEF Items, Once
<1> HIDE DEF s
<1>3. Items(s \o q) = Items(q) \cup {b}
  BY <1>1, <1>2, ConcatItems
<1>4. ASSUME Once(q), b \notin Items(q) PROVE Once(s \o q)
  BY <1>1, <1>2, <1>4, ConcatItems
<1>5. QED
  BY <1>3, <1>4 DEF s

-----------------------------------------------------------------------------
(* Where buffer b is: x is the connection, worker or buffer a place of     *)
(* kind k belongs to.  Places says the same, with the index in a queue.    *)

InTodo(q, k, x, b) == k = "todo" /\ x = None /\ b \in Items(q)

Slots == {"slot0", "slot1", "heap"}

InMem(m, k, x, b) ==
  \/ k = "slot0" /\ x = None /\ b \in Items(m.slot0)
  \/ k = "slot1" /\ x = None /\ b \in Items(m.slot1)
  \/ k = "heap"  /\ x = None /\ b \in m.heap

InOutput(q, k, x, b) == k = "output" /\ x \in Conns /\ b \in Items(q[x])
InWait(q, k, x, b)   == k = "wait" /\ x \in Conns /\ b \in Items(q[x])
InWake(f, k, x, b)   == k = "to_wake" /\ x \in Buffers /\ b \in Items(f[x].to_wake)

InReader(f, k, x, b) ==
  \/ k = "reader" /\ x \in Conns /\ f[x].b = b /\ f[x].pc \in Owning
  \/ k = "fetched" /\ x \in Conns /\ f[x].p = b

InWorker(f, k, x, b) ==
  \/ k = "worker" /\ x \in Workers /\ f[x].b = b /\ f[x].pc \in {"got", "free", "initfree"}
  \/ k = "request" /\ x \in Workers /\ f[x].r = b

InWriter(f, k, x, b) == k = "writer" /\ x \in Conns /\ f[x].b = b

Holds(k, x, b) ==
  \/ InTodo(todo, k, x, b) \/ InMem(mem, k, x, b)
  \/ InOutput(output, k, x, b) \/ InWait(wait, k, x, b) \/ InWake(buf, k, x, b)
  \/ InReader(reader, k, x, b) \/ InWorker(worker, k, x, b) \/ InWriter(writer, k, x, b)

(* One place at most; and a buffer that is not free is for a connection.   *)
Apart ==
  \A b \in Buffers : \A k, x, l, y :
    Holds(k, x, b) /\ Holds(l, y, b) => k = l /\ x = y

Known ==
  \A b \in Buffers : \A k, x :
    Holds(k, x, b) /\ buf[b].comm = None => k \in Slots

Lists ==
  /\ Once(todo)
  /\ Once(mem.slot0) /\ Once(mem.slot1)
  /\ \A c \in Conns : Once(output[c]) /\ Once(wait[c])
  /\ \A b \in Buffers : Once(buf[b].to_wake)

Own == Apart /\ Known /\ Lists

(* Buffers move: what is in come came from a place in gone, everything     *)
(* else stayed or was lost.                                                *)
Moved(gone, come) ==
  /\ \A b \in Buffers : \A k, x : Holds(k, x, b)' =>
       (Holds(k, x, b) /\ <<k, x, b>> \notin gone) \/ <<k, x, b>> \in come
  /\ \A b \in Buffers : \A k, x : <<k, x, b>> \in come =>
       \E l, y : /\ Holds(l, y, b) /\ <<l, y, b>> \in gone
                 /\ (l \in Slots /\ k \notin Slots => buf'[b].comm # None)
  /\ \A b \in Buffers : \A k, x, l, y :
       <<k, x, b>> \in come /\ <<l, y, b>> \in come => k = l /\ x = y
  /\ \A b \in Buffers : \/ buf'[b].comm = buf[b].comm \/ buf'[b].comm # None
                        \/ \A k, x : Holds(k, x, b)' => k \in Slots

LEMMA Moves ==
  ASSUME Apart, Known, NEW gone, NEW come, Moved(gone, come)
  PROVE  Apart' /\ Known'
<1> USE DEF Moved
<1>1. Apart'
  <2> SUFFICES ASSUME NEW b \in Buffers, NEW k, NEW x, NEW l, NEW y,
                      Holds(k, x, b)', Holds(l, y, b)'
               PROVE  k = l /\ x = y
    BY DEF Apart
  <2>1. CASE <<k, x, b>> \in come /\ <<l, y, b>> \in come
    BY <2>1
  <2>2. CASE <<k, x, b>> \notin come /\ <<l, y, b>> \notin come
    BY <2>2 DEF Apart
  <2>3. ASSUME NEW i, NEW u, NEW j, NEW v, <<i, u, b>> \in come,
               Holds(j, v, b)', <<j, v, b>> \notin come
        PROVE  FALSE
    <3>1. PICK m, w : Holds(m, w, b) /\ <<m, w, b>> \in gone
      BY <2>3
    <3>2. Holds(j, v, b) /\ <<j, v, b>> \notin gone
      BY <2>3
    <3>3. j = m /\ v = w
      BY <3>1, <3>2 DEF Apart
    <3>4. QED
      BY <3>1, <3>2, <3>3
  <2>4. QED
    BY <2>1, <2>2, <2>3
<1>2. Known'
  <2> SUFFICES ASSUME NEW b \in Buffers, NEW k, NEW x, Holds(k, x, b)',
                      buf'[b].comm = None
               PROVE  k \in Slots
    BY DEF Known
  <2>1. CASE buf'[b].comm = buf[b].comm /\ <<k, x, b>> \in come
    <3>1. PICK l, y : Holds(l, y, b) /\ (l \in Slots /\ k \notin Slots => buf'[b].comm # None)
      BY <2>1
    <3>2. l \in Slots
      BY <2>1, <3>1 DEF Known
    <3>3. QED
      BY <3>1, <3>2
  <2>2. CASE buf'[b].comm = buf[b].comm /\ <<k, x, b>> \notin come
    <3>1. Holds(k, x, b)
      BY <2>2
    <3>2. QED
      BY <2>2, <3>1 DEF Known
  <2>3. QED
    BY <2>1, <2>2
<1>3. QED
  BY <1>1, <1>2

(* Taking a buffer out of a list, or leaving it in nobody's hands, keeps   *)
(* apart what is apart: lists only get shorter.                            *)
LEMMA Loses ==
  ASSUME Apart, Known,
         \A b \in Buffers : \A k, x : Holds(k, x, b)' => Holds(k, x, b),
         \A b \in Buffers : buf'[b].comm = buf[b].comm
  PROVE  Apart' /\ Known'
<1>1. Apart'
  BY DEF Apart
<1>2. Known'
  <2> SUFFICES ASSUME NEW b \in Buffers, NEW k, NEW x, Holds(k, x, b)',
                      buf'[b].comm = None
               PROVE  k \in Slots
    BY DEF Known
  <2>1. Holds(k, x, b) /\ buf[b].comm = None
    OBVIOUS
  <2>2. QED
    BY <2>1 DEF Known
<1>3. QED
  BY <1>1, <1>2

(* One buffer moves from x0 to x1.                                         *)
MovedOne(m, k0, x0, k1, x1) ==
  /\ \A b \in Buffers : \A k, x : Holds(k, x, b)' =>
       \/ Holds(k, x, b) /\ ~(b = m /\ k = k0 /\ x = x0)
       \/ b = m /\ k = k1 /\ x = x1
  /\ k0 \in Slots => buf'[m].comm # None
  /\ \A b \in Buffers : buf'[b].comm = buf[b].comm \/ buf'[b].comm # None

LEMMA MovesOne ==
  ASSUME Apart, Known, NEW m \in Buffers, NEW k0, NEW x0, NEW k1, NEW x1,
         Holds(k0, x0, m), MovedOne(m, k0, x0, k1, x1)
  PROVE  Apart' /\ Known'
<1> USE DEF MovedOne
<1>1. Apart'
  <2> SUFFICES ASSUME NEW b \in Buffers, NEW k, NEW x, NEW l, NEW y,
                      Holds(k, x, b)', Holds(l, y, b)'
               PROVE  k = l /\ x = y
    BY DEF Apart
  <2>1. CASE b # m
    BY <2>1 DEF Apart
  <2>2. ASSUME b = m, NEW i, NEW u, Holds(i, u, b)' PROVE i = k1 /\ u = x1
    BY <2>2 DEF Apart
  <2>3. QED
    BY <2>1, <2>2
<1>2. Known'
  <2> SUFFICES ASSUME NEW b \in Buffers, NEW k, NEW x, Holds(k, x, b)',
                      buf'[b].comm = None
               PROVE  k \in Slots
    BY DEF Known
  <2>1. buf[b].comm = None
    OBVIOUS
  <2>2. CASE Holds(k, x, b)
    BY <2>1, <2>2 DEF Known
  <2>3. CASE b = m
    BY <2>1, <2>3 DEF Known
  <2>4. QED
    BY <2>2, <2>3
<1>3. QED
  BY <1>1, <1>2

(* A buffer that is somewhere is nowhere else.                             *)
LEMMA Elsewhere ==
  ASSUME Apart, NEW m \in Buffers, NEW k0, NEW x0, Holds(k0, x0, m)
  PROVE  /\ k0 # "todo" => m \notin Items(todo)
         /\ k0 # "slot0" => m \notin Items(mem.slot0)
         /\ k0 # "slot1" => m \notin Items(mem.slot1)
         /\ k0 # "heap" => m \notin mem.heap
         /\ \A c \in Conns : k0 # "output" \/ x0 # c => m \notin Items(output[c])
         /\ \A c \in Conns : k0 # "wait" \/ x0 # c => m \notin Items(wait[c])
         /\ \A a \in Buffers : k0 # "to_wake" \/ x0 # a => m \notin Items(buf[a].to_wake)
<1>0. \A k, x : Holds(k, x, m) => k = k0 /\ x = x0
  BY DEF Apart
<1>1. m \in Items(todo) => Holds("todo", None, m)
  BY DEF Holds, InTodo
<1>2. /\ m \in Items(mem.slot0) => Holds("slot0", None, m)
      /\ m \in Items(mem.slot1) => Holds("slot1", None, m)
      /\ m \in mem.heap => Holds("heap", None, m)
  BY DEF Holds, InMem
<1>3. \A c \in Conns : m \in Items(output[c]) => Holds("output", c, m)
  BY DEF Holds, InOutput
<1>4. \A c \in Conns : m \in Items(wait[c]) => Holds("wait", c, m)
  BY DEF Holds, InWait
<1>5. \A a \in Buffers : m \in Items(buf[a].to_wake) => Holds("to_wake", a, m)
  BY DEF Holds, InWake
<1>6. QED
  BY <1>0, <1>1, <1>2, <1>3, <1>4, <1>5

(* The end of todo, of a queue; the front of one.                          *)
LEMMA ToTodo ==
  ASSUME NEW q \in Seq(Buffers), NEW m \in Buffers, Once(q), m \notin Items(q)
  PROVE  /\ Once(comm_buf_to_queue(q, m))
         /\ \A k, x, b : InTodo(comm_buf_to_queue(q, m), k, x, b) =>
              InTodo(q, k, x, b) \/ (b = m /\ k = "todo" /\ x = None)
BY AppendItems DEF comm_buf_to_queue, InTodo

Queued(q, n, c, m) ==
  \A d \in Conns : n[d] = IF d = c THEN comm_buf_to_queue(q[c], m) ELSE q[d]

Dequeued(q, n, c) ==
  \A d \in Conns : n[d] = IF d = c THEN comm_buf_from_queue(q[c]) ELSE q[d]

LEMMA ToQueue ==
  ASSUME NEW q \in Queues, NEW n, NEW c \in Conns, NEW m \in Buffers,
         \A d \in Conns : Once(q[d]), m \notin Items(q[c]),
         Queued(q, n, c, m)
  PROVE  /\ \A d \in Conns : Once(n[d])
         /\ \A k, x, b : InOutput(n, k, x, b) =>
              InOutput(q, k, x, b) \/ (b = m /\ k = "output" /\ x = c)
         /\ \A k, x, b : InWait(n, k, x, b) =>
              InWait(q, k, x, b) \/ (b = m /\ k = "wait" /\ x = c)
<1>1. q[c] \in Seq(Buffers)
  BY DEF Queues
<1>2. /\ Once(Append(q[c], m)) /\ Items(Append(q[c], m)) = Items(q[c]) \cup {m}
  BY <1>1, AppendItems
<1>3. \A d \in Conns : n[d] = IF d = c THEN Append(q[c], m) ELSE q[d]
  BY DEF Queues, Queued, comm_buf_to_queue
<1>4. QED
  BY <1>2, <1>3 DEF InOutput, InWait

LEMMA FromQueue ==
  ASSUME NEW q \in Queues, NEW n, NEW c \in Conns, q[c] # <<>>,
         \A d \in Conns : Once(q[d]),
         Dequeued(q, n, c)
  PROVE  /\ Head(q[c]) \in Buffers /\ Head(q[c]) \in Items(q[c])
         /\ \A d \in Conns : Once(n[d]) /\ Items(n[d]) \subseteq Items(q[d])
         /\ \A k, x, b : InOutput(n, k, x, b) =>
              InOutput(q, k, x, b) /\ ~(b = Head(q[c]) /\ k = "output" /\ x = c)
         /\ \A k, x, b : InWait(n, k, x, b) =>
              InWait(q, k, x, b) /\ ~(b = Head(q[c]) /\ k = "wait" /\ x = c)
<1>1. q[c] \in Seq(Buffers)
  BY DEF Queues
<1>2. /\ Once(Tail(q[c])) /\ Items(Tail(q[c])) = Items(q[c]) \ {Head(q[c])}
      /\ Head(q[c]) \in Items(q[c]) /\ Head(q[c]) \in Buffers
  BY <1>1, TailItems, HeadTailProperties
<1>3. \A d \in Conns : n[d] = IF d = c THEN Tail(q[c]) ELSE q[d]
  BY DEF Queues, Dequeued, comm_buf_from_queue
<1>4. QED
  BY <1>2, <1>3 DEF InOutput, InWait

(* Where the next buffer comes from.                                       *)
Slot(m) == IF m.slot0 # <<>> THEN "slot0" ELSE IF m.slot1 # <<>> THEN "slot1" ELSE "heap"

LEMMA TakenFrom ==
  ASSUME NEW m \in Memory, Available(m), Once(m.slot0), Once(m.slot1)
  PROVE  /\ InMem(m, Slot(m), None, Fresh(m))
         /\ Once(Taken(m).slot0) /\ Once(Taken(m).slot1)
         /\ \A k, x, b : InMem(Taken(m), k, x, b) =>
              InMem(m, k, x, b) /\ ~(b = Fresh(m) /\ k = Slot(m))
<1>0. m.slot0 \in Seq(Buffers) /\ m.slot1 \in Seq(Buffers)
  BY DEF Memory
<1>1. CASE m.slot0 # <<>>
  <2>1. /\ Once(Tail(m.slot0)) /\ Items(Tail(m.slot0)) = Items(m.slot0) \ {Head(m.slot0)}
        /\ Head(m.slot0) \in Items(m.slot0)
    BY <1>0, <1>1, TailItems
  <2>2. /\ Slot(m) = "slot0" /\ Fresh(m) = Head(m.slot0)
        /\ Taken(m).slot0 = Tail(m.slot0) /\ Taken(m).slot1 = m.slot1
        /\ Taken(m).heap = m.heap
    BY <1>1 DEF Slot, Fresh, Taken, Memory
  <2>3. QED
    BY <2>1, <2>2 DEF InMem
<1>2. CASE m.slot0 = <<>> /\ m.slot1 # <<>>
  <2>1. /\ Once(Tail(m.slot1)) /\ Items(Tail(m.slot1)) = Items(m.slot1) \ {Head(m.slot1)}
        /\ Head(m.slot1) \in Items(m.slot1)
    BY <1>0, <1>2, TailItems
  <2>2. /\ Slot(m) = "slot1" /\ Fresh(m) = Head(m.slot1)
        /\ Taken(m).slot0 = m.slot0 /\ Taken(m).slot1 = Tail(m.slot1)
        /\ Taken(m).heap = m.heap
    BY <1>2 DEF Slot, Fresh, Taken, Memory
  <2>3. QED
    BY <2>1, <2>2 DEF InMem
<1>3. CASE m.slot0 = <<>> /\ m.slot1 = <<>>
  <2>1. /\ Slot(m) = "heap" /\ Fresh(m) \in m.heap
        /\ Taken(m).slot0 = m.slot0 /\ Taken(m).slot1 = m.slot1
        /\ Taken(m).heap = m.heap \ {Fresh(m)}
    BY <1>3 DEF Slot, Fresh, Taken, Memory, Available
  <2>2. QED
    BY <2>1 DEF InMem
<1>4. QED
  BY <1>1, <1>2, <1>3

(* ... and is in no list.                                                  *)
LEMMA TakesFresh ==
  ASSUME TypeOK, Own, Available(mem)
  PROVE  /\ Fresh(mem) \in Buffers /\ Slot(mem) \in Slots
         /\ Holds(Slot(mem), None, Fresh(mem))
         /\ Once(Taken(mem).slot0) /\ Once(Taken(mem).slot1)
         /\ \A k, x, b : InMem(Taken(mem), k, x, b) =>
              InMem(mem, k, x, b) /\ ~(b = Fresh(mem) /\ k = Slot(mem) /\ x = None)
         /\ Fresh(mem) \notin Items(todo)
         /\ \A c \in Conns : Fresh(mem) \notin Items(output[c]) /\ Fresh(mem) \notin Items(wait[c])
         /\ \A a \in Buffers : Fresh(mem) \notin Items(buf[a].to_wake)
<1>1. mem \in Memory /\ Once(mem.slot0) /\ Once(mem.slot1) /\ Apart
  BY DEF TypeOK, MemOK, Own, Lists
<1>2. Fresh(mem) \in Buffers
  BY <1>1, TakenOK
<1>3. InMem(mem, Slot(mem), None, Fresh(mem))
  BY <1>1, TakenFrom
<1>4. Holds(Slot(mem), None, Fresh(mem))
  BY <1>3 DEF Holds
<1>5. Slot(mem) \in Slots
  BY DEF Slot, Slots
<1>6. Slot(mem) \notin {"todo", "output", "wait", "to_wake"}
  BY DEF Slot
<1>7. QED
  BY <1>1, <1>2, <1>4, <1>5, <1>6, TakenFrom, Elsewhere

(* What the threads hold after one of them went on.                        *)
LEMMA ReaderHolds ==
  ASSUME ReaderOK, NEW c \in Conns, NEW y, reader' = [reader EXCEPT ![c] = y]
  PROVE  \A k, x, b : InReader(reader', k, x, b) =>
           \/ x # c /\ InReader(reader, k, x, b)
           \/ x = c /\ k = "reader" /\ y.b = b /\ y.pc \in Owning
           \/ x = c /\ k = "fetched" /\ y.p = b
BY DEF ReaderOK, InReader

LEMMA WorkerHolds ==
  ASSUME WorkerOK, NEW w \in Workers, NEW y, worker' = [worker EXCEPT ![w] = y]
  PROVE  \A k, x, b : InWorker(worker', k, x, b) =>
           \/ x # w /\ InWorker(worker, k, x, b)
           \/ x = w /\ k = "worker" /\ y.b = b /\ y.pc \in {"got", "free", "initfree"}
           \/ x = w /\ k = "request" /\ y.r = b
BY DEF WorkerOK, InWorker

LEMMA WriterHolds ==
  ASSUME WriterOK, NEW c \in Conns, NEW y, writer' = [writer EXCEPT ![c] = y]
  PROVE  \A k, x, b : InWriter(writer', k, x, b) =>
           \/ x # c /\ InWriter(writer, k, x, b)
           \/ x = c /\ k = "writer" /\ y.b = b
BY DEF WriterOK, InWriter

(* No buffer comes into to_wake.                                           *)
LEMMA WakeKept ==
  ASSUME Lists,
         \A a \in Buffers : buf'[a].to_wake = buf[a].to_wake \/ buf'[a].to_wake = <<>>
  PROVE  /\ \A k, x, b : InWake(buf', k, x, b) => InWake(buf, k, x, b)
         /\ \A a \in Buffers : Once(buf'[a].to_wake)
BY EmptyItems DEF InWake, Lists

(* The same for a step of a reader or a worker that leaves todo and the    *)
(* pools alone.                                                            *)
LEMMA NothingMoves ==
  ASSUME Own, UNCHANGED <<todo, mem>>,
         \A b \in Buffers : \A k, x :
           /\ InOutput(output', k, x, b) => InOutput(output, k, x, b)
           /\ InWait(wait', k, x, b) => InWait(wait, k, x, b)
           /\ InReader(reader', k, x, b) => InReader(reader, k, x, b)
           /\ InWorker(worker', k, x, b) => InWorker(worker, k, x, b)
           /\ InWriter(writer', k, x, b) => InWriter(writer, k, x, b),
         \A a \in Buffers : /\ buf'[a].comm = buf[a].comm
                            /\ buf'[a].to_wake = buf[a].to_wake,
         \A c \in Conns : Once(output'[c]) /\ Once(wait'[c])
  PROVE  Own'
<1>1. Lists'
  BY WakeKept DEF Own, Lists
<1>2. \A b \in Buffers : \A k, x : Holds(k, x, b)' => Holds(k, x, b)
  BY WakeKept DEF Own, Holds
<1>3. \A b \in Buffers : buf'[b].comm = buf[b].comm
  OBVIOUS
<1>4. Apart' /\ Known'
  BY <1>2, <1>3, Loses DEF Own
<1>5. QED
  BY <1>1, <1>4 DEF Own

(* comm_buf_free(): where the buffer goes.                                 *)
Home(b) == IF b \in Pool0 THEN "slot0" ELSE IF b \in Pool1 THEN "slot1" ELSE "heap"

LEMMA PutIn ==
  ASSUME NEW m \in Memory, NEW b \in Buffers, Once(m.slot0), Once(m.slot1),
         b \notin Items(m.slot0), b \notin Items(m.slot1)
  PROVE  /\ \A k, x, a : InMem(Put(m, b), k, x, a) =>
              InMem(m, k, x, a) \/ (a = b /\ k = Home(b) /\ x = None)
         /\ Once(Put(m, b).slot0) /\ Once(Put(m, b).slot1)
<1>0. m.slot0 \in Seq(Buffers) /\ m.slot1 \in Seq(Buffers)
  BY DEF Memory
<1> DEFINE s0 == <<b>> \o m.slot0
           s1 == <<b>> \o m.slot1
<1>1. Items(s0) = Items(m.slot0) \cup {b} /\ Once(s0)
  BY <1>0, PushItems
<1>2. Items(s1) = Items(m.slot1) \cup {b} /\ Once(s1)
  BY <1>0, PushItems
<1>3. CASE b \in Pool0
  <2>1. /\ Put(m, b).slot0 = s0 /\ Put(m, b).slot1 = m.slot1 /\ Put(m, b).heap = m.heap
        /\ Home(b) = "slot0"
    BY <1>3 DEF Put, Memory, Home
  <2> HIDE DEF s0, s1
  <2>2. QED
    BY <1>1, <2>1 DEF InMem
<1>4. CASE b \notin Pool0 /\ b \in Pool1
  <2>1. /\ Put(m, b).slot0 = m.slot0 /\ Put(m, b).slot1 = s1 /\ Put(m, b).heap = m.heap
        /\ Home(b) = "slot1"
    BY <1>4 DEF Put, Memory, Home
  <2> HIDE DEF s0, s1
  <2>2. QED
    BY <1>2, <2>1 DEF InMem
<1>5. CASE b \notin Pool0 /\ b \notin Pool1
  <2>1. /\ Put(m, b).slot0 = m.slot0 /\ Put(m, b).slot1 = m.slot1
        /\ Put(m, b).heap = m.heap \cup {b} /\ Home(b) = "heap"
    BY <1>5 DEF Put, Memory, Home
  <2>2. QED
    BY <2>1 DEF InMem
<1>6. QED
  BY <1>3, <1>4, <1>5

LEMMA FreePieces ==
  ASSUME TypeOK, NEW b \in Buffers, NEW bufs \in [Buffers -> Contents],
         NEW m \in Memory, NEW out \in Queues, Free(b, bufs, m, out),
         bufs[b].comm = buf[b].comm,
         Once(todo), Once(bufs[b].to_wake),
         Items(todo) \cap Items(bufs[b].to_wake) = {},
         Once(m.slot0), Once(m.slot1),
         b \notin Items(m.slot0), b \notin Items(m.slot1),
         \A c \in Conns : Once(out[c]) /\ (SendsReady(b) => Fresh(m) \notin Items(out[c]))
  PROVE  /\ \A k, x, a : InTodo(todo', k, x, a) =>
              \/ InTodo(todo, k, x, a)
              \/ k = "todo" /\ x = None /\ a \in Items(bufs[b].to_wake)
         /\ \A k, x, a : InMem(mem', k, x, a) =>
              \/ InMem(m, k, x, a) /\ ~(SendsReady(b) /\ k = Slot(m) /\ x = None /\ a = Fresh(m))
              \/ a = b /\ k = Home(b) /\ x = None
         /\ \A k, x, a : InOutput(output', k, x, a) =>
              \/ InOutput(out, k, x, a)
              \/ SendsReady(b) /\ k = "output" /\ x = buf[b].comm /\ a = Fresh(m)
         /\ \A k, x, a : InWake(buf', k, x, a) => InWake(bufs, k, x, a) /\ x # b
         /\ SendsReady(b) => buf'[Fresh(m)].comm # None \/ Fresh(m) = b
         /\ \A a \in Buffers : buf'[a].comm = bufs[a].comm \/ buf'[a].comm # None \/ a = b
         /\ Once(todo') /\ Once(mem'.slot0) /\ Once(mem'.slot1)
         /\ \A c \in Conns : Once(output'[c])
         /\ \A a \in Buffers : buf'[a].to_wake = bufs[a].to_wake \/ buf'[a].to_wake = <<>>
<1>1. bufs[b].to_wake \in Seq(Buffers) /\ todo \in Seq(Buffers)
  BY DEF Contents, TypeOK, TodoOK
<1>2. /\ \A k, x, a : InTodo(todo', k, x, a) =>
           \/ InTodo(todo, k, x, a)
           \/ k = "todo" /\ x = None /\ a \in Items(bufs[b].to_wake)
      /\ Once(todo')
  <2>1. todo' = todo \o bufs[b].to_wake
    BY DEF Free
  <2>2. QED
    BY <1>1, <2>1, ConcatItems DEF InTodo
<1>3. Blank.comm = None /\ Blank.to_wake = <<>>
  BY DEF Blank
<1>4. CASE SendsReady(b)
  <2> DEFINE c == bufs[b].comm
             r == Fresh(m)
             o == Outgoing(c, [kind |-> "ready"])
  <2>1. /\ mem' = Put(Taken(m), b) /\ Available(m)
        /\ buf' = [bufs EXCEPT ![b] = Blank, ![r] = o]
        /\ output' = [out EXCEPT ![c] = comm_buf_to_queue(@, r)]
    BY <1>4 DEF Free
  <2>2. c \in Conns /\ c # None /\ c = buf[b].comm
    <3>1. c \in Conns \cup {None} /\ c # None
      BY <1>4 DEF SendsReady, Contents
    <3>2. QED
      BY <3>1
  <2>3. r \in Buffers /\ Taken(m) \in Memory
    BY <2>1, TakenOK
  <2>4. o.comm = c /\ o.to_wake = <<>>
    BY DEF Outgoing, For, Blank
  <2> HIDE DEF c, r, o
  <2>5. /\ \A a \in Buffers : \/ buf'[a] = bufs[a] /\ a # b /\ a # r
                              \/ a = r /\ buf'[a] = o
                              \/ a = b /\ buf'[a] = Blank
    BY <2>1, <2>3
  <2>6. /\ \A k, x, a : InMem(mem', k, x, a) =>
             \/ InMem(m, k, x, a) /\ ~(SendsReady(b) /\ k = Slot(m) /\ x = None /\ a = r)
             \/ a = b /\ k = Home(b) /\ x = None
        /\ Once(mem'.slot0) /\ Once(mem'.slot1)
    <3> DEFINE t == Taken(m)
    <3>1. /\ Once(t.slot0) /\ Once(t.slot1)
          /\ \A k, x, a : InMem(t, k, x, a) =>
               InMem(m, k, x, a) /\ ~(a = r /\ k = Slot(m))
      BY <2>1, TakenFrom DEF r
    <3>2. b \notin Items(t.slot0) /\ b \notin Items(t.slot1)
      BY <3>1 DEF InMem
    <3>3. t \in Memory /\ mem' = Put(t, b)
      BY <2>1, <2>3
    <3> HIDE DEF t
    <3>4. QED
      BY <3>1, <3>2, <3>3, PutIn
  <2>7. /\ \A k, x, a : InOutput(output', k, x, a) =>
             \/ InOutput(out, k, x, a)
             \/ SendsReady(b) /\ k = "output" /\ x = c /\ a = r
        /\ \A d \in Conns : Once(output'[d])
    <3>1. r \notin Items(out[c])
      BY <1>4, <2>2 DEF r
    <3>2. \A d \in Conns : Once(out[d])
      OBVIOUS
    <3>3. Queued(out, output', c, r)
      BY <2>1 DEF Queues, Queued
    <3>4. /\ \A d \in Conns : Once(output'[d])
          /\ \A k, x, a : InOutput(output', k, x, a) =>
               InOutput(out, k, x, a) \/ (a = r /\ k = "output" /\ x = c)
      BY <2>2, <2>3, <3>1, <3>2, <3>3, ToQueue
    <3>5. QED
      BY <1>4, <3>4
  <2>8. \A k, x, a : InWake(buf', k, x, a) => InWake(bufs, k, x, a) /\ x # b
    BY <1>3, <2>4, <2>5, EmptyItems DEF InWake
  <2>9. /\ SendsReady(b) => buf'[r].comm # None \/ r = b
        /\ \A a \in Buffers : buf'[a].comm = bufs[a].comm \/ buf'[a].comm # None \/ a = b
        /\ \A a \in Buffers : buf'[a].to_wake = bufs[a].to_wake \/ buf'[a].to_wake = <<>>
    BY <1>3, <2>2, <2>3, <2>4, <2>5
  <2>10. QED
    BY <1>2, <2>2, <2>6, <2>7, <2>8, <2>9 DEF r
<1>5. CASE ~SendsReady(b)
  <2>1. mem' = Put(m, b) /\ buf' = [bufs EXCEPT ![b] = Blank] /\ output' = out
    BY <1>5 DEF Free
  <2>2. /\ \A k, x, a : InMem(mem', k, x, a) =>
             InMem(m, k, x, a) \/ (a = b /\ k = Home(b) /\ x = None)
        /\ Once(mem'.slot0) /\ Once(mem'.slot1)
    BY <2>1, PutIn
  <2>3. \A a \in Buffers : buf'[a] = IF a = b THEN Blank ELSE bufs[a]
    BY <2>1
  <2>4. \A k, x, a : InWake(buf', k, x, a) => InWake(bufs, k, x, a) /\ x # b
    BY <1>3, <2>3, EmptyItems DEF InWake
  <2>5. /\ \A a \in Buffers : buf'[a].comm = bufs[a].comm \/ buf'[a].comm # None \/ a = b
        /\ \A a \in Buffers : buf'[a].to_wake = bufs[a].to_wake \/ buf'[a].to_wake = <<>>
    BY <1>3, <2>3
  <2>6. QED
    BY <1>2, <1>5, <2>1, <2>2, <2>4, <2>5
<1>6. QED
  BY <1>4, <1>5

(* A buffer that nobody holds any more is freed: it goes home, what waits  *)
(* in it goes to todo, and a new one may go to the writer.                 *)
LEMMA FreeMoves ==
  ASSUME TypeOK, Own, NEW b \in Buffers, NEW k0, NEW x0, Holds(k0, x0, b),
         k0 \notin Slots \cup {"todo", "to_wake"},
         NEW out \in Queues, Free(b, buf, mem, out),
         \A c \in Conns : Once(out[c]) /\ Items(out[c]) \subseteq Items(output[c]),
         \A c \in Conns : Once(wait'[c]),
         \A a \in Buffers : \A k, x :
           /\ InOutput(out, k, x, a) =>
                InOutput(output, k, x, a) /\ ~(a = b /\ k = k0 /\ x = x0)
           /\ InWait(wait', k, x, a) =>
                InWait(wait, k, x, a) /\ ~(a = b /\ k = k0 /\ x = x0)
           /\ InReader(reader', k, x, a) =>
                InReader(reader, k, x, a) /\ ~(a = b /\ k = k0 /\ x = x0)
           /\ InWorker(worker', k, x, a) =>
                InWorker(worker, k, x, a) /\ ~(a = b /\ k = k0 /\ x = x0)
           /\ InWriter(writer', k, x, a) =>
                InWriter(writer, k, x, a) /\ ~(a = b /\ k = k0 /\ x = x0)
  PROVE  Own'
<1> DEFINE r == Fresh(mem)
           woken == Items(buf[b].to_wake)
           Gone(k, x, a) == \/ a = b /\ k = k0 /\ x = x0
                            \/ a \in woken /\ k = "to_wake" /\ x = b
                            \/ SendsReady(b) /\ a = r /\ k = Slot(mem) /\ x = None
           Come(k, x, a) == \/ a = b /\ k = Home(b) /\ x = None
                            \/ a \in woken /\ k = "todo" /\ x = None
                            \/ SendsReady(b) /\ a = r /\ k = "output" /\ x = buf[b].comm
           gone == {t \in {<<k0, x0, b>>} \cup {<<"to_wake", b, a>> : a \in woken}
                            \cup {<<Slot(mem), None, r>>} : Gone(t[1], t[2], t[3])}
           come == {t \in {<<Home(b), None, b>>} \cup {<<"todo", None, a>> : a \in woken}
                            \cup {<<"output", buf[b].comm, r>>} : Come(t[1], t[2], t[3])}
<1>1. \A k, x, a : <<k, x, a>> \in gone <=> Gone(k, x, a)
  OBVIOUS
<1>2. \A k, x, a : <<k, x, a>> \in come <=> Come(k, x, a)
  OBVIOUS
<1> HIDE DEF gone, come
<1>3. Apart /\ Known /\ Lists
  BY DEF Own
<1>4. buf \in [Buffers -> Contents] /\ mem \in Memory
  BY DEF TypeOK, BufOK, MemOK
<1>5. woken \subseteq Buffers
  <2>1. buf[b].to_wake \in Seq(Buffers)
    BY <1>4 DEF Contents
  <2>2. QED
    BY <2>1, ItemsTyped
<1>6. b \notin woken /\ b \notin Items(mem.slot0) /\ b \notin Items(mem.slot1)
  BY <1>3, Elsewhere DEF Slots
<1>7. \A a \in woken : Holds("to_wake", b, a)
  BY DEF Holds, InWake
<1>8. Items(todo) \cap woken = {}
  <2>1. \A a \in Items(todo) : Holds("todo", None, a)
    BY DEF Holds, InTodo
  <2>2. QED
    BY <1>3, <1>5, <1>7, <2>1 DEF Apart
<1>9. ASSUME SendsReady(b)
      PROVE  /\ r \in Buffers /\ r # b /\ r \notin woken
             /\ Holds(Slot(mem), None, r)
             /\ \A c \in Conns : r \notin Items(out[c])
  <2>1. Available(mem)
    BY <1>9 DEF Free
  <2>2. /\ r \in Buffers /\ r \notin woken /\ Holds(Slot(mem), None, r)
        /\ \A c \in Conns : r \notin Items(output[c])
        /\ Slot(mem) \in Slots
    BY <2>1, TakesFresh
  <2>3. r # b
    BY <1>3, <2>2 DEF Apart
  <2>4. QED
    BY <2>2, <2>3
<1>10. /\ Once(todo) /\ Once(buf[b].to_wake) /\ Once(mem.slot0) /\ Once(mem.slot1)
       /\ \A a \in Buffers : Once(buf[a].to_wake)
  BY <1>3 DEF Lists
<1>11. /\ \A k, x, a : InTodo(todo', k, x, a) =>
            \/ InTodo(todo, k, x, a)
            \/ k = "todo" /\ x = None /\ a \in woken
       /\ \A k, x, a : InMem(mem', k, x, a) =>
            \/ InMem(mem, k, x, a) /\ ~(SendsReady(b) /\ k = Slot(mem) /\ x = None /\ a = r)
            \/ a = b /\ k = Home(b) /\ x = None
       /\ \A k, x, a : InOutput(output', k, x, a) =>
            \/ InOutput(out, k, x, a)
            \/ SendsReady(b) /\ k = "output" /\ x = buf[b].comm /\ a = r
       /\ \A k, x, a : InWake(buf', k, x, a) => InWake(buf, k, x, a) /\ x # b
       /\ SendsReady(b) => buf'[r].comm # None \/ r = b
       /\ \A a \in Buffers : buf'[a].comm = buf[a].comm \/ buf'[a].comm # None \/ a = b
       /\ Once(todo') /\ Once(mem'.slot0) /\ Once(mem'.slot1)
       /\ \A c \in Conns : Once(output'[c])
       /\ \A a \in Buffers : buf'[a].to_wake = buf[a].to_wake \/ buf'[a].to_wake = <<>>
  <2>1. \A c \in Conns : Once(out[c]) /\ (SendsReady(b) => Fresh(mem) \notin Items(out[c]))
    BY <1>9
  <2>2. QED
    BY <1>4, <1>6, <1>8, <1>10, <2>1, FreePieces
<1> HIDE DEF r, woken
<1>12. \A a \in Buffers : \A k, x : Holds(k, x, a)' => (Holds(k, x, a) /\ ~Gone(k, x, a)) \/ Come(k, x, a)
  <2> SUFFICES ASSUME NEW a \in Buffers, NEW k, NEW x, Holds(k, x, a)'
               PROVE  (Holds(k, x, a) /\ ~Gone(k, x, a)) \/ Come(k, x, a)
    OBVIOUS
  <2>0. Slot(mem) \in Slots
    BY DEF Slot, Slots
  <2>1. CASE InTodo(todo', k, x, a)
    BY <1>11, <2>0, <2>1 DEF Holds, InTodo, Slots
  <2>2. CASE InMem(mem', k, x, a)
    BY <1>11, <2>0, <2>2 DEF Holds, InMem, Slots
  <2>3. CASE InOutput(output', k, x, a)
    BY <1>11, <2>0, <2>3, SMTT(60) DEF Holds, InOutput, Slots
  <2>4. CASE InWait(wait', k, x, a)
    BY <2>0, <2>4 DEF Holds, InWait, Slots
  <2>5. CASE InWake(buf', k, x, a)
    BY <1>11, <2>0, <2>5 DEF Holds, InWake, Slots
  <2>6. CASE InReader(reader', k, x, a)
    BY <2>0, <2>6 DEF Holds, InReader, Slots
  <2>7. CASE InWorker(worker', k, x, a)
    BY <2>0, <2>7 DEF Holds, InWorker, Slots
  <2>8. CASE InWriter(writer', k, x, a)
    BY <2>0, <2>8 DEF Holds, InWriter, Slots
  <2>9. QED
    BY <2>1, <2>2, <2>3, <2>4, <2>5, <2>6, <2>7, <2>8 DEF Holds
<1>13. \A a \in Buffers : \A k, x : Come(k, x, a) =>
         \E l, y : /\ Holds(l, y, a) /\ Gone(l, y, a)
                   /\ (l \in Slots /\ k \notin Slots => buf'[a].comm # None)
  <2>1. Home(b) \in Slots /\ "to_wake" \notin Slots
    BY DEF Home, Slots
  <2>2. QED
    BY <1>7, <1>9, <1>11, <2>1
<1>14. \A a \in Buffers : \A k, x, l, y : Come(k, x, a) /\ Come(l, y, a) => k = l /\ x = y
  BY <1>6, <1>9
<1>15. \A a \in Buffers : \/ buf'[a].comm = buf[a].comm \/ buf'[a].comm # None
                          \/ \A k, x : Holds(k, x, a)' => k \in Slots
  <2>1. ASSUME NEW k, NEW x, Holds(k, x, b)' PROVE k \in Slots
    <3>1. (Holds(k, x, b) /\ ~Gone(k, x, b)) \/ Come(k, x, b)
      BY <1>12, <2>1
    <3>2. ~(Holds(k, x, b) /\ ~Gone(k, x, b))
      BY <1>3 DEF Apart
    <3>3. k = Home(b)
      BY <1>6, <1>9, <3>1, <3>2
    <3>4. QED
      BY <3>3 DEF Home, Slots
  <2>2. QED
    BY <1>11, <2>1
<1>16. Apart' /\ Known'
  <2> HIDE DEF Gone, Come
  <2>1. Moved(gone, come)
    BY <1>1, <1>2, <1>12, <1>13, <1>14, <1>15 DEF Moved
  <2>2. QED
    BY <1>3, <2>1, Moves
<1>17. Lists'
  <2>1. \A a \in Buffers : Once(buf'[a].to_wake)
    BY <1>10, <1>11, EmptyItems
  <2>2. QED
    BY <1>11, <2>1 DEF Lists
<1>18. QED
  BY <1>16, <1>17 DEF Own

LEMMA OneMoves ==
  ASSUME Own, NEW m \in Buffers, NEW k0, NEW x0, NEW k1, NEW x1,
         Holds(k0, x0, m), MovedOne(m, k0, x0, k1, x1), Lists'
  PROVE  Own'
<1>1. Apart /\ Known
  BY DEF Own
<1>2. Apart' /\ Known'
  BY <1>1, MovesOne
<1>3. QED
  BY <1>2 DEF Own

(* A reader that keeps what it has, or that gives its buffer away.         *)
LEMMA ReaderKeeps ==
  ASSUME ReaderOK, NEW c \in Conns, NEW y, reader' = [reader EXCEPT ![c] = y],
         y.pc \in Owning => y.b = reader[c].b /\ reader[c].pc \in Owning,
         y.p = reader[c].p \/ y.p = None
  PROVE  \A b \in Buffers : \A k, x :
           /\ InReader(reader', k, x, b) => InReader(reader, k, x, b)
           /\ y.pc \notin Owning /\ InReader(reader', k, x, b) => ~(k = "reader" /\ x = c)
<1>1. None \notin Buffers
  BY CommAssumption
<1>2. \A k, x, b : InReader(reader', k, x, b) =>
           \/ x # c /\ InReader(reader, k, x, b)
           \/ x = c /\ k = "reader" /\ y.b = b /\ y.pc \in Owning
           \/ x = c /\ k = "fetched" /\ y.p = b
  BY ReaderHolds
<1>3. QED
  BY <1>1, <1>2 DEF InReader

LEMMA ReaderStays ==
  ASSUME ReaderOK, NEW c \in Conns, NEW pc, reader' = [reader EXCEPT ![c].pc = pc],
         pc \in Owning => reader[c].pc \in Owning
  PROVE  \A b \in Buffers : \A k, x :
           /\ InReader(reader', k, x, b) => InReader(reader, k, x, b)
           /\ pc \notin Owning /\ InReader(reader', k, x, b) => ~(k = "reader" /\ x = c)
<1> DEFINE y == [reader[c] EXCEPT !.pc = pc]
<1>1. y.pc = pc /\ y.b = reader[c].b /\ y.p = reader[c].p
  BY DEF ReaderOK, Readers
<1>2. reader' = [reader EXCEPT ![c] = y]
  OBVIOUS
<1> HIDE DEF y
<1>3. QED
  BY <1>1, <1>2, ReaderKeeps

LEMMA KernelOwn ==
  ASSUME TypeOK, Own, NEW c \in Conns, KernelMoves(c) \/ ReadsAnswer(c)
  PROVE  Own'
<1>1. ASSUME NEW pc \in Owning, NEW msg, Reads(c, pc, msg), reader[c].pc = "recv"
      PROVE  Own'
  <2> DEFINE y == [reader[c] EXCEPT !.pc = pc, !.msg = msg]
  <2>1. y.pc = pc /\ y.b = reader[c].b /\ y.p = reader[c].p
    BY DEF TypeOK, ReaderOK, Readers
  <2>2. reader' = [reader EXCEPT ![c] = y]
    BY <1>1 DEF Reads
  <2> HIDE DEF y
  <2>3. "recv" \in Owning
    BY DEF Owning
  <2>4. \A b \in Buffers : \A k, x : InReader(reader', k, x, b) => InReader(reader, k, x, b)
    BY <1>1, <2>1, <2>2, <2>3, ReaderKeeps DEF TypeOK
  <2>5. UNCHANGED <<shared, worker, writer>>
    BY <1>1 DEF Reads
  <2>6. QED
    BY <2>4, <2>5, NothingMoves DEF shared, Own, Lists
<1>2. {"ready", "query", "answer"} \subseteq Owning
  BY DEF Owning
<1>3. CASE ReadFails(c)
  <2>1. /\ reader' = [reader EXCEPT ![c].pc = "close"] /\ reader[c].pc \in Owning
        /\ UNCHANGED <<buf, mem, todo, output, wait, worker, writer>>
    BY <1>3 DEF ReadFails, ReaderAt, Owning
  <2>2. \A b \in Buffers : \A k, x : InReader(reader', k, x, b) => InReader(reader, k, x, b)
    BY <2>1, ReaderStays DEF TypeOK
  <2>3. QED
    BY <2>1, <2>2, NothingMoves DEF Own, Lists
<1>4. QED
  BY <1>1, <1>2, <1>3 DEF KernelMoves, ReadsReadyRequest, ReadsQuery, ReadsAnswer,
     ReadsStrayAnswer, ReaderAt

LEMMA EndsOwn == ASSUME Own, NEW how, Ends(how) PROVE Own'
BY NothingMoves DEF Ends, shared, Own, Lists

-----------------------------------------------------------------------------
(* What each action moves.                                                 *)

(* comm_conn_init(): the buffer of _init() goes to todo.                   *)
LEMMA ConnInitOwn ==
  ASSUME TypeOK, Own, NEW c \in Conns, ConnInit(c, buf),
         UNCHANGED <<output, wait, worker, writer>>,
         \A b \in Buffers : \A k, x : InReader(reader', k, x, b) => InReader(reader, k, x, b)
  PROVE  Own'
<1>1. CASE conn[c].function_init
  <2> DEFINE p == Fresh(mem)
             y == InitBuffer(c, p)
  <2>1. /\ Available(mem) /\ mem' = Taken(mem)
        /\ todo' = comm_buf_to_queue(todo, p)
        /\ buf' = [buf EXCEPT ![p] = y]
    BY <1>1 DEF ConnInit
  <2>2. y.comm = c /\ y.to_wake = <<>> /\ c # None
    BY CommAssumption DEF InitBuffer, For, Blank
  <2>3. /\ p \in Buffers /\ Slot(mem) \in Slots /\ Holds(Slot(mem), None, p)
        /\ Once(mem'.slot0) /\ Once(mem'.slot1)
        /\ \A k, x, b : InMem(mem', k, x, b) =>
             InMem(mem, k, x, b) /\ ~(b = p /\ k = Slot(mem) /\ x = None)
        /\ p \notin Items(todo)
    BY <2>1, TakesFresh
  <2> HIDE DEF p, y
  <2>4. \A a \in Buffers : buf'[a] = IF a = p THEN y ELSE buf[a]
    BY <2>1 DEF TypeOK, BufOK
  <2>5. /\ \A k, x, b : InWake(buf', k, x, b) => InWake(buf, k, x, b)
        /\ \A a \in Buffers : Once(buf'[a].to_wake)
    BY <2>2, <2>4, WakeKept DEF Own
  <2>6. /\ Once(todo')
        /\ \A k, x, b : InTodo(todo', k, x, b) =>
             InTodo(todo, k, x, b) \/ (b = p /\ k = "todo" /\ x = None)
    BY <2>1, <2>3, ToTodo DEF Own, Lists, TypeOK, TodoOK
  <2>7. Lists'
    BY <2>3, <2>5, <2>6 DEF Own, Lists
  <2>8. \A b \in Buffers : \A k, x : Holds(k, x, b)' =>
          \/ Holds(k, x, b) /\ ~(b = p /\ k = Slot(mem) /\ x = None)
          \/ b = p /\ k = "todo" /\ x = None
    <3> SUFFICES ASSUME NEW b \in Buffers, NEW k, NEW x, Holds(k, x, b)'
                 PROVE  \/ Holds(k, x, b) /\ ~(b = p /\ k = Slot(mem) /\ x = None)
                        \/ b = p /\ k = "todo" /\ x = None
      OBVIOUS
    <3>1. k \in Slots => InMem(mem', k, x, b)
      BY DEF Holds, Slots, InTodo, InOutput, InWait, InWake, InReader, InWorker, InWriter
    <3>2. QED
      BY <2>3, <2>5, <2>6, <3>1 DEF Holds
  <2>9. MovedOne(p, Slot(mem), None, "todo", None)
    BY <2>2, <2>3, <2>4, <2>8 DEF MovedOne
  <2>10. QED
    BY <2>3, <2>7, <2>9, OneMoves
<1>2. CASE ~conn[c].function_init
  <2>1. UNCHANGED <<buf, mem, todo>>
    BY <1>2 DEF ConnInit
  <2>2. QED
    BY <2>1, NothingMoves DEF Own, Lists
<1>3. QED
  BY <1>1, <1>2

LEMMA OutputQueued ==
  ASSUME OutputOK, Lists, NEW c \in Conns, NEW r \in Buffers, r \notin Items(output[c]),
         Queued(output, output', c, r)
  PROVE  /\ \A d \in Conns : Once(output'[d])
         /\ \A k, x, b : InOutput(output', k, x, b) =>
              InOutput(output, k, x, b) \/ (b = r /\ k = "output" /\ x = c)
<1>1. output \in Queues /\ \A d \in Conns : Once(output[d])
  BY DEF OutputOK, Lists
<1>2. QED
  BY <1>1, ToQueue

LEMMA WaitQueued ==
  ASSUME WaitOK, Lists, NEW c \in Conns, NEW r \in Buffers, r \notin Items(wait[c]),
         Queued(wait, wait', c, r)
  PROVE  /\ \A d \in Conns : Once(wait'[d])
         /\ \A k, x, b : InWait(wait', k, x, b) =>
              InWait(wait, k, x, b) \/ (b = r /\ k = "wait" /\ x = c)
<1>1. wait \in Queues /\ \A d \in Conns : Once(wait[d])
  BY DEF WaitOK, Lists
<1>2. QED
  BY <1>1, ToQueue

(* A message for the kernel: a new buffer goes to output.                  *)
LEMMA SendsOwn ==
  ASSUME TypeOK, Own, NEW c \in Conns, Available(mem), mem' = Taken(mem),
         NEW y, NEW bufs \in [Buffers -> Contents], y.comm = c, y.to_wake = <<>>,
         \A a \in Buffers : bufs[a].comm = buf[a].comm /\ bufs[a].to_wake = buf[a].to_wake,
         buf' = [bufs EXCEPT ![Fresh(mem)] = y],
         Queued(output, output', c, Fresh(mem)),
         UNCHANGED <<todo, wait, writer>>,
         \A b \in Buffers : \A k, x :
           /\ InReader(reader', k, x, b) => InReader(reader, k, x, b)
           /\ InWorker(worker', k, x, b) => InWorker(worker, k, x, b)
  PROVE  Own'
<1> DEFINE r == Fresh(mem)
<1>1. /\ r \in Buffers /\ Slot(mem) \in Slots /\ Holds(Slot(mem), None, r)
      /\ Once(mem'.slot0) /\ Once(mem'.slot1)
      /\ \A k, x, b : InMem(mem', k, x, b) =>
           InMem(mem, k, x, b) /\ ~(b = r /\ k = Slot(mem) /\ x = None)
      /\ \A d \in Conns : r \notin Items(output[d])
  BY TakesFresh
<1> HIDE DEF r
<1>2. \A a \in Buffers : buf'[a] = IF a = r THEN y ELSE bufs[a]
  BY DEF r
<1>3. /\ \A k, x, b : InWake(buf', k, x, b) => InWake(buf, k, x, b)
      /\ \A a \in Buffers : Once(buf'[a].to_wake)
  BY <1>2, WakeKept DEF Own
<1>4. /\ \A d \in Conns : Once(output'[d])
      /\ \A k, x, b : InOutput(output', k, x, b) =>
           InOutput(output, k, x, b) \/ (b = r /\ k = "output" /\ x = c)
  <2>1. Queued(output, output', c, r)
    BY DEF r
  <2>2. r \in Buffers /\ r \notin Items(output[c]) /\ OutputOK /\ Lists
    BY <1>1 DEF TypeOK, Own
  <2>3. QED
    BY <2>1, <2>2, OutputQueued
<1>5. Lists'
  BY <1>1, <1>3, <1>4 DEF Own, Lists
<1>6. \A b \in Buffers : \A k, x : Holds(k, x, b)' =>
        \/ Holds(k, x, b) /\ ~(b = r /\ k = Slot(mem) /\ x = None)
        \/ b = r /\ k = "output" /\ x = c
  <2> SUFFICES ASSUME NEW b \in Buffers, NEW k, NEW x, Holds(k, x, b)'
               PROVE  \/ Holds(k, x, b) /\ ~(b = r /\ k = Slot(mem) /\ x = None)
                      \/ b = r /\ k = "output" /\ x = c
    OBVIOUS
  <2>1. k \in Slots => InMem(mem', k, x, b)
    BY DEF Holds, Slots, InTodo, InOutput, InWait, InWake, InReader, InWorker, InWriter
  <2>2. QED
    BY <1>1, <1>3, <1>4, <2>1 DEF Holds
<1>7. MovedOne(r, Slot(mem), None, "output", c)
  BY <1>1, <1>2, <1>6, CommAssumption DEF MovedOne
<1>8. QED
  BY <1>1, <1>5, <1>7, OneMoves

(* What a thread holds.                                                    *)
LEMMA OwningPcs ==
  /\ {"recv", "query", "todo", "answer", "body", "ready", "readyanswer",
      "free", "close", "closing", "fail"} \subseteq Owning
  /\ \A pc \in {"get", "check", "close again", "closing again", "dead"} : pc \notin Owning
BY DEF Owning

LEMMA ThreadsHave ==
  ASSUME TypeOK
  PROVE  /\ \A c \in Conns : reader[c].pc \in Owning =>
              reader[c].b \in Buffers /\ Holds("reader", c, reader[c].b)
         /\ \A c \in Conns : reader[c].pc = "body" =>
              reader[c].p \in Buffers /\ Holds("fetched", c, reader[c].p)
         /\ \A w \in Workers : worker[w].pc \in {"got", "free", "initfree"} =>
              worker[w].b \in Buffers /\ Holds("worker", w, worker[w].b)
         /\ \A w \in Workers : worker[w].pc = "send" =>
              worker[w].r \in Buffers /\ Holds("request", w, worker[w].r)
         /\ \A c \in Conns : writer[c].pc = "free" =>
              writer[c].b \in Buffers /\ Holds("writer", c, writer[c].b)
<1>1. ReaderOK /\ WorkerOK /\ WriterOK
  BY DEF TypeOK
<1>2. \A c \in Conns : reader[c].pc \in Owning =>
        reader[c].b \in Buffers /\ Holds("reader", c, reader[c].b)
  BY <1>1 DEF ReaderOK, Holds, InReader
<1>3. \A c \in Conns : reader[c].pc = "body" =>
        reader[c].p \in Buffers /\ Holds("fetched", c, reader[c].p)
  BY <1>1 DEF ReaderOK, Holds, InReader
<1>4. \A w \in Workers : worker[w].pc \in {"got", "free", "initfree"} =>
        worker[w].b \in Buffers /\ Holds("worker", w, worker[w].b)
  BY <1>1 DEF WorkerOK, Holds, InWorker
<1>5. \A w \in Workers : worker[w].pc = "send" =>
        worker[w].r \in Buffers /\ Holds("request", w, worker[w].r)
  BY <1>1 DEF WorkerOK, Holds, InWorker
<1>6. \A c \in Conns : writer[c].pc = "free" =>
        writer[c].b \in Buffers /\ Holds("writer", c, writer[c].b)
  BY <1>1 DEF WriterOK, Holds, InWriter
<1>7. QED
  BY <1>2, <1>3, <1>4, <1>5, <1>6

(* A buffer goes to todo.                                                  *)
LEMMA TodoOwn ==
  ASSUME TypeOK, Own, NEW m \in Buffers, NEW k0, NEW x0, Holds(k0, x0, m),
         k0 \notin Slots \cup {"todo", "output", "to_wake"},
         todo' = comm_buf_to_queue(todo, m), UNCHANGED <<mem, output, writer>>,
         \A b \in Buffers : \A k, x :
           /\ InWait(wait', k, x, b) =>
                InWait(wait, k, x, b) /\ ~(b = m /\ k = k0 /\ x = x0)
           /\ InReader(reader', k, x, b) =>
                InReader(reader, k, x, b) /\ ~(b = m /\ k = k0 /\ x = x0)
           /\ InWorker(worker', k, x, b) =>
                InWorker(worker, k, x, b) /\ ~(b = m /\ k = k0 /\ x = x0),
         k0 # "writer",
         \A a \in Buffers : /\ buf'[a].comm = buf[a].comm
                            /\ buf'[a].to_wake = buf[a].to_wake,
         \A c \in Conns : Once(wait'[c])
  PROVE  Own'
<1>1. Apart /\ Lists
  BY DEF Own
<1>2. m \notin Items(todo)
  BY <1>1, Elsewhere
<1>3. /\ Once(todo')
      /\ \A k, x, b : InTodo(todo', k, x, b) =>
           InTodo(todo, k, x, b) \/ (b = m /\ k = "todo" /\ x = None)
  BY <1>1, <1>2, ToTodo DEF Lists, TypeOK, TodoOK
<1>4. /\ \A k, x, b : InWake(buf', k, x, b) => InWake(buf, k, x, b)
      /\ \A a \in Buffers : Once(buf'[a].to_wake)
  BY <1>1, WakeKept
<1>5. Lists'
  BY <1>1, <1>3, <1>4 DEF Lists
<1>6. \A b \in Buffers : \A k, x : Holds(k, x, b)' =>
        \/ Holds(k, x, b) /\ ~(b = m /\ k = k0 /\ x = x0)
        \/ b = m /\ k = "todo" /\ x = None
  <2> SUFFICES ASSUME NEW b \in Buffers, NEW k, NEW x, Holds(k, x, b)'
               PROVE  \/ Holds(k, x, b) /\ ~(b = m /\ k = k0 /\ x = x0)
                      \/ b = m /\ k = "todo" /\ x = None
    OBVIOUS
  <2>1. CASE InTodo(todo', k, x, b)
    BY <1>3, <2>1 DEF Holds, InTodo
  <2>2. CASE InMem(mem', k, x, b)
    BY <2>2 DEF Holds, InMem, Slots
  <2>3. CASE InOutput(output', k, x, b)
    BY <2>3 DEF Holds, InOutput
  <2>4. CASE InWake(buf', k, x, b)
    BY <1>4, <2>4 DEF Holds, InWake
  <2>5. CASE InWriter(writer', k, x, b)
    BY <2>5 DEF Holds, InWriter
  <2>6. QED
    BY <2>1, <2>2, <2>3, <2>4, <2>5 DEF Holds
<1>7. MovedOne(m, k0, x0, "todo", None)
  BY <1>6 DEF MovedOne
<1>8. QED
  BY <1>5, <1>7, OneMoves

LEMMA ReaderQueryOwn ==
  ASSUME TypeOK, Own, NEW c \in Conns,
         \/ ReadyRequest(c) \/ QueryInits(c) \/ QueryRefused(c) \/ InitRefused(c)
         \/ QueryPasses(c) \/ ReaderChecks(c)
  PROVE  Own'
<1>1. CASE ReadyRequest(c)
  <2> DEFINE pc == IF conn[c].function_init THEN "free" ELSE "readyanswer"
  <2>1. /\ reader[c].pc = "ready" /\ ConnInit(c, buf)
        /\ reader' = [reader EXCEPT ![c].pc = pc]
        /\ UNCHANGED <<output, wait, worker, writer>>
    BY <1>1 DEF ReadyRequest, ReaderAt
  <2>2. pc \in Owning /\ "ready" \in Owning
    BY OwningPcs
  <2> HIDE DEF pc
  <2>3. \A b \in Buffers : \A k, x : InReader(reader', k, x, b) => InReader(reader, k, x, b)
    BY <2>1, <2>2, ReaderStays DEF TypeOK
  <2>4. QED
    BY <2>1, <2>3, ConnInitOwn
<1>2. CASE QueryInits(c)
  <2>1. ConnInit(c, buf) /\ UNCHANGED <<output, wait, worker, writer, reader>>
    BY <1>2 DEF QueryInits
  <2>2. QED
    BY <2>1, ConnInitOwn
<1>3. CASE QueryRefused(c) \/ InitRefused(c)
  <2>1. /\ reader' = [reader EXCEPT ![c].pc = "close"] /\ reader[c].pc \in {"query", "ready"}
        /\ UNCHANGED <<buf, mem, todo, output, wait, worker, writer>>
    BY <1>3 DEF QueryRefused, InitRefused, ReaderAt
  <2>2. \A b \in Buffers : \A k, x : InReader(reader', k, x, b) => InReader(reader, k, x, b)
    BY <2>1, OwningPcs, ReaderStays DEF TypeOK
  <2>3. QED
    BY <2>1, <2>2, NothingMoves DEF Own, Lists
<1>4. CASE QueryPasses(c)
  <2>1. /\ reader' = [reader EXCEPT ![c].pc = "todo"] /\ reader[c].pc = "query"
        /\ buf' = [buf EXCEPT ![reader[c].b].req = reader[c].msg]
        /\ UNCHANGED <<mem, todo, output, wait, worker, writer>>
    BY <1>4 DEF QueryPasses, ReaderAt
  <2>2. \A b \in Buffers : \A k, x : InReader(reader', k, x, b) => InReader(reader, k, x, b)
    BY <2>1, OwningPcs, ReaderStays DEF TypeOK
  <2>3. \A a \in Buffers : buf'[a].comm = buf[a].comm /\ buf'[a].to_wake = buf[a].to_wake
    BY <2>1 DEF TypeOK, BufOK, Contents
  <2>4. QED
    BY <2>1, <2>2, <2>3, NothingMoves DEF Own, Lists
<1>5. CASE ReaderChecks(c)
  <2>1. CASE Ends("undefined")
    BY <2>1, EndsOwn
  <2>2. CASE /\ reader' = [reader EXCEPT ![c] = ReaderIdle]
             /\ UNCHANGED <<shared, worker, writer, status, kernel, told, history>>
    <3>1. ReaderIdle.pc = "get" /\ ReaderIdle.p = None
      BY DEF ReaderIdle
    <3>2. \A b \in Buffers : \A k, x : InReader(reader', k, x, b) => InReader(reader, k, x, b)
      BY <2>2, <3>1, OwningPcs, ReaderKeeps DEF TypeOK
    <3>3. QED
      BY <2>2, <3>2, NothingMoves DEF shared, Own, Lists
  <2>3. QED
    BY <1>5, <2>1, <2>2 DEF ReaderChecks
<1>6. QED
  BY <1>1, <1>2, <1>3, <1>4, <1>5

(* A query goes to todo, or to to_wake of the buffer of _init().           *)
LEMMA ReaderQueuesOwn ==
  ASSUME TypeOK, Own, NEW c \in Conns, QueryQueued(c) \/ QueryWaits(c)
  PROVE  Own'
<1> DEFINE b == reader[c].b
<1>1. reader[c].pc \in Owning
  BY OwningPcs DEF QueryQueued, QueryWaits, ReaderAt
<1>2. b \in Buffers /\ Holds("reader", c, b)
  BY <1>1, ThreadsHave
<1>3. reader' = [reader EXCEPT ![c].pc = "check"]
  BY DEF QueryQueued, QueryWaits
<1>4. \A a \in Buffers : \A k, x : InReader(reader', k, x, a) =>
        InReader(reader, k, x, a) /\ ~(k = "reader" /\ x = c)
  BY <1>3, OwningPcs, ReaderStays DEF TypeOK
<1>5. "reader" \notin Slots
  BY DEF Slots
<1> HIDE DEF b
<1>6. CASE QueryQueued(c)
  <2>1. /\ todo' = comm_buf_to_queue(todo, b)
        /\ UNCHANGED <<buf, mem, output, wait, worker, writer>>
    BY <1>6 DEF QueryQueued, b
  <2>2. \A a \in Buffers : \A k, x :
          /\ InWait(wait', k, x, a) =>
               InWait(wait, k, x, a) /\ ~(a = b /\ k = "reader" /\ x = c)
          /\ InReader(reader', k, x, a) =>
               InReader(reader, k, x, a) /\ ~(a = b /\ k = "reader" /\ x = c)
          /\ InWorker(worker', k, x, a) =>
               InWorker(worker, k, x, a) /\ ~(a = b /\ k = "reader" /\ x = c)
    BY <1>4, <2>1 DEF InWait, InWorker
  <2>3. QED
    BY <1>2, <1>5, <2>1, <2>2, TodoOwn DEF Own, Lists
<1>7. CASE QueryWaits(c)
  <2> DEFINE i == conn[c].init_buffer
             y == [buf EXCEPT ![b].req = reader[c].msg]
  <2>1. /\ buf' = [y EXCEPT ![i].to_wake = comm_buf_to_queue(@, b)]
        /\ UNCHANGED <<mem, todo, output, wait, worker, writer>>
    BY <1>7 DEF QueryWaits, b
  <2>2. i \in Buffers
    BY <1>7 DEF QueryWaits, TypeOK, ConnOK, Connections
  <2>3. y \in [Buffers -> Contents]
    <3>1. reader[c].msg \in Requests
      BY <1>7 DEF QueryWaits, ReaderAt, TypeOK, ReaderOK
    <3>2. [buf[b] EXCEPT !.req = reader[c].msg] \in Contents
      BY <1>2, <3>1, ReqSet DEF TypeOK, BufOK
    <3>3. QED
      BY <3>2 DEF TypeOK, BufOK
  <2>4. \A a \in Buffers : y[a].comm = buf[a].comm /\ y[a].to_wake = buf[a].to_wake
    BY DEF TypeOK, BufOK, Contents
  <2> HIDE DEF i, y
  <2>5. /\ \A a \in Buffers : buf'[a].comm = buf[a].comm
        /\ \A a \in Buffers \ {i} : buf'[a].to_wake = buf[a].to_wake
        /\ buf'[i].to_wake = Append(buf[i].to_wake, b)
    BY <2>1, <2>2, <2>3, <2>4 DEF Contents, comm_buf_to_queue
  <2>6. /\ Once(buf'[i].to_wake)
        /\ Items(buf'[i].to_wake) = Items(buf[i].to_wake) \cup {b}
    <3>1. b \notin Items(buf[i].to_wake) /\ Once(buf[i].to_wake)
      BY <1>2, <2>2, Elsewhere DEF Own, Lists
    <3>2. buf[i].to_wake \in Seq(Buffers)
      BY <2>2 DEF TypeOK, BufOK, Contents
    <3>3. QED
      BY <1>2, <2>5, <3>1, <3>2, AppendItems
  <2>7. Lists'
    BY <2>1, <2>5, <2>6 DEF Own, Lists
  <2>8. \A k, x, a : InWake(buf', k, x, a) =>
          InWake(buf, k, x, a) \/ (a = b /\ k = "to_wake" /\ x = i)
    BY <2>5, <2>6 DEF InWake
  <2>9. \A a \in Buffers : \A k, x : Holds(k, x, a)' =>
          \/ Holds(k, x, a) /\ ~(a = b /\ k = "reader" /\ x = c)
          \/ a = b /\ k = "to_wake" /\ x = i
    <3> SUFFICES ASSUME NEW a \in Buffers, NEW k, NEW x, Holds(k, x, a)'
                 PROVE  \/ Holds(k, x, a) /\ ~(a = b /\ k = "reader" /\ x = c)
                        \/ a = b /\ k = "to_wake" /\ x = i
      OBVIOUS
    <3>1. CASE InReader(reader', k, x, a)
      BY <1>4, <3>1 DEF Holds
    <3>2. CASE InWake(buf', k, x, a)
      BY <2>8, <3>2 DEF Holds, InWake
    <3>3. CASE \/ InTodo(todo', k, x, a) \/ InMem(mem', k, x, a)
               \/ InOutput(output', k, x, a) \/ InWait(wait', k, x, a)
               \/ InWorker(worker', k, x, a) \/ InWriter(writer', k, x, a)
      BY <2>1, <3>3 DEF Holds, InTodo, InMem, InOutput, InWait, InWorker, InWriter
    <3>4. QED
      BY <3>1, <3>2, <3>3 DEF Holds
  <2>10. MovedOne(b, "reader", c, "to_wake", i)
    BY <1>5, <2>5, <2>9 DEF MovedOne
  <2>11. QED
    BY <1>2, <2>7, <2>10, OneMoves
<1>8. QED
  BY <1>6, <1>7

LEMMA ReaderTakesOwn ==
  ASSUME TypeOK, Own, NEW c \in Conns, ReaderGets(c) \/ ReadyAnswer(c)
  PROVE  Own'
<1> DEFINE r == Fresh(mem)
<1>1. Available(mem) /\ mem' = Taken(mem)
  BY DEF ReaderGets, ReadyAnswer
<1>2. CASE ReaderGets(c)
  <2> DEFINE y == [reader[c] EXCEPT !.pc = "recv", !.b = r]
             z == For(c)
  <2>1. /\ reader' = [reader EXCEPT ![c] = y] /\ reader[c].pc = "get"
        /\ buf' = [buf EXCEPT ![r] = z]
        /\ UNCHANGED <<todo, output, wait, worker, writer>>
    BY <1>2 DEF ReaderGets, ReaderAt
  <2>2. y.pc = "recv" /\ y.b = r /\ y.p = reader[c].p
    BY DEF TypeOK, ReaderOK, Readers
  <2>3. z.comm = c /\ z.to_wake = <<>> /\ c # None
    BY CommAssumption DEF For, Blank
  <2>4. /\ r \in Buffers /\ Slot(mem) \in Slots /\ Holds(Slot(mem), None, r)
        /\ Once(mem'.slot0) /\ Once(mem'.slot1)
        /\ \A k, x, b : InMem(mem', k, x, b) =>
             InMem(mem, k, x, b) /\ ~(b = r /\ k = Slot(mem) /\ x = None)
    BY <1>1, TakesFresh
  <2> HIDE DEF r, y, z
  <2>5. \A a \in Buffers : buf'[a] = IF a = r THEN z ELSE buf[a]
    BY <2>1 DEF TypeOK, BufOK
  <2>6. /\ \A k, x, b : InWake(buf', k, x, b) => InWake(buf, k, x, b)
        /\ \A a \in Buffers : Once(buf'[a].to_wake)
    BY <2>3, <2>5, WakeKept DEF Own
  <2>7. Lists'
    BY <2>1, <2>4, <2>6 DEF Own, Lists
  <2>8. \A k, x, b : InReader(reader', k, x, b) =>
          InReader(reader, k, x, b) \/ (b = r /\ k = "reader" /\ x = c)
    <3>1. \A k, x, b : InReader(reader', k, x, b) =>
            \/ x # c /\ InReader(reader, k, x, b)
            \/ x = c /\ k = "reader" /\ y.b = b /\ y.pc \in Owning
            \/ x = c /\ k = "fetched" /\ y.p = b
      BY <2>1, ReaderHolds DEF TypeOK
    <3>2. QED
      BY <2>2, <3>1 DEF InReader
  <2>9. \A b \in Buffers : \A k, x : Holds(k, x, b)' =>
          \/ Holds(k, x, b) /\ ~(b = r /\ k = Slot(mem) /\ x = None)
          \/ b = r /\ k = "reader" /\ x = c
    <3> SUFFICES ASSUME NEW b \in Buffers, NEW k, NEW x, Holds(k, x, b)'
                 PROVE  \/ Holds(k, x, b) /\ ~(b = r /\ k = Slot(mem) /\ x = None)
                        \/ b = r /\ k = "reader" /\ x = c
      OBVIOUS
    <3>1. CASE InMem(mem', k, x, b)
      BY <2>4, <3>1 DEF Holds
    <3>2. CASE InReader(reader', k, x, b)
      BY <2>4, <2>8, <3>2 DEF Holds, InReader, Slots
    <3>3. CASE InWake(buf', k, x, b)
      BY <2>4, <2>6, <3>3 DEF Holds, InWake, Slots
    <3>4. CASE \/ InTodo(todo', k, x, b) \/ InOutput(output', k, x, b)
               \/ InWait(wait', k, x, b) \/ InWorker(worker', k, x, b)
               \/ InWriter(writer', k, x, b)
      BY <2>1, <2>4, <3>4 DEF Holds, InTodo, InOutput, InWait, InWorker, InWriter, Slots
    <3>5. QED
      BY <3>1, <3>2, <3>3, <3>4 DEF Holds
  <2>10. MovedOne(r, Slot(mem), None, "reader", c)
    BY <2>3, <2>4, <2>5, <2>9 DEF MovedOne
  <2>11. QED
    BY <2>4, <2>7, <2>10, OneMoves
<1>3. CASE ReadyAnswer(c)
  <2> DEFINE y == Outgoing(c, [kind |-> "ready"])
  <2>1. /\ reader' = [reader EXCEPT ![c].pc = "free"] /\ reader[c].pc = "readyanswer"
        /\ buf' = [buf EXCEPT ![Fresh(mem)] = y]
        /\ UNCHANGED <<todo, wait, worker, writer>>
    BY <1>3 DEF ReadyAnswer, ReaderAt
  <2>2. Queued(output, output', c, Fresh(mem))
    BY <1>3 DEF ReadyAnswer, Queued, TypeOK, OutputOK, Queues
  <2>3. y.comm = c /\ y.to_wake = <<>>
    BY DEF Outgoing, For, Blank
  <2>4. \A b \in Buffers : \A k, x : InReader(reader', k, x, b) => InReader(reader, k, x, b)
    BY <2>1, OwningPcs, ReaderStays DEF TypeOK
  <2>5. buf \in [Buffers -> Contents]
    BY DEF TypeOK, BufOK
  <2> HIDE DEF y
  <2>6. QED
    BY <1>1, <2>1, <2>2, <2>3, <2>4, <2>5, SendsOwn
<1>4. QED
  BY <1>2, <1>3

(* A buffer leaves wait_for_answer.                                        *)
LEMMA Unwaits ==
  ASSUME TypeOK, Own, NEW c \in Conns, NEW op, Waiters(c, op) # {}, NoLongerWaits(c, op)
  PROVE  /\ Waiter(c, op) \in Buffers /\ Holds("wait", c, Waiter(c, op))
         /\ \A d \in Conns : Once(wait'[d])
         /\ \A k, x, b : InWait(wait', k, x, b) =>
              InWait(wait, k, x, b) /\ ~(b = Waiter(c, op) /\ k = "wait" /\ x = c)
<1> DEFINE i == Match(c, op)
<1>1. Waiter(c, op) \in Buffers /\ i \in DOMAIN wait[c] /\ Waiter(c, op) = wait[c][i]
  BY WaiterOK DEF TypeOK, Waiter
<1>2. wait[c] \in Seq(Buffers) /\ \A d \in Conns : Once(wait[d])
  BY DEF TypeOK, WaitOK, Queues, Own, Lists
<1>3. \A d \in Conns : wait'[d] = IF d = c THEN Without(wait[c], i) ELSE wait[d]
  BY DEF NoLongerWaits, TypeOK, WaitOK, Queues
<1> HIDE DEF i
<1>4. /\ Items(Without(wait[c], i)) = Items(wait[c]) \ {wait[c][i]}
      /\ wait[c][i] \in Items(wait[c]) /\ Once(Without(wait[c], i))
  BY <1>1, <1>2, WithoutItems
<1>5. Holds("wait", c, Waiter(c, op))
  BY <1>1, <1>4 DEF Holds, InWait
<1>6. QED
  BY <1>1, <1>2, <1>3, <1>4, <1>5 DEF InWait

LEMMA ReaderAnswersOwn ==
  ASSUME TypeOK, Own, NEW c \in Conns,
         \/ UpdateAnswered(c) \/ FetchFailed(c) \/ FetchAnswered(c) \/ FetchDone(c)
  PROVE  Own'
<1> DEFINE op == reader[c].msg.op
           p == Waiter(c, op)
<1>1. "wait" \notin Slots /\ "fetched" \notin Slots
  BY DEF Slots
<1>2. \A q \in Buffers : \A out : Wake(q, out) =>
        /\ todo' = comm_buf_to_queue(todo, q)
        /\ \A a \in Buffers : buf'[a].comm = buf[a].comm /\ buf'[a].to_wake = buf[a].to_wake
  BY DEF Wake, TypeOK, BufOK, Contents
<1>3. Waiters(c, op) # {} /\ NoLongerWaits(c, op) =>
        /\ p \in Buffers /\ Holds("wait", c, p)
        /\ \A d \in Conns : Once(wait'[d])
        /\ \A k, x, b : InWait(wait', k, x, b) =>
             InWait(wait, k, x, b) /\ ~(b = p /\ k = "wait" /\ x = c)
  BY Unwaits
<1> HIDE DEF op, p
<1>4. ASSUME UNCHANGED <<mem, output, worker, writer>>,
             reader' = [reader EXCEPT ![c].pc = "free"], reader[c].pc = "answer",
             Waiters(c, op) # {}, NoLongerWaits(c, op),
             todo' = comm_buf_to_queue(todo, p),
             \A a \in Buffers : buf'[a].comm = buf[a].comm /\ buf'[a].to_wake = buf[a].to_wake
      PROVE  Own'
  <2>1. \A b \in Buffers : \A k, x : InReader(reader', k, x, b) => InReader(reader, k, x, b)
    BY <1>4, OwningPcs, ReaderStays DEF TypeOK
  <2>2. \A b \in Buffers : \A k, x :
          /\ InWait(wait', k, x, b) =>
               InWait(wait, k, x, b) /\ ~(b = p /\ k = "wait" /\ x = c)
          /\ InReader(reader', k, x, b) =>
               InReader(reader, k, x, b) /\ ~(b = p /\ k = "wait" /\ x = c)
          /\ InWorker(worker', k, x, b) =>
               InWorker(worker, k, x, b) /\ ~(b = p /\ k = "wait" /\ x = c)
    BY <1>3, <1>4, <2>1 DEF InReader, InWorker
  <2>3. QED
    BY <1>1, <1>3, <1>4, <2>2, TodoOwn
<1>5. CASE UpdateAnswered(c)
  <2>1. /\ reader[c].pc = "answer" /\ Waiters(c, op) # {} /\ NoLongerWaits(c, op)
        /\ Wake(p, reader[c].msg.outcome)
        /\ reader' = [reader EXCEPT ![c].pc = "free"]
        /\ UNCHANGED <<mem, output, worker, writer>>
    BY <1>5 DEF UpdateAnswered, AnswerRead, ReaderAt, op, p
  <2>2. QED
    BY <1>2, <1>3, <1>4, <2>1
<1>6. CASE FetchFailed(c)
  <2>1. /\ reader[c].pc = "answer"
        /\ reader' = [reader EXCEPT ![c].pc = "free"]
        /\ UNCHANGED <<mem, output, worker, writer, buf>>
    BY <1>6 DEF FetchFailed, AnswerRead, ReaderAt
  <2>2. CASE Waiters(c, op) # {}
    <3>1. NoLongerWaits(c, op) /\ todo' = comm_buf_to_queue(todo, p)
      BY <1>6, <2>2 DEF FetchFailed, op, p
    <3>2. QED
      BY <1>4, <2>1, <2>2, <3>1
  <2>3. CASE ~(Waiters(c, op) # {})
    <3>1. UNCHANGED <<wait, todo>>
      BY <1>6, <2>3 DEF FetchFailed, op
    <3>2. \A b \in Buffers : \A k, x : InReader(reader', k, x, b) => InReader(reader, k, x, b)
      BY <2>1, OwningPcs, ReaderStays DEF TypeOK
    <3>3. QED
      BY <2>1, <3>1, <3>2, NothingMoves DEF Own, Lists
  <2>4. QED
    BY <2>2, <2>3
<1>7. CASE FetchAnswered(c)
  <2> DEFINE y == [reader[c] EXCEPT !.pc = "body", !.p = p]
  <2>1. /\ reader[c].pc = "answer" /\ Waiters(c, op) # {} /\ NoLongerWaits(c, op)
        /\ reader' = [reader EXCEPT ![c] = y]
        /\ UNCHANGED <<buf, mem, todo, output, worker, writer>>
    BY <1>7 DEF FetchAnswered, AnswerRead, ReaderAt, op, p
  <2>2. y.pc = "body" /\ y.b = reader[c].b /\ y.p = p
    BY DEF TypeOK, ReaderOK, Readers
  <2> HIDE DEF y
  <2>3. \A k, x, b : InReader(reader', k, x, b) =>
          InReader(reader, k, x, b) \/ (b = p /\ k = "fetched" /\ x = c)
    <3>1. \A k, x, b : InReader(reader', k, x, b) =>
            \/ x # c /\ InReader(reader, k, x, b)
            \/ x = c /\ k = "reader" /\ y.b = b /\ y.pc \in Owning
            \/ x = c /\ k = "fetched" /\ y.p = b
      BY <2>1, ReaderHolds DEF TypeOK
    <3>2. "answer" \in Owning
      BY OwningPcs
    <3>3. QED
      BY <2>1, <2>2, <3>1, <3>2 DEF InReader
  <2>4. Lists'
    BY <1>3, <2>1 DEF Own, Lists
  <2>5. \A b \in Buffers : \A k, x : Holds(k, x, b)' =>
          \/ Holds(k, x, b) /\ ~(b = p /\ k = "wait" /\ x = c)
          \/ b = p /\ k = "fetched" /\ x = c
    <3> SUFFICES ASSUME NEW b \in Buffers, NEW k, NEW x, Holds(k, x, b)'
                 PROVE  \/ Holds(k, x, b) /\ ~(b = p /\ k = "wait" /\ x = c)
                        \/ b = p /\ k = "fetched" /\ x = c
      OBVIOUS
    <3>1. CASE InReader(reader', k, x, b)
      BY <2>3, <3>1 DEF Holds, InReader
    <3>2. CASE InWait(wait', k, x, b)
      BY <1>3, <2>1, <3>2 DEF Holds
    <3>3. CASE \/ InTodo(todo', k, x, b) \/ InMem(mem', k, x, b)
               \/ InOutput(output', k, x, b) \/ InWake(buf', k, x, b)
               \/ InWorker(worker', k, x, b) \/ InWriter(writer', k, x, b)
      BY <2>1, <3>3 DEF Holds, InTodo, InMem, InOutput, InWake, InWorker, InWriter
    <3>4. QED
      BY <3>1, <3>2, <3>3 DEF Holds
  <2>6. MovedOne(p, "wait", c, "fetched", c)
    BY <1>1, <2>1, <2>5 DEF MovedOne
  <2>7. QED
    BY <1>3, <2>1, <2>4, <2>6, OneMoves
<1>8. CASE FetchDone(c)
  <2> DEFINE y == [reader[c] EXCEPT !.pc = "free", !.p = None]
             q == reader[c].p
  <2>1. /\ reader[c].pc = "body" /\ Wake(q, "ok")
        /\ reader' = [reader EXCEPT ![c] = y]
        /\ UNCHANGED <<mem, output, wait, worker, writer>>
    BY <1>8 DEF FetchDone, ReaderAt
  <2>2. y.pc = "free" /\ y.b = reader[c].b /\ y.p = None
    BY DEF TypeOK, ReaderOK, Readers
  <2>3. q \in Buffers /\ Holds("fetched", c, q)
    BY <2>1, ThreadsHave
  <2> HIDE DEF y, q
  <2>4. \A k, x : \A b \in Buffers : InReader(reader', k, x, b) =>
          InReader(reader, k, x, b) /\ ~(b = q /\ k = "fetched" /\ x = c)
    <3>1. \A k, x, b : InReader(reader', k, x, b) =>
            \/ x # c /\ InReader(reader, k, x, b)
            \/ x = c /\ k = "reader" /\ y.b = b /\ y.pc \in Owning
            \/ x = c /\ k = "fetched" /\ y.p = b
      BY <2>1, ReaderHolds DEF TypeOK
    <3>2. "body" \in Owning /\ None \notin Buffers
      BY OwningPcs, CommAssumption
    <3>3. QED
      BY <2>1, <2>2, <3>1, <3>2 DEF InReader
  <2>5. \A b \in Buffers : \A k, x :
          /\ InWait(wait', k, x, b) =>
               InWait(wait, k, x, b) /\ ~(b = q /\ k = "fetched" /\ x = c)
          /\ InReader(reader', k, x, b) =>
               InReader(reader, k, x, b) /\ ~(b = q /\ k = "fetched" /\ x = c)
          /\ InWorker(worker', k, x, b) =>
               InWorker(worker, k, x, b) /\ ~(b = q /\ k = "fetched" /\ x = c)
    BY <2>1, <2>4, ZenonT(60) DEF InWait, InWorker
  <2>6. QED
    BY <1>1, <1>2, <2>1, <2>3, <2>5, TodoOwn DEF Own, Lists
<1>9. QED
  BY <1>5, <1>6, <1>7, <1>8

LEMMA ReaderFreesOwn ==
  ASSUME TypeOK, Own, NEW c \in Conns, ReaderFrees(c) \/ ReaderFails(c)
  PROVE  Own'
<1> DEFINE b == reader[c].b
<1>1. /\ reader[c].pc \in {"free", "fail"} /\ Free(b, buf, mem, output)
      /\ UNCHANGED <<wait, worker, writer>>
  BY DEF ReaderFrees, ReaderFails, ReaderAt
<1>2. b \in Buffers /\ Holds("reader", c, b)
  BY <1>1, OwningPcs, ThreadsHave
<1>3. PICK y : /\ reader' = [reader EXCEPT ![c] = y]
               /\ y.pc \notin Owning /\ y.p = None
  <2>1. ReaderIdle.pc \notin Owning /\ ReaderIdle.p = None
    BY OwningPcs DEF ReaderIdle
  <2> DEFINE z == [ReaderIdle EXCEPT !.pc = "close again"]
  <2>2. z.pc \notin Owning /\ z.p = None
    BY OwningPcs DEF ReaderIdle
  <2>3. reader' = [reader EXCEPT ![c] = ReaderIdle] \/ reader' = [reader EXCEPT ![c] = z]
    BY DEF ReaderFrees, ReaderFails
  <2> HIDE DEF z
  <2>4. QED
    BY <2>1, <2>2, <2>3
<1> HIDE DEF b
<1>4. \A a \in Buffers : \A k, x : InReader(reader', k, x, a) =>
        InReader(reader, k, x, a) /\ ~(k = "reader" /\ x = c)
  BY <1>3, ReaderKeeps DEF TypeOK
<1>5. \A a \in Buffers : \A k, x :
        /\ InOutput(output, k, x, a) =>
             InOutput(output, k, x, a) /\ ~(a = b /\ k = "reader" /\ x = c)
        /\ InWait(wait', k, x, a) =>
             InWait(wait, k, x, a) /\ ~(a = b /\ k = "reader" /\ x = c)
        /\ InReader(reader', k, x, a) =>
             InReader(reader, k, x, a) /\ ~(a = b /\ k = "reader" /\ x = c)
        /\ InWorker(worker', k, x, a) =>
             InWorker(worker, k, x, a) /\ ~(a = b /\ k = "reader" /\ x = c)
        /\ InWriter(writer', k, x, a) =>
             InWriter(writer, k, x, a) /\ ~(a = b /\ k = "reader" /\ x = c)
  BY <1>1, <1>4 DEF InOutput, InWait, InWorker, InWriter
<1>6. /\ \A d \in Conns : Once(output[d]) /\ Items(output[d]) \subseteq Items(output[d])
      /\ \A d \in Conns : Once(wait'[d])
      /\ output \in Queues
  BY <1>1 DEF Own, Lists, TypeOK, OutputOK
<1>7. "reader" \notin Slots \cup {"todo", "to_wake"}
  BY DEF Slots
<1>8. QED
  BY <1>1, <1>2, <1>5, <1>6, <1>7, FreeMoves

LEMMA ReaderOwn ==
  ASSUME TypeOK, Own, NEW c \in Conns, ReaderStep(c)
  PROVE  Own'
<1>1. CASE QueryDangles(c) \/ AnswerUnexpected(c)
  BY <1>1, EndsOwn DEF QueryDangles, AnswerUnexpected
<1>2. QED
  BY <1>1, ReaderQueryOwn, ReaderQueuesOwn, ReaderTakesOwn, ReaderAnswersOwn,
     ReaderFreesOwn DEF ReaderStep

(* The first buffer of output is freed.                                    *)
LEMMA FreesFirst ==
  ASSUME TypeOK, Own, NEW c \in Conns, output[c] # <<>>,
         Free(Head(output[c]), buf, mem, [output EXCEPT ![c] = comm_buf_from_queue(@)]),
         UNCHANGED <<wait, reader, worker>>,
         \A a \in Buffers : \A k, x : InWriter(writer', k, x, a) => InWriter(writer, k, x, a)
  PROVE  Own'
<1> DEFINE out == [output EXCEPT ![c] = comm_buf_from_queue(@)]
           b == Head(output[c])
<1>1. Dequeued(output, out, c) /\ out \in Queues
  <2>1. output \in Queues
    BY DEF TypeOK, OutputOK
  <2>2. out \in Queues
    BY <2>1, DequeuedOK
  <2>3. QED
    BY <2>1, <2>2 DEF Dequeued, Queues
<1>2. Free(b, buf, mem, out)
  OBVIOUS
<1> HIDE DEF out
<1>3. output \in Queues /\ \A d \in Conns : Once(output[d]) /\ Once(wait[d])
  BY DEF TypeOK, OutputOK, Own, Lists
<1>4. /\ b \in Buffers /\ b \in Items(output[c])
      /\ \A d \in Conns : Once(out[d]) /\ Items(out[d]) \subseteq Items(output[d])
      /\ \A k, x, a : InOutput(out, k, x, a) =>
           InOutput(output, k, x, a) /\ ~(a = b /\ k = "output" /\ x = c)
  BY <1>1, <1>3, FromQueue
<1>5. Holds("output", c, b)
  BY <1>4 DEF Holds, InOutput
<1> HIDE DEF b
<1>6. \A a \in Buffers : \A k, x :
        /\ InOutput(out, k, x, a) =>
             InOutput(output, k, x, a) /\ ~(a = b /\ k = "output" /\ x = c)
        /\ InWait(wait', k, x, a) =>
             InWait(wait, k, x, a) /\ ~(a = b /\ k = "output" /\ x = c)
        /\ InReader(reader', k, x, a) =>
             InReader(reader, k, x, a) /\ ~(a = b /\ k = "output" /\ x = c)
        /\ InWorker(worker', k, x, a) =>
             InWorker(worker, k, x, a) /\ ~(a = b /\ k = "output" /\ x = c)
        /\ InWriter(writer', k, x, a) =>
             InWriter(writer, k, x, a) /\ ~(a = b /\ k = "output" /\ x = c)
  BY <1>4 DEF InWait, InReader, InWorker, InWriter
<1>7. "output" \notin Slots \cup {"todo", "to_wake"} /\ \A d \in Conns : Once(wait'[d])
  BY <1>3 DEF Slots
<1>8. QED
  BY <1>1, <1>2, <1>4, <1>5, <1>6, <1>7, FreeMoves

LEMMA CloseOwn ==
  ASSUME TypeOK, Own, NEW c \in Conns, CloseStep(c)
  PROVE  Own'
<1>1. CASE CloseOutput(c)
  BY <1>1, FreesFirst DEF CloseOutput
<1>2. CASE CloseRelocks(c)
  BY <1>2, EndsOwn DEF CloseRelocks
<1>3. CASE CloseWait(c)
  <2> DEFINE b == Head(wait[c])
  <2>1. /\ wait[c] # <<>> /\ Free(b, buf, mem, output)
        /\ UNCHANGED <<reader, worker, writer>>
    BY <1>3 DEF CloseWait
  <2>2. wait \in Queues /\ output \in Queues /\ \A d \in Conns : Once(output[d]) /\ Once(wait[d])
    BY DEF TypeOK, WaitOK, OutputOK, Own, Lists
  <2>3. Dequeued(wait, wait', c)
    BY <1>3, <2>2 DEF CloseWait, Dequeued, Queues
  <2>4. /\ b \in Buffers /\ b \in Items(wait[c])
        /\ \A d \in Conns : Once(wait'[d]) /\ Items(wait'[d]) \subseteq Items(wait[d])
        /\ \A k, x, a : InWait(wait', k, x, a) =>
             InWait(wait, k, x, a) /\ ~(a = b /\ k = "wait" /\ x = c)
    BY <2>1, <2>2, <2>3, FromQueue
  <2>5. Holds("wait", c, b)
    BY <2>4 DEF Holds, InWait
  <2> HIDE DEF b
  <2>6. \A a \in Buffers : \A k, x :
          /\ InOutput(output, k, x, a) =>
               InOutput(output, k, x, a) /\ ~(a = b /\ k = "wait" /\ x = c)
          /\ InWait(wait', k, x, a) =>
               InWait(wait, k, x, a) /\ ~(a = b /\ k = "wait" /\ x = c)
          /\ InReader(reader', k, x, a) =>
               InReader(reader, k, x, a) /\ ~(a = b /\ k = "wait" /\ x = c)
          /\ InWorker(worker', k, x, a) =>
               InWorker(worker, k, x, a) /\ ~(a = b /\ k = "wait" /\ x = c)
          /\ InWriter(writer', k, x, a) =>
               InWriter(writer, k, x, a) /\ ~(a = b /\ k = "wait" /\ x = c)
    BY <2>1, <2>4 DEF InOutput, InReader, InWorker, InWriter
  <2>7. "wait" \notin Slots \cup {"todo", "to_wake"}
    BY DEF Slots
  <2>8. QED
    BY <2>1, <2>2, <2>4, <2>5, <2>6, <2>7, FreeMoves
<1>4. ASSUME NEW pc \in {"close", "close again", "closing", "closing again"},
             NEW qc \in {"closing", "closing again", "fail", "dead"},
             reader[c].pc = pc, reader' = [reader EXCEPT ![c].pc = qc],
             qc \in {"closing", "fail"} => pc \in {"close", "closing"}
      PROVE  \A b \in Buffers : \A k, x : InReader(reader', k, x, b) => InReader(reader, k, x, b)
  <2>1. qc \in Owning => pc \in Owning
    BY <1>4, OwningPcs
  <2>2. QED
    BY <1>4, <2>1, ReaderStays DEF TypeOK
<1>5. ASSUME NEW qc, writer' = [writer EXCEPT ![c].pc = qc]
      PROVE  \A b \in Buffers : \A k, x : InWriter(writer', k, x, b) => InWriter(writer, k, x, b)
  BY <1>5 DEF TypeOK, WriterOK, InWriter
<1>6. CASE Drained(c)
  <2>1. /\ \A b \in Buffers : \A k, x : InReader(reader', k, x, b) => InReader(reader, k, x, b)
        /\ \A b \in Buffers : \A k, x : InWriter(writer', k, x, b) => InWriter(writer, k, x, b)
    BY <1>4, <1>5, <1>6 DEF Drained, ReaderAt, WriterAt
  <2>2. UNCHANGED <<shared, worker>>
    BY <1>6 DEF Drained
  <2>3. QED
    BY <2>1, <2>2, NothingMoves DEF shared, Own, Lists
<1>7. CASE Closed(c)
  <2>1. /\ \A b \in Buffers : \A k, x : InReader(reader', k, x, b) => InReader(reader, k, x, b)
        /\ \A b \in Buffers : \A k, x : InWriter(writer', k, x, b) => InWriter(writer, k, x, b)
    BY <1>4, <1>5, <1>7 DEF Closed, ReaderAt, WriterAt
  <2>2. UNCHANGED <<buf, mem, todo, output, wait, worker>>
    BY <1>7 DEF Closed
  <2>3. QED
    BY <2>1, <2>2, NothingMoves DEF Own, Lists
<1>8. QED
  BY <1>1, <1>2, <1>3, <1>6, <1>7 DEF CloseStep

LEMMA WriterFreesOwn ==
  ASSUME TypeOK, Own, NEW c \in Conns, WriterFrees(c)
  PROVE  Own'
<1> DEFINE b == writer[c].b
<1>1. /\ writer[c].pc = "free" /\ Free(b, buf, mem, output)
      /\ writer' = [writer EXCEPT ![c] = WriterIdle]
      /\ UNCHANGED <<wait, reader, worker>>
  BY DEF WriterFrees, WriterAt
<1>3. b \in Buffers /\ Holds("writer", c, b)
  BY <1>1, ThreadsHave
<1>2. Free(b, buf, mem, output) /\ UNCHANGED <<wait, reader, worker>>
  BY <1>1
<1> HIDE DEF b
<1>4. \A a \in Buffers : \A k, x : InWriter(writer', k, x, a) =>
        InWriter(writer, k, x, a) /\ ~(k = "writer" /\ x = c)
  <2>1. \A k, x, a : InWriter(writer', k, x, a) =>
          \/ x # c /\ InWriter(writer, k, x, a)
          \/ x = c /\ k = "writer" /\ WriterIdle.b = a
    BY <1>1, WriterHolds DEF TypeOK
  <2>2. WriterIdle.b = None /\ None \notin Buffers
    BY CommAssumption DEF WriterIdle
  <2>3. QED
    BY <2>1, <2>2
<1>5. \A a \in Buffers : \A k, x :
        /\ InOutput(output, k, x, a) =>
             InOutput(output, k, x, a) /\ ~(a = b /\ k = "writer" /\ x = c)
        /\ InWait(wait', k, x, a) =>
             InWait(wait, k, x, a) /\ ~(a = b /\ k = "writer" /\ x = c)
        /\ InReader(reader', k, x, a) =>
             InReader(reader, k, x, a) /\ ~(a = b /\ k = "writer" /\ x = c)
        /\ InWorker(worker', k, x, a) =>
             InWorker(worker, k, x, a) /\ ~(a = b /\ k = "writer" /\ x = c)
        /\ InWriter(writer', k, x, a) =>
             InWriter(writer, k, x, a) /\ ~(a = b /\ k = "writer" /\ x = c)
  BY <1>2, <1>4 DEF InOutput, InWait, InReader, InWorker
<1>6. /\ \A d \in Conns : Once(output[d]) /\ Items(output[d]) \subseteq Items(output[d])
      /\ \A d \in Conns : Once(wait'[d])
      /\ output \in Queues
  BY <1>2 DEF Own, Lists, TypeOK, OutputOK
<1>7. "writer" \notin Slots \cup {"todo", "to_wake"}
  BY DEF Slots
<1>8. QED
  BY <1>2, <1>3, <1>5, <1>6, <1>7, FreeMoves

LEMMA WriterOwn ==
  ASSUME TypeOK, Own, NEW c \in Conns, WriterStep(c)
  PROVE  Own'
<1>1. None \notin Buffers
  BY CommAssumption
<1>2. ASSUME NEW qc, writer' = [writer EXCEPT ![c].pc = qc]
      PROVE  \A b \in Buffers : \A k, x : InWriter(writer', k, x, b) => InWriter(writer, k, x, b)
  BY <1>2 DEF TypeOK, WriterOK, InWriter
<1>3. ASSUME NEW y, writer' = [writer EXCEPT ![c] = y], y.b = None
      PROVE  \A b \in Buffers : \A k, x : InWriter(writer', k, x, b) =>
               InWriter(writer, k, x, b) /\ ~(k = "writer" /\ x = c)
  <2>1. \A k, x, b : InWriter(writer', k, x, b) =>
          \/ x # c /\ InWriter(writer, k, x, b)
          \/ x = c /\ k = "writer" /\ y.b = b
    BY <1>3, WriterHolds DEF TypeOK
  <2>2. QED
    BY <1>1, <1>3, <2>1
<1>4. output \in Queues /\ \A d \in Conns : Once(output[d]) /\ Once(wait[d])
  BY DEF TypeOK, OutputOK, Own, Lists
<1>5. WriterIdle.b = None
  BY DEF WriterIdle
<1>6. ASSUME output[c] # <<>>, output' = [output EXCEPT ![c] = comm_buf_from_queue(@)]
      PROVE  /\ First(c) \in Buffers /\ Holds("output", c, First(c))
             /\ \A d \in Conns : Once(output'[d])
             /\ \A k, x, b : InOutput(output', k, x, b) =>
                  InOutput(output, k, x, b) /\ ~(b = First(c) /\ k = "output" /\ x = c)
  <2>1. Dequeued(output, output', c)
    BY <1>4, <1>6 DEF Dequeued, Queues
  <2>2. /\ Head(output[c]) \in Buffers /\ Head(output[c]) \in Items(output[c])
        /\ \A d \in Conns : Once(output'[d])
        /\ \A k, x, b : InOutput(output', k, x, b) =>
             InOutput(output, k, x, b) /\ ~(b = Head(output[c]) /\ k = "output" /\ x = c)
    BY <1>4, <1>6, <2>1, FromQueue
  <2>3. Holds("output", c, Head(output[c]))
    BY <2>2 DEF Holds, InOutput
  <2>4. QED
    BY <2>2, <2>3 DEF First
<1>7. CASE WriterWaits(c)
  <2>1. /\ UNCHANGED <<buf, mem, todo, output, wait, reader, worker>>
        /\ writer' = [writer EXCEPT ![c].pc = "take"]
    BY <1>7 DEF WriterWaits
  <2>2. QED
    BY <1>2, <1>4, <2>1, NothingMoves
<1>8. CASE WriterFindsNull(c)
  BY <1>8, EndsOwn DEF WriterFindsNull
<1>9. CASE WriterSkips(c)
  <2>1. /\ output[c] # <<>>
        /\ Free(Head(output[c]), buf, mem, [output EXCEPT ![c] = comm_buf_from_queue(@)])
        /\ writer' = [writer EXCEPT ![c] = WriterIdle]
        /\ UNCHANGED <<wait, reader, worker>>
    BY <1>9 DEF WriterSkips, First
  <2>2. QED
    BY <1>3, <1>5, <2>1, FreesFirst
<1>10. CASE WriterWrites(c)
  <2> DEFINE y == [pc |-> "free", b |-> First(c)]
  <2>1. /\ output[c] # <<>> /\ output' = [output EXCEPT ![c] = comm_buf_from_queue(@)]
        /\ writer' = [writer EXCEPT ![c] = y]
        /\ UNCHANGED <<buf, mem, todo, wait, reader, worker>>
    BY <1>10 DEF WriterWrites
  <2>2. y.b = First(c)
    OBVIOUS
  <2> HIDE DEF y
  <2>3. \A k, x, b : InWriter(writer', k, x, b) =>
          InWriter(writer, k, x, b) \/ (b = First(c) /\ k = "writer" /\ x = c)
    <3>1. \A k, x, b : InWriter(writer', k, x, b) =>
            \/ x # c /\ InWriter(writer, k, x, b)
            \/ x = c /\ k = "writer" /\ y.b = b
      BY <2>1, WriterHolds DEF TypeOK
    <3>2. QED
      BY <2>2, <3>1
  <2>4. Lists'
    BY <1>6, <2>1 DEF Own, Lists
  <2>5. \A b \in Buffers : \A k, x : Holds(k, x, b)' =>
          \/ Holds(k, x, b) /\ ~(b = First(c) /\ k = "output" /\ x = c)
          \/ b = First(c) /\ k = "writer" /\ x = c
    <3> SUFFICES ASSUME NEW b \in Buffers, NEW k, NEW x, Holds(k, x, b)'
                 PROVE  \/ Holds(k, x, b) /\ ~(b = First(c) /\ k = "output" /\ x = c)
                        \/ b = First(c) /\ k = "writer" /\ x = c
      OBVIOUS
    <3>1. CASE InOutput(output', k, x, b)
      BY <1>6, <2>1, <3>1 DEF Holds
    <3>2. CASE InWriter(writer', k, x, b)
      BY <2>3, <3>2 DEF Holds, InWriter
    <3>3. CASE \/ InTodo(todo', k, x, b) \/ InMem(mem', k, x, b)
               \/ InWait(wait', k, x, b) \/ InWake(buf', k, x, b)
               \/ InReader(reader', k, x, b) \/ InWorker(worker', k, x, b)
      BY <2>1, <3>3 DEF Holds, InTodo, InMem, InWait, InWake, InReader, InWorker
    <3>4. QED
      BY <3>1, <3>2, <3>3 DEF Holds
  <2>6. "output" \notin Slots
    BY DEF Slots
  <2>7. MovedOne(First(c), "output", c, "writer", c)
    BY <2>1, <2>5, <2>6 DEF MovedOne
  <2>8. QED
    BY <1>6, <2>1, <2>4, <2>7, OneMoves
<1>11. CASE WriterFrees(c)
  BY <1>11, WriterFreesOwn
<1>12. CASE WriterFails(c)
  <2> DEFINE y == [pc |-> "close", b |-> None]
  <2>1. /\ output[c] # <<>> /\ output' = [output EXCEPT ![c] = comm_buf_from_queue(@)]
        /\ writer' = [writer EXCEPT ![c] = y]
        /\ UNCHANGED <<buf, mem, todo, wait, reader, worker>>
    BY <1>12 DEF WriterFails
  <2>2. y.b = None
    OBVIOUS
  <2> HIDE DEF y
  <2>3. QED
    BY <1>3, <1>4, <1>6, <2>1, <2>2, NothingMoves
<1>13. QED
  BY <1>7, <1>8, <1>9, <1>10, <1>11, <1>12 DEF WriterStep

(* A worker that gets nothing new.                                         *)
LEMMA WorkerKeeps ==
  ASSUME WorkerOK, NEW w \in Workers, NEW y, worker' = [worker EXCEPT ![w] = y],
         y.pc \in {"got", "free", "initfree"} =>
           y.b = worker[w].b /\ worker[w].pc \in {"got", "free", "initfree"},
         y.r = worker[w].r \/ y.r = None
  PROVE  \A b \in Buffers : \A k, x :
           /\ InWorker(worker', k, x, b) => InWorker(worker, k, x, b)
           /\ y.pc \notin {"got", "free", "initfree"} /\ InWorker(worker', k, x, b) =>
                ~(k = "worker" /\ x = w)
           /\ y.r = None /\ InWorker(worker', k, x, b) => ~(k = "request" /\ x = w)
<1>1. None \notin Buffers
  BY CommAssumption
<1>2. \A k, x, b : InWorker(worker', k, x, b) =>
        \/ x # w /\ InWorker(worker, k, x, b)
        \/ x = w /\ k = "worker" /\ y.b = b /\ y.pc \in {"got", "free", "initfree"}
        \/ x = w /\ k = "request" /\ y.r = b
  BY WorkerHolds
<1>3. QED
  BY <1>1, <1>2 DEF InWorker

LEMMA IdleHas ==
  /\ WorkerIdle.pc \notin {"got", "free", "initfree"} /\ WorkerIdle.r = None
  /\ [WorkerIdle EXCEPT !.pc = "initclear"].pc \notin {"got", "free", "initfree"}
  /\ [WorkerIdle EXCEPT !.pc = "initclear"].r = None
BY DEF WorkerIdle

LEMMA WorkerFreesOwn ==
  ASSUME TypeOK, Own, NEW w \in Workers, WorkerFrees(w) \/ InitFrees(w)
  PROVE  Own'
<1> DEFINE b == worker[w].b
<1>1. /\ worker[w].pc \in {"free", "initfree"} /\ Free(b, buf, mem, output)
      /\ UNCHANGED <<wait, reader, writer>>
  BY DEF WorkerFrees, InitFrees, WorkerAt
<1>2. b \in Buffers /\ Holds("worker", w, b)
  BY <1>1, ThreadsHave
<1>3. \A a \in Buffers : \A k, x : InWorker(worker', k, x, a) =>
        InWorker(worker, k, x, a) /\ ~(k = "worker" /\ x = w)
  <2>1. PICK y : /\ worker' = [worker EXCEPT ![w] = y]
                 /\ y.pc \notin {"got", "free", "initfree"} /\ y.r = None
    BY IdleHas DEF WorkerFrees, InitFrees
  <2>2. QED
    BY <2>1, WorkerKeeps DEF TypeOK
<1> HIDE DEF b
<1>4. \A a \in Buffers : \A k, x :
        /\ InOutput(output, k, x, a) =>
             InOutput(output, k, x, a) /\ ~(a = b /\ k = "worker" /\ x = w)
        /\ InWait(wait', k, x, a) =>
             InWait(wait, k, x, a) /\ ~(a = b /\ k = "worker" /\ x = w)
        /\ InReader(reader', k, x, a) =>
             InReader(reader, k, x, a) /\ ~(a = b /\ k = "worker" /\ x = w)
        /\ InWorker(worker', k, x, a) =>
             InWorker(worker, k, x, a) /\ ~(a = b /\ k = "worker" /\ x = w)
        /\ InWriter(writer', k, x, a) =>
             InWriter(writer, k, x, a) /\ ~(a = b /\ k = "worker" /\ x = w)
  BY <1>1, <1>3 DEF InOutput, InWait, InReader, InWriter
<1>5. /\ \A d \in Conns : Once(output[d]) /\ Items(output[d]) \subseteq Items(output[d])
      /\ \A d \in Conns : Once(wait'[d])
      /\ output \in Queues
  BY <1>1 DEF Own, Lists, TypeOK, OutputOK
<1>6. "worker" \notin Slots \cup {"todo", "to_wake"}
  BY DEF Slots
<1>7. QED
  BY <1>1, <1>2, <1>4, <1>5, <1>6, FreeMoves

LEMMA WorkerTakesOwn ==
  ASSUME TypeOK, Own, NEW w \in Workers, WorkerTakes(w)
  PROVE  Own'
<1> DEFINE b == Head(todo)
           y == [worker[w] EXCEPT !.pc = "got", !.b = b]
<1>1. /\ todo # <<>> /\ todo' = Tail(todo) /\ worker' = [worker EXCEPT ![w] = y]
      /\ UNCHANGED <<buf, mem, output, wait, reader, writer>>
  BY DEF WorkerTakes, comm_buf_from_queue
<1>2. y.pc = "got" /\ y.b = b /\ y.r = worker[w].r
  BY DEF TypeOK, WorkerOK, WorkersAt
<1>3. todo \in Seq(Buffers) /\ Once(todo) /\ b \in Buffers
  <2>1. todo \in Seq(Buffers) /\ Once(todo)
    BY DEF TypeOK, TodoOK, Own, Lists
  <2>2. QED
    BY <1>1, <2>1
<1>4. Items(todo') = Items(todo) \ {b} /\ b \in Items(todo) /\ Once(todo')
  BY <1>1, <1>3, TailItems
<1> HIDE DEF b, y
<1>5. Holds("todo", None, b)
  BY <1>4 DEF Holds, InTodo
<1>6. \A k, x, a : InWorker(worker', k, x, a) =>
        InWorker(worker, k, x, a) \/ (a = b /\ k = "worker" /\ x = w)
  <2>1. \A k, x, a : InWorker(worker', k, x, a) =>
          \/ x # w /\ InWorker(worker, k, x, a)
          \/ x = w /\ k = "worker" /\ y.b = a /\ y.pc \in {"got", "free", "initfree"}
          \/ x = w /\ k = "request" /\ y.r = a
    BY <1>1, WorkerHolds DEF TypeOK
  <2>2. QED
    BY <1>2, <2>1 DEF InWorker
<1>7. Lists'
  BY <1>1, <1>4 DEF Own, Lists
<1>8. \A a \in Buffers : \A k, x : Holds(k, x, a)' =>
        \/ Holds(k, x, a) /\ ~(a = b /\ k = "todo" /\ x = None)
        \/ a = b /\ k = "worker" /\ x = w
  <2> SUFFICES ASSUME NEW a \in Buffers, NEW k, NEW x, Holds(k, x, a)'
               PROVE  \/ Holds(k, x, a) /\ ~(a = b /\ k = "todo" /\ x = None)
                      \/ a = b /\ k = "worker" /\ x = w
    OBVIOUS
  <2>1. CASE InTodo(todo', k, x, a)
    BY <1>4, <2>1 DEF Holds, InTodo
  <2>2. CASE InWorker(worker', k, x, a)
    BY <1>6, <2>2 DEF Holds, InWorker
  <2>3. CASE \/ InMem(mem', k, x, a) \/ InOutput(output', k, x, a)
             \/ InWait(wait', k, x, a) \/ InWake(buf', k, x, a)
             \/ InReader(reader', k, x, a) \/ InWriter(writer', k, x, a)
    BY <1>1, <2>3 DEF Holds, InMem, InOutput, InWait, InWake, InReader, InWriter
  <2>4. QED
    BY <2>1, <2>2, <2>3 DEF Holds
<1>9. "todo" \notin Slots
  BY DEF Slots
<1>10. MovedOne(b, "todo", None, "worker", w)
  BY <1>1, <1>8, <1>9 DEF MovedOne
<1>11. QED
  BY <1>3, <1>5, <1>7, <1>10, OneMoves

LEMMA WorkerDecidesOwn ==
  ASSUME TypeOK, Own, NEW w \in Workers, EventDecides(w)
  PROVE  Own'
<1>1. PICK b \in Buffers :
        /\ Serves(w, b)
        /\ IF buf[b].init
           THEN /\ buf' = [buf EXCEPT ![b].phase = 1000]
                /\ initDone' = initDone \cup {buf[b].comm}
                /\ UNCHANGED decided
           ELSE \E v \in Verdicts :
                  /\ buf' = [buf EXCEPT ![b] = [@ EXCEPT !.phase = 1000, !.verdict = v]]
                  /\ decided' = [decided EXCEPT ![buf[b].req] = v]
                  /\ UNCHANGED initDone
        /\ todo' = comm_buf_to_queue(todo, b)
        /\ worker' = [worker EXCEPT ![w] = WorkerIdle]
        /\ UNCHANGED <<mem, conn, state_lock, output, output_sem, wait, ids, reader,
                       writer, status, kernel, told>>
  BY ZenonT(60) DEF EventDecides
<1>2. \A a \in Buffers : buf'[a].comm = buf[a].comm /\ buf'[a].to_wake = buf[a].to_wake
  <2>1. CASE buf[b].init
    <3>1. buf' = [buf EXCEPT ![b].phase = 1000]
      BY <1>1, <2>1, Zenon
    <3>2. QED
      BY <3>1 DEF TypeOK, BufOK, Contents
  <2>2. CASE ~buf[b].init
    <3>1. PICK v \in Verdicts :
            /\ buf' = [buf EXCEPT ![b] = [@ EXCEPT !.phase = 1000, !.verdict = v]]
            /\ decided' = [decided EXCEPT ![buf[b].req] = v]
            /\ UNCHANGED initDone
      BY <1>1, <2>2
    <3>2. QED
      BY <3>1 DEF TypeOK, BufOK, Contents
  <2>3. QED
    BY <2>1, <2>2
<1>3. /\ worker[w].pc = "got" /\ worker[w].b = b
  BY <1>1, Zenon DEF Serves, Locks, WorkerAt
<1>4. worker' = [worker EXCEPT ![w] = WorkerIdle]
  BY <1>1, Zenon
<1>5. Holds("worker", w, b)
  BY <1>3, ThreadsHave
<1>6. \A a \in Buffers : \A k, x : InWorker(worker', k, x, a) =>
        InWorker(worker, k, x, a) /\ ~(k = "worker" /\ x = w)
  BY <1>4, IdleHas, WorkerKeeps DEF TypeOK
<1>7. /\ UNCHANGED <<mem, output, writer, wait, reader>>
      /\ todo' = comm_buf_to_queue(todo, b)
  BY <1>1, Zenon
<1>8. \A a \in Buffers : \A k, x :
        /\ InWait(wait', k, x, a) =>
             InWait(wait, k, x, a) /\ ~(a = b /\ k = "worker" /\ x = w)
        /\ InReader(reader', k, x, a) =>
             InReader(reader, k, x, a) /\ ~(a = b /\ k = "worker" /\ x = w)
        /\ InWorker(worker', k, x, a) =>
             InWorker(worker, k, x, a) /\ ~(a = b /\ k = "worker" /\ x = w)
  BY <1>6, <1>7 DEF InWait, InReader
<1>9. "worker" \notin Slots \cup {"todo", "output", "to_wake"} /\ \A d \in Conns : Once(wait'[d])
  BY <1>7 DEF Slots, Own, Lists
<1>10. QED
  BY <1>2, <1>5, <1>7, <1>8, <1>9, TodoOwn

(* What a worker has is for some connection.                               *)
LEMMA OwnKnown ==
  ASSUME TypeOK, Own
  PROVE  /\ CommKnown
         /\ \A w \in Workers : worker[w].pc = "send" => buf[worker[w].r].comm \in Conns
<1>1. \A b \in Buffers : buf[b].comm \in Conns \cup {None}
  BY DEF TypeOK, BufOK, Contents
<1>2. "worker" \notin Slots /\ "request" \notin Slots
  BY DEF Slots
<1>3. \A b \in Buffers : \A k, x : Holds(k, x, b) /\ buf[b].comm = None => k \in Slots
  BY DEF Own, Known
<1>4. CommKnown
  BY <1>1, <1>2, <1>3, ThreadsHave DEF CommKnown
<1>5. \A w \in Workers : worker[w].pc = "send" => buf[worker[w].r].comm \in Conns
  BY <1>1, <1>2, <1>3, ThreadsHave
<1>6. QED
  BY <1>4, <1>5

LEMMA AnswerSendsOwn ==
  ASSUME TypeOK, Own, NEW w \in Workers, AnswerSends(w)
  PROVE  Own'
<1>1. PICK b \in Buffers :
        /\ Serves(w, b)
        /\ LET c == buf[b].comm
               r == Fresh(mem)
               m == [kind |-> "answer", req |-> buf[b].req, verdict |-> buf[b].verdict]
           IN /\ Available(mem)
              /\ mem' = Taken(mem)
              /\ buf' = [buf EXCEPT ![b].lock = w, ![r] = Outgoing(c, m)]
              /\ output' = [output EXCEPT ![c] = comm_buf_to_queue(@, r)]
              /\ output_sem' = [output_sem EXCEPT ![c] = @ + 1]
  BY DEF AnswerSends
<1> DEFINE c == buf[b].comm
           r == Fresh(mem)
           m == [kind |-> "answer", req |-> buf[b].req, verdict |-> buf[b].verdict]
           y == Outgoing(c, m)
           bufs == [buf EXCEPT ![b].lock = w]
<1>2. worker[w].pc = "got" /\ c \in Conns /\ buf[b] \in Contents
  BY <1>1, OwnKnown, ServesOK
<1>3. bufs \in [Buffers -> Contents]
  <2>1. [buf[b] EXCEPT !.lock = w] \in Contents
    BY <1>2, LockSet
  <2>2. QED
    BY <2>1 DEF TypeOK, BufOK
<1>4. \A a \in Buffers : bufs[a].comm = buf[a].comm /\ bufs[a].to_wake = buf[a].to_wake
  BY DEF TypeOK, BufOK, Contents
<1>5. y.comm = c /\ y.to_wake = <<>>
  BY DEF Outgoing, For, Blank
<1>6. /\ Available(mem) /\ mem' = Taken(mem)
      /\ buf' = [bufs EXCEPT ![r] = y]
  BY <1>1
<1>7. Queued(output, output', c, r)
  BY <1>1 DEF Queued, TypeOK, OutputOK, Queues
<1>8. worker' = [worker EXCEPT ![w].pc = "free"] /\ UNCHANGED <<todo, wait, writer, reader>>
  BY DEF AnswerSends
<1>9. \A a \in Buffers : \A k, x : InWorker(worker', k, x, a) => InWorker(worker, k, x, a)
  <2> DEFINE z == [worker[w] EXCEPT !.pc = "free"]
  <2>1. z.b = worker[w].b /\ z.r = worker[w].r
    BY DEF TypeOK, WorkerOK, WorkersAt
  <2>2. worker' = [worker EXCEPT ![w] = z]
    BY <1>8
  <2> HIDE DEF z
  <2>3. QED
    BY <1>2, <2>1, <2>2, WorkerKeeps DEF TypeOK
<1> HIDE DEF c, m, y, bufs
<1>10. \A a \in Buffers : \A k, x :
         /\ InReader(reader', k, x, a) => InReader(reader, k, x, a)
         /\ InWorker(worker', k, x, a) => InWorker(worker, k, x, a)
  BY <1>8, <1>9
<1>11. UNCHANGED <<todo, wait, writer>>
  BY <1>8
<1>12. QED
  BY <1>2, <1>3, <1>4, <1>5, <1>6, <1>7, <1>10, <1>11, SendsOwn

LEMMA WorkerSendsOwn ==
  ASSUME TypeOK, Own, NEW w \in Workers, WorkerSends(w)
  PROVE  Own'
<1> DEFINE r == worker[w].r
           c == buf[r].comm
           y == [worker[w] EXCEPT !.pc = "park", !.r = None]
<1>1. /\ worker[w].pc = "send" /\ worker' = [worker EXCEPT ![w] = y]
      /\ output' = [output EXCEPT ![c] = comm_buf_to_queue(@, r)]
      /\ UNCHANGED <<buf, mem, todo, wait, reader, writer>>
  BY DEF WorkerSends, WorkerAt
<1>2. r \in Buffers /\ Holds("request", w, r) /\ c \in Conns
  BY <1>1, ThreadsHave, OwnKnown
<1>3. y.pc = "park" /\ y.r = None
  BY DEF TypeOK, WorkerOK, WorkersAt
<1>4. Queued(output, output', c, r)
  BY <1>1 DEF Queued, TypeOK, OutputOK, Queues
<1> HIDE DEF r, c, y
<1>5. UNCHANGED <<buf, mem, todo, wait, reader, writer>>
  BY <1>1
<1>6. /\ \A d \in Conns : Once(output'[d])
      /\ \A k, x, b : InOutput(output', k, x, b) =>
           InOutput(output, k, x, b) \/ (b = r /\ k = "output" /\ x = c)
  <2>1. r \notin Items(output[c])
    BY <1>2, Elsewhere DEF Own
  <2>2. QED
    BY <1>2, <1>4, <2>1, OutputQueued DEF TypeOK, Own
<1>7. \A a \in Buffers : \A k, x : InWorker(worker', k, x, a) =>
        InWorker(worker, k, x, a) /\ ~(k = "request" /\ x = w)
  BY <1>1, <1>3, WorkerKeeps DEF TypeOK
<1>8. Lists'
  BY <1>5, <1>6 DEF Own, Lists
<1>9. \A a \in Buffers : \A k, x : Holds(k, x, a)' =>
        \/ Holds(k, x, a) /\ ~(a = r /\ k = "request" /\ x = w)
        \/ a = r /\ k = "output" /\ x = c
  <2> SUFFICES ASSUME NEW a \in Buffers, NEW k, NEW x, Holds(k, x, a)'
               PROVE  \/ Holds(k, x, a) /\ ~(a = r /\ k = "request" /\ x = w)
                      \/ a = r /\ k = "output" /\ x = c
    OBVIOUS
  <2>1. CASE InOutput(output', k, x, a)
    BY <1>6, <2>1 DEF Holds, InOutput
  <2>2. CASE InWorker(worker', k, x, a)
    BY <1>7, <2>2 DEF Holds
  <2>3. CASE \/ InTodo(todo', k, x, a) \/ InMem(mem', k, x, a)
             \/ InWait(wait', k, x, a) \/ InWake(buf', k, x, a)
             \/ InReader(reader', k, x, a) \/ InWriter(writer', k, x, a)
    BY <1>5, <2>3 DEF Holds, InTodo, InMem, InWait, InWake, InReader, InWriter
  <2>4. QED
    BY <2>1, <2>2, <2>3 DEF Holds
<1>10. "request" \notin Slots
  BY DEF Slots
<1>11. MovedOne(r, "request", w, "output", c)
  BY <1>5, <1>9, <1>10 DEF MovedOne
<1>12. QED
  BY <1>2, <1>8, <1>11, OneMoves

LEMMA WorkerLeavesOwn ==
  ASSUME TypeOK, Own, NEW w \in Workers, WorkerParks(w) \/ InitClears(w)
  PROVE  Own'
<1>1. /\ worker' = [worker EXCEPT ![w] = WorkerIdle]
      /\ UNCHANGED <<mem, todo, output, wait, reader, writer>>
  BY DEF WorkerParks, InitClears
<1>2. \A a \in Buffers : \A k, x : InWorker(worker', k, x, a) => InWorker(worker, k, x, a)
  BY <1>1, IdleHas, WorkerKeeps DEF TypeOK
<1>3. \A a \in Buffers : buf'[a].comm = buf[a].comm /\ buf'[a].to_wake = buf[a].to_wake
  <2>1. CASE WorkerParks(w)
    BY <2>1 DEF WorkerParks, TypeOK, BufOK, Contents
  <2>2. CASE InitClears(w)
    BY <2>2 DEF InitClears
  <2>3. QED
    BY <2>1, <2>2
<1>4. QED
  BY <1>1, <1>2, <1>3, NothingMoves DEF Own, Lists

(* _init() is over: to_wake goes to todo.                                  *)
LEMMA InitWakesOwn ==
  ASSUME TypeOK, Own, NEW w \in Workers, InitWakes(w)
  PROVE  Own'
<1>1. PICK b \in Buffers :
        /\ Serves(w, b)
        /\ todo' = todo \o buf[b].to_wake
        /\ buf' = [buf EXCEPT ![b].to_wake = <<>>]
        /\ worker' = [worker EXCEPT ![w].pc = "initfree"]
  BY DEF InitWakes
<1>2. UNCHANGED <<mem, output, wait, reader, writer>>
  BY DEF InitWakes
<1> DEFINE woken == Items(buf[b].to_wake)
           Gone(k, x, a) == a \in woken /\ k = "to_wake" /\ x = b
           Come(k, x, a) == a \in woken /\ k = "todo" /\ x = None
           gone == {<<"to_wake", b, a>> : a \in woken}
           come == {<<"todo", None, a>> : a \in woken}
<1>3. \A k, x, a : (<<k, x, a>> \in gone <=> Gone(k, x, a)) /\ (<<k, x, a>> \in come <=> Come(k, x, a))
  OBVIOUS
<1> HIDE DEF gone, come
<1>4. /\ \A a \in Buffers : buf'[a].comm = buf[a].comm
      /\ \A a \in Buffers : buf'[a].to_wake = IF a = b THEN <<>> ELSE buf[a].to_wake
  BY <1>1 DEF TypeOK, BufOK, Contents
<1>5. Apart /\ Known /\ Lists /\ todo \in Seq(Buffers) /\ buf[b].to_wake \in Seq(Buffers)
  BY DEF Own, TypeOK, TodoOK, BufOK, Contents
<1>6. Once(todo) /\ Once(buf[b].to_wake) /\ woken \subseteq Buffers
  BY <1>5, ItemsTyped DEF Lists
<1>7. \A a \in woken : Holds("to_wake", b, a)
  BY DEF Holds, InWake
<1>8. Items(todo) \cap woken = {}
  <2>1. \A a \in Items(todo) : Holds("todo", None, a)
    BY DEF Holds, InTodo
  <2>2. QED
    BY <1>5, <1>6, <1>7, <2>1 DEF Apart
<1>9. Items(todo') = Items(todo) \cup woken /\ Once(todo')
  BY <1>1, <1>5, <1>6, <1>8, ConcatItems
<1>10. \A a \in Buffers : \A k, x : InWorker(worker', k, x, a) => InWorker(worker, k, x, a)
  <2> DEFINE z == [worker[w] EXCEPT !.pc = "initfree"]
  <2>1. z.b = worker[w].b /\ z.r = worker[w].r
    BY DEF TypeOK, WorkerOK, WorkersAt
  <2>2. worker' = [worker EXCEPT ![w] = z] /\ worker[w].pc = "got"
    BY <1>1, Zenon DEF Serves, Locks, WorkerAt
  <2> HIDE DEF z
  <2>3. QED
    BY <2>1, <2>2, WorkerKeeps DEF TypeOK
<1>11. /\ \A k, x, a : InTodo(todo', k, x, a) => InTodo(todo, k, x, a) \/ Come(k, x, a)
       /\ \A k, x, a : InWake(buf', k, x, a) => InWake(buf, k, x, a) /\ x # b
  BY <1>4, <1>9, EmptyItems DEF InTodo, InWake
<1> HIDE DEF woken
<1>12. \A a \in Buffers : \A k, x : Holds(k, x, a)' => (Holds(k, x, a) /\ ~Gone(k, x, a)) \/ Come(k, x, a)
  <2> SUFFICES ASSUME NEW a \in Buffers, NEW k, NEW x, Holds(k, x, a)'
               PROVE  (Holds(k, x, a) /\ ~Gone(k, x, a)) \/ Come(k, x, a)
    OBVIOUS
  <2>1. CASE InTodo(todo', k, x, a)
    BY <1>11, <2>1 DEF Holds, InTodo
  <2>2. CASE InWake(buf', k, x, a)
    BY <1>11, <2>2 DEF Holds
  <2>3. CASE InWorker(worker', k, x, a)
    BY <1>10, <2>3 DEF Holds, InWorker
  <2>4. CASE \/ InMem(mem', k, x, a) \/ InOutput(output', k, x, a)
             \/ InWait(wait', k, x, a) \/ InReader(reader', k, x, a)
             \/ InWriter(writer', k, x, a)
    BY <1>2, <2>4 DEF Holds, InMem, InOutput, InWait, InReader, InWriter
  <2>5. QED
    BY <2>1, <2>2, <2>3, <2>4 DEF Holds
<1>13. "to_wake" \notin Slots
  BY DEF Slots
<1>14. Moved(gone, come)
  BY <1>3, <1>4, <1>7, <1>12, <1>13 DEF Moved
<1>15. Apart' /\ Known'
  BY <1>5, <1>14, Moves
<1>16. Lists'
  BY <1>2, <1>4, <1>5, <1>9, EmptyItems DEF Lists
<1>17. QED
  BY <1>15, <1>16 DEF Own

(* A fetch or an update: the buffer waits, a new one carries the request.  *)
LEMMA AsksOwn ==
  ASSUME TypeOK, Own, NEW w \in Workers, NEW b \in Buffers, NEW k0 \in Kinds, NEW phase,
         NEW e \in Conns, Serves(w, b), Asks(w, b, e, k0, phase)
  PROVE  Own'
<1> DEFINE r == Fresh(mem)
           c == buf[b].comm
           op == [comm |-> e, kind |-> k0, seq |-> ids[k0]]
           p == [buf[b] EXCEPT !.lock = w, !.user_data = "error", !.op = op,
                               !.ops = @ + 1, !.waiting = [to |-> k0, seq |-> op.seq]]
           q == Outgoing(e, op)
           y == [pc |-> "send", b |-> b, r |-> r, phase |-> phase]
<1>1. worker[w].pc = "got" /\ worker[w].b = b /\ buf[b] \in Contents /\ c \in Conns
  BY OwnKnown, ServesOK
<1>3. /\ Available(mem) /\ mem' = Taken(mem)
      /\ buf' = [buf EXCEPT ![b] = p, ![r] = q]
      /\ worker' = [worker EXCEPT ![w] = y]
      /\ UNCHANGED <<todo, output, reader, writer>>
  BY DEF Asks
<1>4. Queued(wait, wait', c, b)
  BY DEF Asks, Queued, TypeOK, WaitOK, Queues
<1>5. p.comm = c /\ p.to_wake = buf[b].to_wake
  BY <1>1 DEF Contents
<1>6. q.comm # None /\ q.to_wake = <<>> /\ c # None
  BY <1>1, CommAssumption DEF Outgoing, For, Blank
<1>7. y.pc = "send" /\ y.b = b /\ y.r = r
  OBVIOUS
<1> HIDE DEF op, p, q, y
<1>8. Holds("worker", w, b)
  BY <1>1, ThreadsHave
<1>9. /\ r \in Buffers /\ Slot(mem) \in Slots /\ Holds(Slot(mem), None, r)
      /\ Once(mem'.slot0) /\ Once(mem'.slot1)
      /\ \A k, x, a : InMem(mem', k, x, a) =>
           InMem(mem, k, x, a) /\ ~(a = r /\ k = Slot(mem) /\ x = None)
  BY <1>3, TakesFresh
<1> HIDE DEF r, c
<1>10. Apart /\ Known /\ Lists /\ "worker" \notin Slots
  BY DEF Own, Slots
<1>11. r # b
  BY <1>8, <1>9, <1>10 DEF Apart
<1>12. \A a \in Buffers : \/ a = b /\ buf'[a] = p
                          \/ a = r /\ buf'[a] = q
                          \/ a # b /\ a # r /\ buf'[a] = buf[a]
  BY <1>3, <1>9, <1>11 DEF TypeOK, BufOK
<1>13. /\ \A a \in Buffers : buf'[a].comm = buf[a].comm \/ buf'[a].comm # None
       /\ buf'[r].comm # None
       /\ \A a \in Buffers : buf'[a].to_wake = buf[a].to_wake \/ buf'[a].to_wake = <<>>
  BY <1>1, <1>5, <1>6, <1>9, <1>12
<1>14. /\ \A k, x, a : InWake(buf', k, x, a) => InWake(buf, k, x, a)
       /\ \A a \in Buffers : Once(buf'[a].to_wake)
  BY <1>10, <1>13, WakeKept
<1>15. /\ \A d \in Conns : Once(wait'[d])
       /\ \A k, x, a : InWait(wait', k, x, a) =>
            InWait(wait, k, x, a) \/ (a = b /\ k = "wait" /\ x = c)
  <2>1. b \notin Items(wait[c])
    BY <1>1, <1>8, <1>10, Elsewhere
  <2>2. WaitOK
    BY DEF TypeOK
  <2>3. QED
    BY <1>1, <1>4, <1>10, <2>1, <2>2, WaitQueued
<1>16. \A k, x, a : InWorker(worker', k, x, a) =>
         \/ x # w /\ InWorker(worker, k, x, a)
         \/ x = w /\ k = "request" /\ a = r
  <2>1. \A k, x, a : InWorker(worker', k, x, a) =>
          \/ x # w /\ InWorker(worker, k, x, a)
          \/ x = w /\ k = "worker" /\ y.b = a /\ y.pc \in {"got", "free", "initfree"}
          \/ x = w /\ k = "request" /\ y.r = a
    BY <1>3, WorkerHolds DEF TypeOK
  <2>2. QED
    BY <1>7, <2>1
<1>17. UNCHANGED <<todo, output, reader, writer>>
  BY <1>3
<1> DEFINE Gone(k, x, a) == \/ a = b /\ k = "worker" /\ x = w
                            \/ a = r /\ k = Slot(mem) /\ x = None
           Come(k, x, a) == \/ a = b /\ k = "wait" /\ x = c
                            \/ a = r /\ k = "request" /\ x = w
           gone == {<<"worker", w, b>>, <<Slot(mem), None, r>>}
           come == {<<"wait", c, b>>, <<"request", w, r>>}
<1>18. \A k, x, a : (<<k, x, a>> \in gone <=> Gone(k, x, a)) /\ (<<k, x, a>> \in come <=> Come(k, x, a))
  OBVIOUS
<1> HIDE DEF gone, come
<1>19. \A a \in Buffers : \A k, x : Holds(k, x, a)' => (Holds(k, x, a) /\ ~Gone(k, x, a)) \/ Come(k, x, a)
  <2> SUFFICES ASSUME NEW a \in Buffers, NEW k, NEW x, Holds(k, x, a)'
               PROVE  (Holds(k, x, a) /\ ~Gone(k, x, a)) \/ Come(k, x, a)
    OBVIOUS
  <2>1. CASE InMem(mem', k, x, a)
    BY <1>9, <2>1 DEF Holds, InMem
  <2>2. CASE InWait(wait', k, x, a)
    BY <1>9, <1>15, <2>2 DEF Holds, InWait, Slots
  <2>3. CASE InWake(buf', k, x, a)
    BY <1>9, <1>14, <2>3 DEF Holds, InWake, Slots
  <2>4. CASE InWorker(worker', k, x, a)
    BY <1>9, <1>16, <2>4 DEF Holds, InWorker, Slots
  <2>5. CASE \/ InTodo(todo', k, x, a) \/ InOutput(output', k, x, a)
             \/ InReader(reader', k, x, a) \/ InWriter(writer', k, x, a)
    BY <1>9, <1>17, <2>5 DEF Holds, InTodo, InOutput, InReader, InWriter, Slots
  <2>6. QED
    BY <2>1, <2>2, <2>3, <2>4, <2>5 DEF Holds
<1>20. Moved(gone, come)
  <2>1. \A a \in Buffers : \A k, x : Come(k, x, a) =>
          \E l, z : /\ Holds(l, z, a) /\ Gone(l, z, a)
                    /\ (l \in Slots /\ k \notin Slots => buf'[a].comm # None)
    BY <1>8, <1>9, <1>10, <1>13
  <2>2. \A a \in Buffers : \A k, x, l, z : Come(k, x, a) /\ Come(l, z, a) => k = l /\ x = z
    BY <1>11
  <2> HIDE DEF Gone, Come
  <2>3. QED
    BY <1>13, <1>18, <1>19, <2>1, <2>2 DEF Moved
<1>21. Apart' /\ Known'
  BY <1>10, <1>20, Moves
<1>22. Lists'
  BY <1>9, <1>10, <1>14, <1>15, <1>17 DEF Lists
<1>23. QED
  BY <1>21, <1>22 DEF Own

(* The buffer is too small: a new one takes its place, with what waits in  *)
(* it, and it goes home.                                                   *)
LEMMA ResizesOwn ==
  ASSUME TypeOK, Own, NEW w \in Workers, Resizes(w)
  PROVE  Own'
<1> DEFINE b == worker[w].b
           n == Fresh(mem)
           m == Taken(mem)
           r == Fresh(m)
           c == buf[b].comm
           bufs == Resized(b, n)
           y == [worker[w] EXCEPT !.b = n]
           woken == Items(buf[b].to_wake)
<1>1. /\ worker[w].pc = "got" /\ Available(mem)
      /\ Free(b, bufs, m, output)
      /\ worker' = [worker EXCEPT ![w] = y]
  BY DEF Resizes, Locks, WorkerAt, Resized
<1>2. UNCHANGED <<wait, reader, writer>>
  BY DEF Resizes
<1>3. b \in Buffers /\ Holds("worker", w, b) /\ c \in Conns
  BY <1>1, ThreadsHave, OwnKnown DEF CommKnown
<1>4. y.pc = "got" /\ y.b = n /\ y.r = worker[w].r
  BY <1>1 DEF TypeOK, WorkerOK, WorkersAt
<1>5. /\ n \in Buffers /\ Slot(mem) \in Slots /\ Holds(Slot(mem), None, n)
      /\ Once(m.slot0) /\ Once(m.slot1) /\ m \in Memory
      /\ \A k, x, a : InMem(m, k, x, a) =>
           InMem(mem, k, x, a) /\ ~(a = n /\ k = Slot(mem) /\ x = None)
  BY <1>1, TakesFresh, TakenOK DEF TypeOK, MemOK
<1>6. Apart /\ Known /\ Lists /\ "worker" \notin Slots /\ "to_wake" \notin Slots
  BY DEF Own, Slots
<1>7. n # b
  BY <1>3, <1>5, <1>6 DEF Apart
<1>8. /\ bufs \in [Buffers -> Contents]
      /\ bufs[b].comm = c /\ bufs[b].to_wake = <<>>
      /\ bufs[n].comm = c /\ bufs[n].to_wake = buf[b].to_wake
      /\ \A a \in Buffers \ {b, n} : bufs[a] = buf[a]
  BY <1>3, <1>5, <1>7, ResizedOK
<1>9. woken \subseteq Buffers /\ \A a \in woken : Holds("to_wake", b, a)
  <2>1. buf[b].to_wake \in Seq(Buffers)
    BY <1>3 DEF TypeOK, BufOK, Contents
  <2>2. QED
    BY <1>3, <2>1, ItemsTyped DEF Holds, InWake
<1> HIDE DEF bufs, y, m, n, b
<1>10. ASSUME SendsReady(b)
       PROVE  /\ r \in Buffers /\ r # n /\ r # b /\ r \notin woken
              /\ Holds(Slot(m), None, r) /\ Slot(m) \in Slots
              /\ \A d \in Conns : r \notin Items(output[d])
  <2>1. Available(m)
    BY <1>10, <1>1 DEF Free
  <2>2. r \in Buffers /\ InMem(m, Slot(m), None, r) /\ Slot(m) \in Slots
    BY <1>5, <2>1, TakenOK, TakenFrom DEF Slot, Slots
  <2>3. Holds(Slot(m), None, r) /\ (r = n => Slot(m) # Slot(mem))
    BY <1>5, <2>2 DEF Holds
  <2>4. r # n /\ r # b
    BY <1>3, <1>5, <1>6, <2>2, <2>3 DEF Apart
  <2>5. Slot(m) # "output" /\ Slot(m) # "to_wake"
    BY DEF Slot
  <2>6. \A d \in Conns : r \notin Items(output[d])
    BY <1>6, <2>2, <2>3, <2>5, Elsewhere
  <2>7. r \notin woken
    BY <1>3, <1>6, <2>2, <2>3, <2>5, Elsewhere
  <2>8. QED
    BY <2>2, <2>3, <2>4, <2>6, <2>7
<1>11. b \notin woken /\ b \notin Items(m.slot0) /\ b \notin Items(m.slot1) /\ n \notin woken
  <2>1. b \notin woken /\ b \notin Items(mem.slot0) /\ b \notin Items(mem.slot1)
    BY <1>3, <1>6, Elsewhere
  <2>2. b \notin Items(m.slot0) /\ b \notin Items(m.slot1)
    BY <1>5, <2>1 DEF InMem
  <2>3. n \notin woken
    BY <1>1, <1>3, TakesFresh DEF n
  <2>4. QED
    BY <2>1, <2>2, <2>3
<1>12. /\ \A k, x, a : InTodo(todo', k, x, a) => InTodo(todo, k, x, a)
       /\ \A k, x, a : InMem(mem', k, x, a) =>
            \/ InMem(m, k, x, a) /\ ~(SendsReady(b) /\ k = Slot(m) /\ x = None /\ a = r)
            \/ a = b /\ k = Home(b) /\ x = None
       /\ \A k, x, a : InOutput(output', k, x, a) =>
            \/ InOutput(output, k, x, a)
            \/ SendsReady(b) /\ k = "output" /\ x = c /\ a = r
       /\ \A k, x, a : InWake(buf', k, x, a) => InWake(bufs, k, x, a) /\ x # b
       /\ SendsReady(b) => buf'[r].comm # None \/ r = b
       /\ \A a \in Buffers : buf'[a].comm = bufs[a].comm \/ buf'[a].comm # None \/ a = b
       /\ Once(todo') /\ Once(mem'.slot0) /\ Once(mem'.slot1)
       /\ \A d \in Conns : Once(output'[d])
       /\ \A a \in Buffers : buf'[a].to_wake = bufs[a].to_wake \/ buf'[a].to_wake = <<>>
  <2>1. \A d \in Conns : Once(output[d]) /\ (SendsReady(b) => Fresh(m) \notin Items(output[d]))
    BY <1>6, <1>10 DEF Lists
  <2>2. /\ Once(todo) /\ Once(bufs[b].to_wake) /\ Items(bufs[b].to_wake) = {}
        /\ output \in Queues
    BY <1>6, <1>8, EmptyItems DEF Lists, TypeOK, OutputOK
  <2>3. Items(todo) \cap Items(bufs[b].to_wake) = {}
    BY <2>2
  <2>4. /\ \A k, x, a : InTodo(todo', k, x, a) =>
             \/ InTodo(todo, k, x, a)
             \/ k = "todo" /\ x = None /\ a \in Items(bufs[b].to_wake)
        /\ \A k, x, a : InMem(mem', k, x, a) =>
             \/ InMem(m, k, x, a) /\ ~(SendsReady(b) /\ k = Slot(m) /\ x = None /\ a = Fresh(m))
             \/ a = b /\ k = Home(b) /\ x = None
        /\ \A k, x, a : InOutput(output', k, x, a) =>
             \/ InOutput(output, k, x, a)
             \/ SendsReady(b) /\ k = "output" /\ x = buf[b].comm /\ a = Fresh(m)
        /\ \A k, x, a : InWake(buf', k, x, a) => InWake(bufs, k, x, a) /\ x # b
        /\ SendsReady(b) => buf'[Fresh(m)].comm # None \/ Fresh(m) = b
        /\ \A a \in Buffers : buf'[a].comm = bufs[a].comm \/ buf'[a].comm # None \/ a = b
        /\ Once(todo') /\ Once(mem'.slot0) /\ Once(mem'.slot1)
        /\ \A d \in Conns : Once(output'[d])
        /\ \A a \in Buffers : buf'[a].to_wake = bufs[a].to_wake \/ buf'[a].to_wake = <<>>
    BY <1>1, <1>3, <1>5, <1>8, <1>11, <2>1, <2>2, <2>3, FreePieces
  <2>5. QED
    BY <2>2, <2>4
<1> HIDE DEF r
<1>13. \A k, x, a : InWake(buf', k, x, a) =>
         \/ InWake(buf, k, x, a) /\ x # b
         \/ a \in woken /\ k = "to_wake" /\ x = n
  BY <1>8, <1>12 DEF InWake
<1>14. \A a \in Buffers : Once(buf'[a].to_wake)
  <2>1. \A a \in Buffers : Once(bufs[a].to_wake)
    BY <1>3, <1>6, <1>8, EmptyItems DEF Lists
  <2>2. QED
    BY <1>12, <2>1, EmptyItems
<1>15. \A k, x, a : InWorker(worker', k, x, a) =>
         \/ InWorker(worker, k, x, a) /\ ~(k = "worker" /\ x = w)
         \/ x = w /\ k = "worker" /\ a = n
  <2>1. \A k, x, a : InWorker(worker', k, x, a) =>
          \/ x # w /\ InWorker(worker, k, x, a)
          \/ x = w /\ k = "worker" /\ y.b = a /\ y.pc \in {"got", "free", "initfree"}
          \/ x = w /\ k = "request" /\ y.r = a
    BY <1>1, WorkerHolds DEF TypeOK
  <2>2. QED
    BY <1>4, <2>1 DEF InWorker
<1>16. /\ \A a \in Buffers : buf'[a].comm = buf[a].comm \/ buf'[a].comm # None \/ a = b
       /\ buf'[n].comm # None
       /\ SendsReady(b) => buf'[r].comm # None
  <2>1. c # None
    BY <1>3, CommAssumption
  <2>2. bufs[n].comm # None
    BY <1>8, <2>1
  <2>3. buf'[n].comm # None
    BY <1>5, <1>7, <1>12, <2>2
  <2>4. \A a \in Buffers \ {b, n} : bufs[a].comm = buf[a].comm
    BY <1>8
  <2>5. QED
    BY <1>10, <1>12, <2>3, <2>4
<1> HIDE DEF woken, c
<1> DEFINE Gone(k, x, a) == \/ a = b /\ k = "worker" /\ x = w
                            \/ a = n /\ k = Slot(mem) /\ x = None
                            \/ a \in woken /\ k = "to_wake" /\ x = b
                            \/ SendsReady(b) /\ a = r /\ k = Slot(m) /\ x = None
           Come(k, x, a) == \/ a = b /\ k = Home(b) /\ x = None
                            \/ a = n /\ k = "worker" /\ x = w
                            \/ a \in woken /\ k = "to_wake" /\ x = n
                            \/ SendsReady(b) /\ a = r /\ k = "output" /\ x = c
           gone == {t \in {<<"worker", w, b>>, <<Slot(mem), None, n>>, <<Slot(m), None, r>>}
                            \cup {<<"to_wake", b, a>> : a \in woken} : Gone(t[1], t[2], t[3])}
           come == {t \in {<<Home(b), None, b>>, <<"worker", w, n>>, <<"output", c, r>>}
                            \cup {<<"to_wake", n, a>> : a \in woken} : Come(t[1], t[2], t[3])}
<1>17. \A k, x, a : <<k, x, a>> \in gone <=> Gone(k, x, a)
  OBVIOUS
<1>18. \A k, x, a : <<k, x, a>> \in come <=> Come(k, x, a)
  OBVIOUS
<1> HIDE DEF gone, come
<1>19. \A a \in Buffers : \A k, x : Holds(k, x, a)' => (Holds(k, x, a) /\ ~Gone(k, x, a)) \/ Come(k, x, a)
  <2> SUFFICES ASSUME NEW a \in Buffers, NEW k, NEW x, Holds(k, x, a)'
               PROVE  (Holds(k, x, a) /\ ~Gone(k, x, a)) \/ Come(k, x, a)
    OBVIOUS
  <2>0. Slot(mem) \in Slots /\ Slot(m) \in Slots
    BY DEF Slot, Slots
  <2>1. CASE InTodo(todo', k, x, a)
    BY <1>12, <2>0, <2>1 DEF Holds, InTodo, Slots
  <2>2. CASE InMem(mem', k, x, a)
    <3>1. \/ /\ InMem(mem, k, x, a) /\ ~(a = n /\ k = Slot(mem) /\ x = None)
             /\ ~(SendsReady(b) /\ k = Slot(m) /\ x = None /\ a = r)
          \/ a = b /\ k = Home(b) /\ x = None
      BY <1>5, <1>12, <2>2
    <3>2. InMem(mem, k, x, a) => k \in Slots
      BY DEF InMem, Slots
    <3>3. QED
      BY <1>6, <3>1, <3>2 DEF Holds
  <2>3. CASE InOutput(output', k, x, a)
    BY <1>12, <2>0, <2>3 DEF Holds, InOutput, Slots
  <2>4. CASE InWake(buf', k, x, a)
    BY <1>13, <2>0, <2>4 DEF Holds, InWake, Slots
  <2>5. CASE InWorker(worker', k, x, a)
    BY <1>15, <2>0, <2>5 DEF Holds, InWorker, Slots
  <2>6. CASE InWait(wait', k, x, a) \/ InReader(reader', k, x, a) \/ InWriter(writer', k, x, a)
    BY <1>2, <2>0, <2>6 DEF Holds, InWait, InReader, InWriter, Slots
  <2>7. QED
    BY <2>1, <2>2, <2>3, <2>4, <2>5, <2>6 DEF Holds
<1>20. \A a \in Buffers : \A k, x : Come(k, x, a) =>
         \E l, z : /\ Holds(l, z, a) /\ Gone(l, z, a)
                   /\ (l \in Slots /\ k \notin Slots => buf'[a].comm # None)
  BY <1>3, <1>5, <1>6, <1>9, <1>10, <1>16
<1>21. \A a \in Buffers : \A k, x, l, z : Come(k, x, a) /\ Come(l, z, a) => k = l /\ x = z
  BY <1>7, <1>10, <1>11
<1>22. \A a \in Buffers : \/ buf'[a].comm = buf[a].comm \/ buf'[a].comm # None
                          \/ \A k, x : Holds(k, x, a)' => k \in Slots
  <2> SUFFICES ASSUME NEW a \in Buffers, NEW k, NEW x, Holds(k, x, a)', a = b
               PROVE  k \in Slots
    BY <1>16
  <2>1. (Holds(k, x, a) /\ ~Gone(k, x, a)) \/ Come(k, x, a)
    BY <1>19
  <2>2. ~(Holds(k, x, a) /\ ~Gone(k, x, a))
    BY <1>3, <1>6 DEF Apart
  <2>3. k = Home(b)
    BY <1>7, <1>10, <1>11, <2>1, <2>2
  <2>4. QED
    BY <2>3 DEF Home, Slots
<1>23. Apart' /\ Known'
  <2> HIDE DEF Gone, Come
  <2>1. Moved(gone, come)
    BY <1>17, <1>18, <1>19, <1>20, <1>21, <1>22 DEF Moved
  <2>2. QED
    BY <1>6, <2>1, Moves
<1>24. Lists'
  BY <1>2, <1>6, <1>12, <1>14 DEF Lists
<1>25. QED
  BY <1>23, <1>24 DEF Own

LEMMA WorkerOwn ==
  ASSUME TypeOK, Own, NEW w \in Workers, WorkerStep(w)
  PROVE  Own'
<1>1. CASE EventAsks(w)
  <2>1. PICK b \in Buffers, k \in Kinds, d \in Conns : Serves(w, b) /\ Asks(w, b, d, k, 1)
    BY <1>1 DEF EventAsks
  <2>2. QED
    BY <2>1, AsksOwn
<1>2. CASE AnswerUpdates(w)
  <2>1. PICK b \in Buffers : Serves(w, b) /\ Asks(w, b, buf[b].comm, "update", 1003)
    BY <1>2, Zenon DEF AnswerUpdates
  <2>2. "update" \in Kinds /\ buf[b].comm \in Conns
    BY <2>1, OwnKnown, ServesOK DEF Kinds
  <2>3. QED
    BY <2>1, <2>2, AsksOwn
<1>3. QED
  BY <1>1, <1>2, WorkerTakesOwn, ResizesOwn, WorkerDecidesOwn, AnswerSendsOwn,
     WorkerFreesOwn, WorkerSendsOwn, WorkerLeavesOwn, InitWakesOwn DEF WorkerStep

-----------------------------------------------------------------------------
(* At first every buffer is free, and listed once. *)

LEMMA ListedOnce ==
  ASSUME NEW S \in SUBSET Buffers, NEW s \in Listings(S)
  PROVE  Items(s) \subseteq S /\ Once(s)
<1> DEFINE n == Cardinality(S)
<1>1. IsFiniteSet(S) /\ S \subseteq Nat
  BY CommAssumption, FS_Subset
<1>2. n \in Nat
  BY <1>1, FS_CardinalityType
<1>3. /\ s \in [1..n -> S]
      /\ \A i, j \in DOMAIN s : i < j => s[i] < s[j]
  BY DEF Listings
<1> HIDE DEF n
<1>4. ASSUME NEW i \in 1..n PROVE i \in Nat /\ s[i] \in Nat
  <2>1. s[i] \in S
    BY <1>3
  <2>2. s[i] \in Nat
    BY <1>1, <2>1, Zenon
  <2>3. i \in Nat
    BY <1>2
  <2>4. QED
    BY <2>2, <2>3
<1>5. Once(s)
  BY <1>2, <1>3, <1>4 DEF Once
<1>6. QED
  BY <1>3, <1>5 DEF Items

LEMMA InitOwn == Init => Own
<1> SUFFICES ASSUME Init PROVE Own
  OBVIOUS
<1>1. None \notin Buffers
  BY CommAssumption
<1>2. /\ mem.slot0 \in Listings(Pool0) /\ mem.slot1 \in Listings(Pool1)
      /\ mem.heap = Heap
  BY DEF Init
<1>3. /\ Items(mem.slot0) \subseteq Pool0 /\ Once(mem.slot0)
      /\ Items(mem.slot1) \subseteq Pool1 /\ Once(mem.slot1)
  <2>1. Pool0 \in SUBSET Buffers /\ Pool1 \in SUBSET Buffers
    BY DEF Buffers
  <2>2. QED
    BY <1>2, <2>1, ListedOnce
<1>4. \A c \in Conns : Once(output[c]) /\ Once(wait[c]) /\ Items(output[c]) = {} /\ Items(wait[c]) = {}
  BY EmptyItems DEF Init
<1>5. \A b \in Buffers : Once(buf[b].to_wake) /\ Items(buf[b].to_wake) = {}
  BY EmptyItems DEF Init, Blank
<1>6. Once(todo) /\ Items(todo) = {}
  BY EmptyItems DEF Init
<1>7. Lists
  BY <1>3, <1>4, <1>5, <1>6 DEF Lists
<1>8. \A b \in Buffers : \A k, x : Holds(k, x, b) => InMem(mem, k, x, b)
  <2> SUFFICES ASSUME NEW b \in Buffers, NEW k, NEW x, Holds(k, x, b)
               PROVE  InMem(mem, k, x, b)
    OBVIOUS
  <2>1. ~InTodo(todo, k, x, b) /\ ~InOutput(output, k, x, b) /\ ~InWait(wait, k, x, b)
        /\ ~InWake(buf, k, x, b)
    BY <1>4, <1>5, <1>6 DEF InTodo, InOutput, InWait, InWake
  <2>2. ~InReader(reader, k, x, b)
    BY <1>1 DEF Init, InReader, ReaderIdle
  <2>3. ~InWorker(worker, k, x, b)
    BY <1>1 DEF Init, InWorker, WorkerIdle
  <2>4. ~InWriter(writer, k, x, b)
    BY <1>1 DEF Init, InWriter, WriterIdle
  <2>5. QED
    BY <2>1, <2>2, <2>3, <2>4 DEF Holds
<1>9. Apart
  <2>1. Pool0 \cap Pool1 = {} /\ Heap \cap (Pool0 \cup Pool1) = {}
    BY CommAssumption
  <2>2. QED
    BY <1>2, <1>3, <1>8, <2>1 DEF Apart, InMem
<1>10. Known
  BY <1>8 DEF Known, InMem, Slots
<1>11. QED
  BY <1>7, <1>9, <1>10 DEF Own

LEMMA NextOwn == TypeOK /\ Own /\ [Next]_vars => Own'
<1> SUFFICES ASSUME TypeOK, Own, [Next]_vars PROVE Own'
  OBVIOUS
<1>1. CASE UNCHANGED vars
  BY <1>1, NothingMoves DEF vars, shared, Own, Lists
<1>2. ASSUME NEW c \in Conns,
             \/ KernelMoves(c) \/ ReadsAnswer(c) \/ ReaderStep(c)
             \/ CloseStep(c) \/ WriterStep(c)
      PROVE  Own'
  BY <1>2, KernelOwn, ReaderOwn, CloseOwn, WriterOwn
<1>3. ASSUME NEW w \in Workers, WorkerStep(w) PROVE Own'
  BY <1>3, WorkerOwn
<1>4. CASE MainReturns
  BY <1>4, EndsOwn DEF MainReturns
<1>5. QED
  BY <1>1, <1>2, <1>3, <1>4 DEF Next, Done

(* The types and the ownership of the buffers hold together: that a worker *)
(* asks for a buffer of some connection is what the types need of it.      *)
LEMMA OwnInvariant == Spec => [](TypeOK /\ Own)
<1>1. Init => TypeOK /\ Own
  BY InitTypes, InitOwn
<1>2. TypeOK /\ Own /\ [Next]_vars => (TypeOK /\ Own)'
  BY OwnKnown, NextTypes, NextOwn
<1>3. QED
  BY <1>1, <1>2, PTL DEF Spec

-----------------------------------------------------------------------------
(* The theorems. *)

(* Every variable of the communication core keeps to its type: a thread    *)
(* that works on a buffer has one, an index that is used is in range, a    *)
(* do_phase is one of those do_event() and mcp_answer() leave behind.      *)
THEOREM CommTypesKept == Spec => []TypeOK
BY OwnInvariant, PTL

(* The index of a place in its queue.                                      *)
Indexed(k, x, i, b) ==
  /\ k = "todo" => i \in At(b, todo)
  /\ k = "output" => i \in At(b, output[x])
  /\ k = "wait" => i \in At(b, wait[x])
  /\ k = "to_wake" => i \in At(b, buf[x].to_wake)
  /\ k = "slot0" => i \in At(b, mem.slot0)
  /\ k = "slot1" => i \in At(b, mem.slot1)
  /\ k \notin {"todo", "output", "wait", "to_wake", "slot0", "slot1"} => i = 0

LEMMA PlacesHold ==
  ASSUME NEW b \in Buffers, NEW p \in Places(b)
  PROVE  \E k, x, i : p = <<k, x, i>> /\ Holds(k, x, b) /\ Indexed(k, x, i, b)
<1> DEFINE T  == {<<"todo", None, i>> : i \in At(b, todo)}
           O  == UNION {{<<"output", c, i>> : i \in At(b, output[c])} : c \in Conns}
           W  == UNION {{<<"wait", c, i>> : i \in At(b, wait[c])} : c \in Conns}
           K  == UNION {{<<"to_wake", a, i>> : i \in At(b, buf[a].to_wake)} : a \in Buffers}
           S0 == {<<"slot0", None, i>> : i \in At(b, mem.slot0)}
           S1 == {<<"slot1", None, i>> : i \in At(b, mem.slot1)}
           H  == {<<"heap", None, 0>> : h \in mem.heap \cap {b}}
           R  == {<<"reader", c, 0>> : c \in {c \in Conns : reader[c].b = b
                                                         /\ reader[c].pc \in Owning}}
           F  == {<<"fetched", c, 0>> : c \in {c \in Conns : reader[c].p = b}}
           G  == {<<"worker", w, 0>> : w \in {w \in Workers : worker[w].b = b
                               /\ worker[w].pc \in {"got", "free", "initfree"}}}
           Q  == {<<"request", w, 0>> : w \in {w \in Workers : worker[w].r = b}}
           V  == {<<"writer", c, 0>> : c \in {c \in Conns : writer[c].b = b}}
<1>0. Places(b) = T \cup O \cup W \cup K \cup S0 \cup S1 \cup H \cup R \cup F \cup G \cup Q \cup V
  BY DEF Places
<1>1. CASE p \in T
  BY <1>1 DEF At, Items, Holds, InTodo, Indexed
<1>2. CASE p \in O
  BY <1>2 DEF At, Items, Holds, InOutput, Indexed
<1>3. CASE p \in W
  BY <1>3 DEF At, Items, Holds, InWait, Indexed
<1>4. CASE p \in K
  BY <1>4 DEF At, Items, Holds, InWake, Indexed
<1>5. CASE p \in S0 \/ p \in S1 \/ p \in H
  BY <1>5 DEF At, Items, Holds, InMem, Indexed
<1>6. CASE p \in R \/ p \in F
  BY <1>6 DEF Holds, InReader, Indexed
<1>7. CASE p \in G \/ p \in Q
  BY <1>7 DEF Holds, InWorker, Indexed
<1>8. CASE p \in V
  BY <1>8 DEF Holds, InWriter, Indexed
<1> HIDE DEF T, O, W, K, S0, S1, H, R, F, G, Q, V
<1>9. QED
  BY <1>0, <1>1, <1>2, <1>3, <1>4, <1>5, <1>6, <1>7, <1>8

(* Two places of a buffer that has one place at most are the same.       *)
LEMMA PlacesSame ==
  ASSUME Own, NEW b \in Buffers, NEW p \in Places(b), NEW q \in Places(b)
  PROVE  p = q
<1>1. PICK k, x, i : p = <<k, x, i>> /\ Holds(k, x, b) /\ Indexed(k, x, i, b)
  BY PlacesHold
<1>2. PICK l, y, j : q = <<l, y, j>> /\ Holds(l, y, b) /\ Indexed(l, y, j, b)
  BY PlacesHold
<1>3. k = l /\ x = y
  BY <1>1, <1>2 DEF Own, Apart
<1>4. i = j
  <2>1. /\ k \in {"output", "wait"} => x \in Conns
        /\ k = "to_wake" => x \in Buffers
    BY <1>1 DEF Holds, InTodo, InMem, InOutput, InWait, InWake, InReader, InWorker, InWriter
  <2>2. QED
    BY <1>1, <1>2, <1>3, <2>1 DEF Own, Lists, Once, Indexed, At
<1>5. QED
  BY <1>1, <1>2, <1>3, <1>4

LEMMA OwnIsApart == Own => NoTwoPlaces
<1> SUFFICES ASSUME Own, NEW b \in Buffers PROVE Cardinality(Places(b)) <= 1
  BY DEF NoTwoPlaces
<1>1. CASE Places(b) = {}
  BY <1>1, FS_EmptySet
<1>2. CASE Places(b) # {}
  <2>1. PICK p : Places(b) = {p}
    BY <1>2, PlacesSame
  <2>2. Cardinality({p}) = 1
    BY FS_Singleton
  <2>3. QED
    BY <2>1, <2>2
<1>3. QED
  BY <1>1, <1>2

(* No buffer is ever in two places, whatever the kernels send and however  *)
(* the connections end: none is queued twice, queued and free, free and    *)
(* still worked on, or in the hands of two threads (comm_buf_todo(),       *)
(* comm_buf_from_queue(), comm_buf_get() and comm_buf_free() as the reader,*)
(* the workers, the writer and mcp_close() call them).                     *)
THEOREM NoBufferTwice == Spec => []NoTwoPlaces
<1>1. TypeOK /\ Own => NoTwoPlaces
  BY OwnIsApart
<1>2. QED
  BY <1>1, OwnInvariant, PTL

=============================================================================
