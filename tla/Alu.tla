--------------------------------- MODULE Alu ---------------------------------
(***************************************************************************)
(* Values of handler expressions: the register of the interpreter, the     *)
(* forms in which it is pushed on the stack, the operations of alu.c and   *)
(* alu2.c on two registers, and object_get_val()/object_set_val(), which   *)
(* move a value between a register and an attribute of a kernel object in  *)
(* the byte order of its connection.                                       *)
(*                                                                         *)
(* Memory is sequences of bytes, least significant first.  A byte has      *)
(* 2^ByteBits values (8 bits in the code), a u_int32_t WordBytes bytes (4),*)
(* a uintptr_t PtrBytes (8) and a register's buffer BufBytes (4096).       *)
(***************************************************************************)
EXTENDS Integers, Sequences, SequencesExt, Bitwise

CONSTANTS ByteBits, WordBytes, PtrBytes, BufBytes,
          Attrs,      \* attributes a handler can read
          Literals,   \* numbers written in the configuration
          Targets,    \* attributes a handler can assign to
          MaxOps      \* bound: operations in one expression

Base == 2^ByteBits

ASSUME AluAssumption ==
    /\ ByteBits \in Nat \ {0}
    /\ WordBytes \in Nat \ {0}
    /\ PtrBytes = 2 * WordBytes
    /\ BufBytes % PtrBytes = 0
    /\ \A a \in Attrs \cup Targets :
          a.type \in {"u", "s", "c", "b"} /\ Len(a.bytes) \in 1..BufBytes
    /\ Literals \subseteq 0..(Base^PtrBytes - 1)

VARIABLES pc,      \* what the expression does next
          acc,     \* the value on top of the stack
          want,    \* the values the source expression may have
          departs, \* why the code may compute another one, none at first
          target,  \* the attribute assigned to, none before
          ops      \* operations done, a bound

vars == <<pc, acc, want, departs, target, ops>>

-----------------------------------------------------------------------------
(* Bytes and numbers. *)

Unsigned(bs) == FoldRight(LAMBDA b, n : n * Base + b, bs, 0)
Negative(bs) == bs[Len(bs)] >= Base \div 2
Number(type, bs) ==
    IF type = "s" /\ Negative(bs) THEN Unsigned(bs) - Base^Len(bs) ELSE Unsigned(bs)
Bytes(x, n) == [i \in 1..n |-> (x \div Base^(i - 1)) % Base]
Wrap(type, n, x) == Number(type, Bytes(x, n))

Least(x, y) == IF x < y THEN x ELSE y
Most(x, y) == IF x > y THEN x ELSE y
Words(len) == (len + WordBytes - 1) \div WordBytes
LenAlign(len) == ((len + PtrBytes - 1) \div PtrBytes) * PtrBytes
Fill(b, n) == [i \in 1..n |-> b]
Integer(type) == type \in {"u", "s"}

(* strnlen(): the bytes of a string up to its terminator *)
Text(bs) == LET ends == {i \in DOMAIN bs : bs[i] = 0}
            IN IF ends = {} THEN bs
               ELSE SubSeq(bs, 1, (CHOOSE i \in ends : \A j \in ends : i <= j) - 1)

-----------------------------------------------------------------------------
(* Attributes: [type, bytes, swapped, readonly, head].  head is what       *)
(* precedes the attribute in its object: attr->offset is Len(head).        *)
(* swapped is the object's OBJECT_FLAG_CHENDIAN.                           *)

(* Mutation: a signed value is filled up like an unsigned one. *)
Extend_Zero(type, bs, n) == bs \o Fill(0, n - Len(bs))

Extend(type, bs, n) ==
    bs \o Fill(IF type = "s" /\ Negative(bs) THEN Base - 1 ELSE 0, n - Len(bs))

(* n bytes of a register; junk is what they held before *)
GetVal(a, max, junk) ==
    LET n == Least(Len(a.bytes), max)
        low == IF a.swapped THEN SubSeq(Reverse(a.bytes), 1, n)
                            ELSE SubSeq(a.bytes, 1, n)
        text == Text(SubSeq(a.bytes, 1, n))
    IN CASE Integer(a.type) -> Extend(a.type, low, max)
         [] a.type = "b" -> SubSeq(a.bytes, 1, n) \o Fill(0, max - n)
         [] a.type = "c" ->
              IF max > n
              THEN text \o Fill(0, n + 1 - Len(text)) \o Fill(junk, max - n - 1)
              ELSE SubSeq(text \o Fill(0, n), 1, n - 1) \o <<0>>

(* what a holds after max bytes of buf were assigned as a value of type *)
SetVal(a, type, buf, max) ==
    LET len == Len(a.bytes)
        n == Least(len, max)
        low == SubSeq(buf, 1, n) \o
               Fill(IF type = "s" /\ buf[max] >= Base \div 2 THEN Base - 1 ELSE 0, len - n)
        text == Text(SubSeq(buf, 1, n))
    IN [a EXCEPT !.bytes =
          CASE Integer(type) -> IF a.swapped THEN Reverse(low) ELSE low
            [] type = "b" -> SubSeq(buf, 1, n) \o Fill(0, len - n)
            [] type = "c" ->
                 IF len > n
                 THEN text \o Fill(0, n + 1 - Len(text)) \o SubSeq(a.bytes, n + 2, len)
                 ELSE SubSeq(text \o Fill(0, n), 1, n - 1) \o <<0>>]

SwapEndian(a) == [a EXCEPT !.bytes = IF Integer(a.type) THEN Reverse(@) ELSE @]

(* Mutation: the flag changes and the bytes do not. *)
SetByteOrder_FlagOnly(a) == [a EXCEPT !.swapped = ~@]

(* object_set_byte_order(): the object changes to the other byte order *)
SetByteOrder(a) == [SwapEndian(a) EXCEPT !.swapped = ~@]

-----------------------------------------------------------------------------
(* What is on the stack: "mem" a pointer to an attribute, "int" a          *)
(* uintptr_t of type signed (a number of the configuration), "tmp" a       *)
(* result, pushed as whole words with its own attribute.                   *)

Mem(a) == [kind |-> "mem", type |-> a.type, len |-> Len(a.bytes), attr |-> a, words |-> <<>>]
Lit(k) == [kind |-> "int", type |-> "s", len |-> WordBytes, attr |-> <<>>,
           words |-> Bytes(k, PtrBytes)]

(* A register: its buffer holds the value (imm) or it refers to an         *)
(* attribute.  junk is what the buffer held before.  The stack keeps the   *)
(* addresses of the object's data and of the attribute, not the object:    *)
(* R_pop() takes it for a local variable in the byte order of the machine, *)
(* which is never read-only.                                               *)
Local(a) == [a EXCEPT !.swapped = FALSE, !.readonly = FALSE]
Pop(e, junk) ==
    [imm |-> e.kind # "mem", kind |-> e.kind, type |-> e.type, len |-> e.len,
     attr |-> IF e.kind = "mem" THEN Local(e.attr) ELSE e.attr,
     buf |-> e.words \o Fill(junk, BufBytes - Len(e.words))]

Imm(r, junk) ==
    LET n == Least(LenAlign(r.len), BufBytes)
    IN IF r.imm THEN r
       ELSE [r EXCEPT !.imm = TRUE,
                      !.buf = GetVal(r.attr, n, junk) \o Fill(junk, BufBytes - n)]

Push(r) ==
    IF r.kind = "int" THEN [Lit(0) EXCEPT !.words = SubSeq(r.buf, 1, PtrBytes)]
    ELSE IF r.imm
    THEN [kind |-> "tmp", type |-> r.type, len |-> r.len, attr |-> <<>>,
          words |-> SubSeq(r.buf, 1, Least(Words(r.len) * WordBytes, BufBytes))]
    ELSE Mem(r.attr)

(* r_resize(): an integer is taken to fill its uintptr_t already *)
Resize(r, size) ==
    IF \/ Integer(r.type) /\ LenAlign(r.len) >= size
       \/ r.len >= size
       \/ r.type = "c"
    THEN r
    ELSE [r EXCEPT !.buf = SubSeq(r.buf, 1, r.len) \o Fill(0, size - r.len)
                           \o SubSeq(r.buf, size + 1, BufBytes)]

-----------------------------------------------------------------------------
(* Operations. *)

Arithmetic == {"add", "sub", "mul", "div", "mod"}
Logic == {"and", "or", "xor"}
Compare == {"lt", "gt", "le", "ge", "eq", "ne"}
OpNames == Arithmetic \cup Logic \cup Compare \cup {"shl", "shr"}

(* op_func[op][t1][t2] # NULL; a string can also be added a number or a    *)
(* bitmap, which formats it: the text of a number is not modelled          *)
Defined(op, t1, t2) ==
    \/ Integer(t1) /\ Integer(t2)
    \/ t1 = "c" /\ t2 = "c" /\ op \in Compare \cup {"add"}
    \/ t1 = "b" /\ t2 = "b" /\ op \in Logic \cup {"add", "sub", "eq", "ne"}
    \/ t1 = "b" /\ Integer(t2) /\ op \in {"add", "sub"}

(* the type the OPi and ROPi instances give the result *)
ResultType(op, t1, t2) ==
    CASE op \in Compare -> "u"
      [] op \in {"shl", "shr"} -> t1
      [] op = "sub" -> "s"
      [] OTHER -> IF t1 = "u" /\ t2 = "u" THEN "u" ELSE "s"

(* C: between operands of one width an unsigned one makes both unsigned *)
Promote(t1, t2, n, x) == IF t1 = "u" \/ t2 = "u" THEN x % Base^n ELSE x
Magnitude(x) == IF x < 0 THEN -x ELSE x
Quotient(x, y) == IF (x < 0) = (y < 0) THEN Magnitude(x) \div Magnitude(y)
                  ELSE -(Magnitude(x) \div Magnitude(y))
Holds(op, x, y) ==
    CASE op = "lt" -> x < y [] op = "gt" -> x > y [] op = "le" -> x <= y
      [] op = "ge" -> x >= y [] op = "eq" -> x = y [] op = "ne" -> x # y
Truth(b) == IF b THEN 1 ELSE 0
Bits(op, x, y) == CASE op = "and" -> x & y [] op = "or" -> x | y [] op = "xor" -> x ^^ y

(* The result of x op y on n bytes before it is cut to its width.  A shift *)
(* by a negative number or by the width or more is undefined in C.         *)
Results(op, t1, t2, n, x, y) ==
    LET p == Promote(t1, t2, n, x)
        q == Promote(t1, t2, n, y)
        m == Base^n
    IN CASE op = "add" -> {x + y} [] op = "sub" -> {x - y} [] op = "mul" -> {x * y}
         [] op = "div" -> {Quotient(p, q)}
         [] op = "mod" -> {p - q * Quotient(p, q)}
         [] op \in Logic -> {Bits(op, x % m, y % m)}
         [] op \in Compare -> {Truth(Holds(op, p, q))}
         [] op \in {"shl", "shr"} ->
              IF y \in 0..(n * ByteBits - 1)
              THEN {IF op = "shl" THEN x * 2^y ELSE x \div 2^y}
              ELSE {0, 1, m - 1}

(* the processor traps: no handler of the signal, the program ends *)
Traps(op, t1, t2, n, x, y) ==
    /\ op \in {"div", "mod"}
    /\ LET q == Promote(t1, t2, n, y)
       IN q = 0 \/ (q = -1 /\ x = -(Base^n \div 2))

Width(v, d) == Most(Words(v.len), Words(d.len)) * WordBytes
Operand(r, n) == Number(r.type, SubSeq(r.buf, 1, n))
(* the result is written over the first len bytes of v's buffer *)
Into(v, type, len, bs) ==
    [v EXCEPT !.imm = TRUE, !.kind = "tmp", !.type = type, !.len = len,
              !.buf = SubSeq(bs \o SubSeq(v.buf, Len(bs) + 1, BufBytes), 1, BufBytes)]

IntOp(op, v, d) ==
    LET n == Width(v, d)
        type == ResultType(op, v.type, d.type)
        len == IF op \in Compare THEN WordBytes ELSE n
    IN {Into(v, type, len, Bytes(x, len)) :
          x \in Results(op, v.type, d.type, n, Operand(v, n), Operand(d, n))}

BitmapOp(op, v, d) ==
    LET n == Width(v, d)
        a == Resize(v, n).buf
        b == Resize(d, n).buf
        byte(i) == CASE op \in {"add", "or"} -> a[i] | b[i]
                     [] op = "sub" -> a[i] - (a[i] & b[i])
                     [] OTHER -> Bits(op, a[i], b[i])
    IN Into(v, "b", n, [i \in 1..n |-> byte(i)])

(* r_eq_bb(), r_ne_bb(): the loop runs over as many BYTES as there are words *)
BitmapCompare(op, v, d) ==
    LET n == Width(v, d)
        a == Resize(v, n).buf
        b == Resize(d, n).buf
    IN Into(v, "u", WordBytes,
            Bytes(Truth(\A i \in 1..(n \div WordBytes) : Holds(op, a[i], b[i])), WordBytes))

(* setbit()/clrbit() with the check of OPbx: the bit just above the bitmap *)
(* passes it; a negative one too, and then the byte is not the bitmap's    *)
BitOp(op, v, d) ==
    LET i == Operand(d, WordBytes)
        at == i \div ByteBits + 1
        bit == 2^(i % ByteBits)
    IN IF i > ByteBits * v.len \/ at \notin 1..BufBytes THEN v
       ELSE [v EXCEPT !.buf[at] = IF op = "add" THEN @ | bit ELSE @ - (@ & bit)]

Concat(v, d) ==
    LET a == Text(SubSeq(v.buf, 1, v.len))
        b == Text(SubSeq(d.buf, 1, d.len))
        both == a \o b \o <<0>>
    IN IF Len(both) < BufBytes THEN Into(v, "c", Len(both), both)
       ELSE Into(v, "c", BufBytes, SubSeq(a \o SubSeq(d.buf, 1, BufBytes - Len(a)), 1, BufBytes))

(* ROPc: the first byte in which the texts differ or end; past the length  *)
(* of one operand that one counts as 0 and the other as its LAST byte      *)
StringCompare(op, v, d) ==
    LET char(r, s, i) == IF i > r.len THEN 0
                         ELSE Number("s", <<r.buf[IF i > s.len THEN i - 1 ELSE i]>>)
        stop(i) == \/ i > v.len \/ i > d.len
                   \/ v.buf[i] = 0 \/ d.buf[i] = 0 \/ v.buf[i] # d.buf[i]
        i0 == CHOOSE i \in 1..(BufBytes + 1) : stop(i) /\ \A j \in 1..(i - 1) : ~stop(j)
    IN Into(v, "s", WordBytes,
            Bytes(Truth(Holds(op, char(v, d, i0), char(d, v, i0))), WordBytes))

(* do_bin_op(): an undefined operation leaves v as it is *)
BinOp(op, v, d) ==
    CASE ~Defined(op, v.type, d.type) -> {v}
      [] Integer(v.type) /\ Integer(d.type) -> IntOp(op, v, d)
      [] v.type = "c" -> {IF op = "add" THEN Concat(v, d) ELSE StringCompare(op, v, d)}
      [] v.type = "b" /\ Integer(d.type) -> {BitOp(op, v, d)}
      [] v.type = "b" /\ d.type = "b" ->
           {IF op \in Compare THEN BitmapCompare(op, v, d) ELSE BitmapOp(op, v, d)}

Faults(op, v, d) ==
    /\ Integer(v.type) /\ Integer(d.type)
    /\ Traps(op, v.type, d.type, Width(v, d), Operand(v, Width(v, d)), Operand(d, Width(v, d)))

(* r->data of a register that refers to an attribute is the OBJECT: r_nz() *)
(* and r_not() read whole words there and do not add attr->offset          *)
Data(r) == IF r.imm THEN r.buf
           ELSE r.attr.head \o r.attr.bytes \o Fill(0, BufBytes - Len(r.attr.head) - r.len)
NonZero(r) == \E i \in 1..Least(Words(r.len) * WordBytes, BufBytes) : Data(r)[i] # 0

(* r_not() writes its result there too; the attribute it makes for it      *)
(* has the offset tmp_attr had before, which is any                        *)
NotOf(r) ==
    LET w == Bytes(Truth(~NonZero(r)), WordBytes)
        object == w \o SubSeq(Data(r), WordBytes + 1, BufBytes)
    IN IF r.imm THEN {Into(r, "u", WordBytes, w)}
       ELSE {[r EXCEPT !.type = "u", !.len = WordBytes,
                       !.attr = [@ EXCEPT !.type = "u", !.head = SubSeq(object, 1, off),
                                          !.bytes = SubSeq(object, off + 1, off + WordBytes)]] :
               off \in {0, Len(r.attr.head)}}
NegOf(r) == [r EXCEPT !.buf = [i \in 1..BufBytes |->
                IF i <= Words(r.len) * WordBytes THEN Base - 1 - @[i] ELSE @[i]]]

(* r_sto(): as which type a value of type d is stored into an attribute of *)
(* type v; "" when there is no conversion                                  *)
StoreType(v, d) ==
    CASE Integer(v) /\ Integer(d) -> IF v = d THEN v ELSE "u"
      [] v = "b" /\ Integer(d) -> d
      [] OTHER -> IF v = d THEN v ELSE ""

-----------------------------------------------------------------------------
(* What the source expression means, on numbers, texts and sets of bits;   *)
(* and apart from it the reasons for which the code departs from that      *)
(* meaning: "swapped", "truth", "bitmaps", "narrow", "full", "string",      *)
(* "read-only".  The properties say which of them they admit.              *)

ValueOf(type, bs) == CASE Integer(type) -> Number(type, bs)
                       [] type = "b" -> Unsigned(bs)
                       [] type = "c" -> Text(bs)
AttrValue(a) ==
    ValueOf(a.type, IF a.swapped /\ Integer(a.type) THEN Reverse(a.bytes) ELSE a.bytes)
EntryValue(e) == CASE e.kind = "mem" -> AttrValue(e.attr)
                   [] e.kind = "int" -> Unsigned(e.words)
                   [] e.kind = "tmp" ->
                        ValueOf(e.type, IF Integer(e.type) THEN e.words ELSE SubSeq(e.words, 1, e.len))
If(condition, reason) == IF condition THEN {reason} ELSE {}

(* The byte order of a number is lost on the stack: see Local. *)
Misread(e) == If(e.kind = "mem" /\ e.attr.swapped /\ Integer(e.type), "swapped")

(* s before t by their first difference, characters being signed and the   *)
(* end of a text 0                                                         *)
Before(s, t) ==
    LET at(r, i) == IF i > Len(r) THEN 0 ELSE Number("s", <<r[i]>>)
    IN \E i \in 1..(Least(Len(s), Len(t)) + 1) :
          /\ at(s, i) < at(t, i)
          /\ \A j \in 1..(i - 1) : s[j] = t[j]
TextHolds(op, s, t) ==
    CASE op = "lt" -> Before(s, t) [] op = "gt" -> Before(t, s) [] op = "eq" -> s = t
      [] op = "ne" -> s # t [] op = "le" -> ~Before(t, s) [] op = "ge" -> ~Before(s, t)

(* e op f for one value x of e: the values it may have *)
Meant(op, e, x, f) ==
    LET y == EntryValue(f)
        n == Width(e, f)
        bits == ByteBits * e.len
        i == Wrap(f.type, WordBytes, y)
        rt == ResultType(op, e.type, f.type)
    IN CASE ~Defined(op, e.type, f.type) -> {x}
         [] Integer(e.type) /\ Integer(f.type) ->
              {Wrap(rt, IF op \in Compare THEN WordBytes ELSE n, r) :
                 r \in Results(op, e.type, f.type, n, Wrap(e.type, n, x), Wrap(f.type, n, y))}
         [] e.type = "c" /\ op = "add" -> {SubSeq(x \o y, 1, Least(Len(x \o y), BufBytes))}
         [] e.type = "c" /\ op # "add" -> {Truth(TextHolds(op, x, y))}
         [] e.type = "b" /\ Integer(f.type) ->
              {IF i \notin 0..(bits - 1) THEN x
               ELSE IF op = "add" THEN x | 2^i ELSE x - (x & 2^i)}
         [] e.type = "b" /\ f.type = "b" ->
              CASE op \in {"add", "or"} -> {x | y} [] op = "and" -> {x & y}
                [] op = "xor" -> {x ^^ y} [] op = "sub" -> {x - (x & y)}
                [] op \in {"eq", "ne"} -> {Truth(Holds(op, x, y))}

(* Where the code computes something else: with a swapped number; when a   *)
(* result of an operation is taken into a wider one (r_resize() does not   *)
(* extend it); when a text that fills its attribute is compared with a     *)
(* longer attribute; when different bitmaps are compared (BitmapCompare).  *)
Departs(op, e, x, f) ==
    LET y == EntryValue(f)
    IN Misread(f)
       \cup If(Integer(e.type) /\ Integer(f.type) /\ ops > 0
               /\ Words(e.len) * WordBytes < Width(e, f), "narrow")
       \cup If(e.type = "c" /\ f.type = "c" /\ op \in Compare /\ e.len # f.len
               /\ (Len(x) = e.len \/ Len(y) = f.len), "full")
       \cup If(e.type = "b" /\ f.type = "b" /\ op \in {"eq", "ne"} /\ x # y, "bitmaps")

(* x of type e.type and e.len bytes assigned to the attribute t *)
Assigned(e, x, t) ==
    LET type == StoreType(t.type, e.type)
        len == Len(t.bytes)
        y == Wrap(e.type, e.len, x)
        n == IF type = "s" THEN y ELSE y % Base^e.len
    IN CASE Integer(e.type) /\ Integer(t.type) -> Wrap(t.type, len, n)
         [] Integer(e.type) /\ t.type = "b" -> n % Base^len
         [] e.type = "c" -> SubSeq(x, 1, Least(Len(x), len - 1))
         [] e.type = "b" -> x % Base^len

-----------------------------------------------------------------------------
(* One expression: a value is loaded, operated upon, and then assigned or  *)
(* tested.                                                                 *)

Junk == {0, Base - 1}
Entries == {Mem(a) : a \in Attrs} \cup {Lit(k) : k \in Literals}
NoTarget == [type |-> "none"]

Init ==
    /\ pc = "op"
    /\ \E e \in Entries : acc = e /\ want = {EntryValue(e)} /\ departs = Misread(e)
    /\ target = NoTarget
    /\ ops = 0

(* oADD to oXOR with f on top *)
Operate(op, f, junk) ==
    LET v == Imm(Pop(acc, junk), junk)
        d == Imm(Pop(f, junk), junk)
    IN /\ pc = "op" /\ ops < MaxOps
       /\ IF Faults(op, v, d)
          THEN pc' = "trap" /\ UNCHANGED <<acc, want, departs>>
          ELSE /\ acc' \in {Push(r) : r \in BinOp(op, v, d)}
               /\ want' = UNION {Meant(op, acc, x, f) : x \in want}
               /\ departs' = departs \cup UNION {Departs(op, acc, x, f) : x \in want}
               /\ UNCHANGED pc
       /\ ops' = ops + 1
       /\ UNCHANGED target

(* oNEG reads the value first; the complement of a text means nothing *)
Complement(e, x) ==
    CASE Integer(e.type) -> Wrap(e.type, Words(e.len) * WordBytes, -1 - x)
      [] e.type = "b" -> Base^e.len - 1 - x
      [] OTHER -> x
Neg(junk) ==
    /\ pc = "op" /\ ops < MaxOps
    /\ acc' = Push(NegOf(Imm(Pop(acc, junk), junk)))
    /\ want' = {Complement(acc, x) : x \in want}
    /\ departs' = departs \cup If(acc.type = "c", "string")
    /\ ops' = ops + 1
    /\ UNCHANGED <<pc, target>>

(* oNOT and oJIZ, oJNZ do not; and all bytes of a text count *)
Zero(type, x) == IF type = "c" THEN x = <<>> ELSE x = 0
NarrowZero(e, x) == IF Integer(e.type) THEN Wrap(e.type, Words(e.len) * WordBytes, x) = 0
                    ELSE Zero(e.type, x)
TruthLost(e) == If(e.kind = "mem" \/ e.type = "c", "truth")
LogicalNot(junk) ==
    /\ pc = "op" /\ ops < MaxOps
    /\ acc' \in {Push(r) : r \in NotOf(Pop(acc, junk))}
    /\ want' = {Truth(NarrowZero(acc, x)) : x \in want}
    /\ departs' = departs \cup TruthLost(acc)
    /\ ops' = ops + 1
    /\ UNCHANGED <<pc, target>>

Test(junk) ==
    /\ pc = "op"
    /\ pc' = "tested"
    /\ acc' = Lit(Truth(NonZero(Pop(acc, junk))))
    /\ want' = {Truth(~NarrowZero(acc, x)) : x \in want}
    /\ departs' = departs \cup TruthLost(acc)
    /\ UNCHANGED <<target, ops>>

(* oSTO: r_sto(), object_set_val().  t was pushed and popped as well. *)
Store(t, junk) ==
    /\ pc = "op"
    /\ pc' = "stored"
    /\ LET d == Imm(Pop(acc, junk), junk)
           v == Local(t)
           type == StoreType(t.type, acc.type)
       IN /\ target' = IF v.readonly \/ type = "" THEN t
                       ELSE [t EXCEPT !.bytes = SetVal(v, type, d.buf, d.len).bytes]
          /\ IF t.readonly \/ type = ""
             THEN want' = {AttrValue(t)} /\ departs' = If(t.readonly, "read-only")
             ELSE /\ want' = {Assigned(acc, x, t) : x \in want}
                  /\ departs' = departs \cup Misread(Mem(t))
    /\ UNCHANGED <<acc, ops>>

(* the object goes to a connection of the other byte order *)
Reorder ==
    /\ pc = "stored"
    /\ pc' = "sent"
    /\ target' = SetByteOrder(target)
    /\ UNCHANGED <<acc, want, departs, ops>>

Next ==
    \/ \E op \in OpNames, f \in Entries, junk \in Junk : Operate(op, f, junk)
    \/ \E junk \in Junk : Neg(junk) \/ LogicalNot(junk) \/ Test(junk)
    \/ \E t \in Targets, junk \in Junk : Store(t, junk)
    \/ Reorder

Spec == Init /\ [][Next]_vars

-----------------------------------------------------------------------------
ValueAsMeant ==
    IF acc.kind = "int"
    THEN Number("s", SubSeq(acc.words, 1, WordBytes)) \in {Wrap("s", WordBytes, x) : x \in want}
    ELSE EntryValue(acc) \in want

(* Every value on the stack is one the source expression may have, for     *)
(* operands of every type and width and whatever the register buffers held *)
(* before: alu.c, R_pop(), R_push(), r_imm().  Not so when the code is     *)
(* known to depart: numbers in the other byte order, ! and tests of        *)
(* attributes and texts, comparisons of different bitmaps, results taken   *)
(* into wider operations, texts that fill their attribute, ~ of a text.    *)
ValuesRight ==
    pc \in {"op", "tested"} /\ departs = {} => ValueAsMeant

(* An assigned attribute in the byte order of the machine holds the value  *)
(* assigned, cut to its width, or its own if there is no conversion; and   *)
(* this stays true when the object is given the other byte order.  An      *)
(* attribute that is swapped at the assignment or read-only, or a value    *)
(* that departs, is left out.  However it came by its bytes,               *)
(* object_get_val() finds what is there: r_sto(), object_set_val(),        *)
(* object_set_byte_order(), object_get_val().                              *)
StoredRight ==
    pc \in {"stored", "sent"} =>
        /\ departs = {} => AttrValue(target) \in want
        /\ Integer(target.type) =>
              Number(target.type, GetVal(target, PtrBytes, 0)) \in
                  {AttrValue(target), AttrValue(target) % Base^PtrBytes}

==============================================================================
