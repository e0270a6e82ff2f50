------------------------------ MODULE Machine ------------------------------
(***************************************************************************)
(* The interpreter of compiled handlers (execute.c): one action per kind of *)
(* instruction, on a stack of words.  A value is its words and on top the  *)
(* word that says what they are: a number (LTI), a pointer (LTP), an object *)
(* (LTO), an attribute in memory ("mem") or a result that is nowhere else   *)
(* ("tmp").  What the operations do to bytes is the subject of Alu; here   *)
(* values are numbers, and a value of several words is one word.           *)
(*                                                                         *)
(* e->pos is the length of the stack.  fetch and update leave the machine  *)
(* while the kernel answers; the instruction is executed again then.       *)
(***************************************************************************)
EXTENDS Integers, Sequences, SequencesExt, FiniteSets, Bitwise

CONSTANTS
  Vars,        \* variables of the request, by name: "subject" or "object"
  AttrOf,      \* their attributes by name: who has them
  KnownClasses,\* classes the connection has
  LocalAttr,   \* the attribute of a local variable
  News,        \* what a fetched attribute may hold
  Depth        \* bound on the stack

VARIABLES
  code,     \* by name of function; "hook" is the handler
  p,        \* e->p: function and index of the next word, <<>> while not running
  z,        \* the stack
  base,     \* e->base: words below the frame's local_vars
  start,    \* e->start
  cont,     \* e->cont: "no", "asked", or what the kernel answered
  mem,      \* memory: attribute values
  trans,    \* c->local_vars, the transparent variables: names and cells
  result,   \* c->result
  log       \* what handlers asked of the kernel, with the answers

mvars == <<code, p, z, base, start, cont, mem, trans, result, log>>

Tag(t) == <<"tag", t>>
NumWord(n) == <<"num", n>>
KindOf(t) == CASE t \in {"LTI", "tmp"} -> "num" [] t \in {"LTP", "LTO", "copy"} -> "object"
               [] t = "mem" -> "place"
Entry(x, t) == <<<<KindOf(t), x>>, Tag(t)>>
LTI(v) == Entry(v, "LTI")
None == [v \in {} |-> 0]
Null == <<"null", 0, "">>   \* objects and variables are <<kind, number, name>>
Extended(f, x, y) == [k \in DOMAIN f \cup {x} |-> IF k = x THEN y ELSE f[k]]

-----------------------------------------------------------------------------
(* execute_push(), execute_pop() and R_pop(): the top of a stack is its end.*)
TopOf(s) == Last(s)
RPop(s) == SubSeq(s, 1, Len(s) - 2)
Reg(s) == <<s[Len(s) - 1][2], s[Len(s)][2]>>
RPush(s, r) == s \o Entry(r[1], r[2])

(* A register's value; an attribute is read only now. *)
Loc(r) == r[1]
Value(r) == IF r[2] = "mem" THEN mem[Loc(r)] ELSE r[1]
(* r_imm() *)
Imm(r) == CASE r[2] = "mem" -> <<mem[Loc(r)], "tmp">>
            [] r[2] = "LTO" -> <<r[1], "copy">>
            [] OTHER -> r

Truth(b) == IF b THEN 1 ELSE 0
(* C division: towards zero *)
Quotient(x, y) ==
  LET q == (IF x < 0 THEN -x ELSE x) \div (IF y < 0 THEN -y ELSE y)
  IN  IF (x < 0) = (y < 0) THEN q ELSE -q
(* do_bin_op() on numbers; the bits of numbers that are not negative *)
BinOp(op, x, y) ==
  CASE op = "ADD" -> x + y [] op = "SUB" -> x - y [] op = "MUL" -> x * y
    [] op = "DIV" -> Quotient(x, y) [] op = "MOD" -> x - y * Quotient(x, y)
    [] op = "SHL" -> x * 2^y [] op = "SHR" -> x \div 2^y
    [] op = "LT" -> Truth(x < y) [] op = "GT" -> Truth(x > y)
    [] op = "LE" -> Truth(x <= y) [] op = "GE" -> Truth(x >= y)
    [] op = "EQ" -> Truth(x = y) [] op = "NE" -> Truth(x # y)
    [] op = "AND" -> x & y [] op = "OR" -> x | y [] op = "XOR" -> x ^^ y
BinOps == {"ADD", "SUB", "MUL", "DIV", "MOD", "SHL", "SHR", "LT", "GT", "LE", "GE", "EQ", "NE",
           "AND", "OR", "XOR"}

-----------------------------------------------------------------------------
Running == p # <<>>
At(i) == code[p[1]][p[2] + i]
(* The instruction, the word of its trace, then its arguments. *)
Op == At(0)[2]
Arg1 == At(2)[2]
Go(n) == p' = <<p[1], p[2] + n>>
Runs(op) == Running /\ Op = op

(* Most instructions change the stack alone. *)
Stack(op, words, s) ==
  /\ Runs(op) /\ Go(2 + words) /\ z' = s
  /\ UNCHANGED <<code, base, start, cont, mem, trans, result, log>>

Literal ==
  \/ Runs("LDI") /\ Stack("LDI", 1, Append(z, At(2)))
  \/ \E t \in {"LTI", "LTP"} : Stack(t, 0, Append(z, Tag(t)))
  \/ Stack("LD0", 0, z \o LTI(0))
  \/ Stack("LD1", 0, z \o LTI(1))

Shuffle ==
  \/ Runs("DUP") /\ Stack("DUP", 0, RPush(z, Reg(z)))
  \/ Runs("SWP") /\ Stack("SWP", 0, RPush(RPush(RPop(RPop(z)), Reg(z)), Reg(RPop(z))))
  \/ Runs("DEL") /\ Stack("DEL", 0, RPop(z))
  \/ Runs("IMM") /\ Stack("IMM", 0, RPush(RPop(z), Imm(Reg(z))))

(* oDEn: the result stays, the arguments and their number go. *)
DropArgs ==
  /\ Runs("DEn")
  /\ LET rest == RPop(z)
         n == TopOf(rest)[2]
     IN  Stack("DEn", 0, RPush(SubSeq(rest, 1, Len(rest) - 1 - 2 * n), Reg(z)))

Arithmetic ==
  \/ /\ Running /\ Op \in BinOps
     /\ Stack(Op, 0, RPush(RPop(RPop(z)), <<BinOp(Op, Value(Reg(RPop(z))), Value(Reg(z))), "tmp">>))
  \/ Runs("NEG") /\ Stack("NEG", 0, RPush(RPop(z), <<-Value(Reg(z)) - 1, "tmp">>))

(* oNOT works where the operand is: an attribute loses its value (it is the *)
(* first of its object, where r_not() writes).                             *)
LogicalNot ==
  /\ Runs("NOT") /\ Go(2)
  /\ LET r == Reg(z)
         v == Truth(Value(r) = 0)
     IN  IF r[2] = "mem" THEN z' = z /\ mem' = [mem EXCEPT ![Loc(r)] = v]
         ELSE z' = RPush(RPop(z), <<v, "tmp">>) /\ UNCHANGED mem
  /\ UNCHANGED <<code, base, start, cont, trans, result, log>>

(* oSTO: only an attribute can be assigned to. *)
Store ==
  /\ Runs("STO") /\ Go(2)
  /\ LET to == Reg(RPop(z)) IN
     /\ mem' = IF to[2] = "mem" THEN [mem EXCEPT ![Loc(to)] = Value(Reg(z))] ELSE mem
     /\ z' = RPop(z)
  /\ UNCHANGED <<code, base, start, cont, trans, result, log>>

-----------------------------------------------------------------------------
(* Variables.  A frame's local_vars is the word at its base. *)
Locals == z[base + 1][2]

(* data_find_var() *)
FindVar(x) ==
  IF x \in DOMAIN Vars THEN Vars[x]
  ELSE IF x \in DOMAIN Locals THEN Locals[x]
  ELSE IF x \in DOMAIN trans THEN trans[x] ELSE Null

Has(o, a) == <<o, a>> \in DOMAIN mem
Object(o) == IF o = Null THEN <<0, "LTI">> ELSE <<o, "LTO">>
Attribute(o, a) == IF Has(o, a) THEN <<<<o, a>>, "mem">> ELSE <<0, "LTI">>

(* oLDV, oLDS and oATR: an attribute of the request's objects by its name  *)
(* alone comes before a variable.  An object that was copied into the      *)
(* register (an argument) is none any more.                                *)
LoadVar ==
  \/ /\ Runs("LDV")
     /\ Stack("LDV", 1, RPush(z, IF Arg1 \in DOMAIN AttrOf THEN Attribute(AttrOf[Arg1], Arg1)
                                 ELSE Object(FindVar(Arg1))))
  \/ Runs("LDS") /\ Stack("LDS", 2, RPush(z, Attribute(FindVar(Arg1), At(3)[2])))
  \/ /\ Runs("ATR")
     /\ Stack("ATR", 1, RPush(RPop(z), IF Reg(z)[2] = "LTO" THEN Attribute(Reg(z)[1], Arg1)
                                       ELSE <<0, "LTI">>))

(* oNEW: a variable of a class this connection has. *)
NewVar ==
  /\ Runs("NEW") /\ Go(3)
  /\ LET class == Reg(z)[1]
         used == {l[1][2] : l \in DOMAIN mem}
         cell == <<"var", CHOOSE n \in 0..Cardinality(used) : n \notin used, Arg1>>
     IN  IF class \in KnownClasses
         THEN /\ z' = RPush(RPop(z), <<cell, "LTP">>)
              /\ mem' = Extended(mem, <<cell, LocalAttr>>, 0)
         ELSE z' = RPush(RPop(z), <<Null, "LTP">>) /\ UNCHANGED mem
  /\ UNCHANGED <<code, base, start, cont, trans, result, log>>

(* oVRL, oVRT, var_link(): a name that is taken keeps its variable, and the *)
(* new one is known to this expression only.                               *)
LinkVar ==
  /\ Running /\ Op \in {"VRL", "VRT"} /\ Runs(Op) /\ Go(2)
  /\ LET v == Reg(z)[1]
         x == v[3]
     IN  IF v = Null THEN UNCHANGED <<z, trans>>
         ELSE LET s == RPush(RPop(z), <<v, "LTO">>) IN
              IF Op = "VRL"
              THEN /\ z' = IF x \in DOMAIN Locals THEN s
                           ELSE [s EXCEPT ![base + 1] = <<"vars", Extended(Locals, x, v)>>]
                   /\ UNCHANGED trans
              ELSE /\ trans' = IF x \in DOMAIN trans THEN trans ELSE Extended(trans, x, v)
                   /\ z' = s
  /\ UNCHANGED <<code, base, start, cont, mem, result, log>>

(* free_vars() *)
Freed(m, vs) == [l \in {k \in DOMAIN m : \A x \in DOMAIN vs : vs[x] # k[1]} |-> m[l]]

-----------------------------------------------------------------------------
(* Jumps count from the word after their argument. *)
Jump ==
  /\ Running /\ Op \in {"JR", "JIZ", "JNZ"} /\ Runs(Op)
  /\ LET taken == CASE Op = "JR" -> TRUE
                    [] Op = "JIZ" -> Value(Reg(z)) = 0
                    [] Op = "JNZ" -> Value(Reg(z)) # 0
     IN  Go(3 + (IF taken THEN Arg1 ELSE 0))
  /\ z' = IF Op = "JR" THEN z ELSE RPop(z)
  /\ UNCHANGED <<code, base, start, cont, mem, trans, result, log>>

(* oJSR: the frame is the return address, the caller's base and the local  *)
(* variables.  A function that was only declared returns 0.                *)
Call ==
  /\ Runs("JSR") /\ Len(z) < Depth
  /\ IF code[Arg1] = <<>>
     THEN Go(3) /\ z' = z \o LTI(0) /\ UNCHANGED base
     ELSE /\ z' = z \o <<<<"code", <<p[1], p[2] + 3>>>>, NumWord(base), <<"vars", None>>>>
          /\ base' = Len(z) + 2
          /\ p' = <<Arg1, 1>>
  /\ UNCHANGED <<code, start, cont, mem, trans, result, log>>

(* Mutation: the result stays a reference. *)
Return_NotRead ==
  /\ Runs("RET")
  /\ LET r == Reg(z)
         s == RPop(z)
         under == SubSeq(s, 1, Len(s) - 2)
         m == Freed(mem, Locals)
     IN  /\ base' = s[Len(s) - 1][2]
         /\ IF Len(under) <= start
            THEN /\ result' = Value(r) /\ p' = <<>>
                 /\ z' = SubSeq(under, 1, start)
                 /\ mem' = Freed(m, trans) /\ trans' = None
            ELSE /\ p' = TopOf(under)[2]
                 /\ z' = RPush(Front(under), r)
                 /\ mem' = m
                 /\ UNCHANGED <<result, trans>>
  /\ UNCHANGED <<code, start, cont, log>>

(* oRET: the result is read, since the frame's variables go; the last      *)
(* frame ends the handler.                                                 *)
Return ==
  /\ Runs("RET")
  /\ LET r == Imm(Reg(z))
         s == RPop(z)
         under == SubSeq(s, 1, Len(s) - 2)
         m == Freed(mem, Locals)
     IN  /\ base' = s[Len(s) - 1][2]
         /\ IF Len(under) <= start
            THEN /\ result' = r[1] /\ p' = <<>>
                 /\ z' = SubSeq(under, 1, start)
                 /\ mem' = Freed(m, trans) /\ trans' = None
            ELSE /\ p' = TopOf(under)[2]
                 /\ z' = RPush(Front(under), r)
                 /\ mem' = m
                 /\ UNCHANGED <<result, trans>>
  /\ UNCHANGED <<code, start, cont, log>>

(* Mutation: arguments are counted from the last. *)
ArgEntry_FromLast(s, b, i) ==
  LET at == b - 2 - 2 * i
  IN  <<s[at][2], s[at + 1][2]>>

(* fn_getargsval(): argument i of the frame, counted from the first. *)
ArgEntry(s, b, i) ==
  LET n == s[b - 2][2]
      at == b - 2 - 2 * (n - i + 1)
  IN  <<s[at][2], s[at + 1][2]>>

(* Without such an argument the result is what the register held. *)
Argument ==
  /\ Runs("ARG")
  /\ LET there == base > 2 /\ Arg1 \in 1..(z[base - 2][2])
     IN  IF there THEN Stack("ARG", 1, RPush(z, Imm(ArgEntry(z, base, Arg1))))
         ELSE \E v \in News : Stack("ARG", 1, z \o LTI(v))

(* oBIN: sizeof() of a number, 0 without an argument. *)
Builtin ==
  /\ Runs("BIN")
  /\ Stack("BIN", 1, RPush(z, <<IF TopOf(z)[2] = 0 THEN 0 ELSE 4, "LTI">>))

-----------------------------------------------------------------------------
Asking == Running /\ Op \in {"FET", "UPD"}
Ended(ok) == Go(3) /\ z' = z \o LTI(Truth(ok)) /\ cont' = "no"

(* What the kernel is asked about has one attribute here. *)
ValueOf(o) == mem[CHOOSE l \in DOMAIN mem : l[1] = o]

(* oFET, oUPD: there is no such variable, or the kernel cannot be asked. *)
AskFails ==
  /\ Asking /\ cont = "no"
  /\ Ended(FALSE)
  /\ log' = IF FindVar(Arg1) = Null THEN log ELSE Append(log, <<Op, Arg1, FALSE, ValueOf(FindVar(Arg1))>>)
  /\ UNCHANGED <<code, base, start, mem, trans, result>>

(* The instruction will be executed again. *)
Ask ==
  /\ Asking /\ cont = "no" /\ FindVar(Arg1) # Null
  /\ cont' = "asked"
  /\ UNCHANGED <<code, p, z, base, start, mem, trans, result, log>>

(* mcp_r_fetch_answer(), mcp_r_update_answer() *)
AnswerOf(o, ok) ==
  IF Op = "FET" /\ ok
  THEN \E v \in News : mem' = [l \in DOMAIN mem |-> IF l[1] = o THEN v ELSE mem[l]]
  ELSE UNCHANGED mem
Answered ==
  /\ Asking /\ cont = "asked"
  /\ \E ok \in BOOLEAN : AnswerOf(FindVar(Arg1), ok) /\ cont' = IF ok THEN "done" ELSE "failed"
  /\ UNCHANGED <<code, p, z, base, start, trans, result, log>>

(* Mutation: after the answer the kernel is asked again. *)
Resume_AsksAgain ==
  /\ Asking /\ cont \in {"done", "failed"}
  /\ cont' = "no"
  /\ UNCHANGED <<code, p, z, base, start, mem, trans, result, log>>

Resume ==
  /\ Asking /\ cont \in {"done", "failed"}
  /\ Ended(cont = "done")
  /\ log' = Append(log, <<Op, Arg1, cont = "done", ValueOf(FindVar(Arg1))>>)
  /\ UNCHANGED <<code, base, start, mem, trans, result>>

-----------------------------------------------------------------------------
(* execute_handler() with a buffer that runs no handler. *)
Enter ==
  /\ p = <<>>
  /\ result' = 3
  /\ p' = <<"hook", 1>>
  /\ start' = Len(z)
  /\ z' = z \o <<NumWord(base), <<"vars", None>>>>
  /\ base' = Len(z) + 1
  /\ UNCHANGED <<code, cont, mem, trans, log>>

Step ==
  \/ Literal \/ Shuffle \/ DropArgs \/ Arithmetic \/ LogicalNot \/ Store
  \/ LoadVar \/ NewVar \/ LinkVar
  \/ Jump \/ Call \/ Return \/ Argument \/ Builtin
Kernel == AskFails \/ Ask \/ Answered \/ Resume
=============================================================================
