------------------------------ MODULE Handler ------------------------------
(***************************************************************************)
(* From the text of a configuration to what its handlers do: a program is   *)
(* compiled (Compiler) and its handler is run (Machine), while the kernel   *)
(* answers its questions one way or another.  The reference is the meaning *)
(* of the program's tree, given here without instructions or jumps.        *)
(***************************************************************************)
EXTENDS Compiler

CONSTANTS Vars, AttrOf, KnownClasses, LocalAttr, News, Depth,
          Programs,   \* [funs, body, valid]: trees of functions and handler
          Memory      \* the attributes of the request

VARIABLES program, phase, code, p, z, base, start, cont, mem, trans, result, log

mvars == <<p, z, base, start, cont, mem, trans, result, log>>
vars == <<cvars, program, phase, code, mvars>>

M == INSTANCE Machine

-----------------------------------------------------------------------------
(* The text of a tree. *)
Tok(s) == <<[sym |-> s, val |-> NumWord(0)]>>
Id(x) == <<[sym |-> "id", val |-> <<"name", x>>]>>
Paren(ts) == Tok("(") \o ts \o Tok(")")
Braces(ts) == Tok("{") \o ts \o Tok("}")

LevelOf(op) ==
  CASE op = "|" -> 6 [] op = "^" -> 7 [] op = "&" -> 8
    [] op \in {"==", "!="} -> 9 [] op \in {"<", ">", "<=", ">="} -> 10
    [] op \in {"<<", ">>"} -> 11 [] op \in {"+", "-"} -> 12
    [] op \in {"*", "/", "%"} -> 13
Prec(e) ==
  CASE e[1] = "," -> 0 [] e[1] = "set" -> 1 [] e[1] = "?" -> 2
    [] e[1] = "||" -> 3 [] e[1] = "^^" -> 4 [] e[1] = "&&" -> 5
    [] e[1] = "bin" -> LevelOf(e[2])
    [] e[1] \in {"un", "pre", "post"} -> 14
    [] OTHER -> 15

RECURSIVE Text(_, _), Plain(_), Args(_)
Text(e, level) == IF Prec(e) < level THEN Paren(Plain(e)) ELSE Plain(e)
Args(es) == IF es = <<>> THEN <<>>
            ELSE IF Len(es) = 1 THEN Text(es[1], 1)
            ELSE Text(es[1], 1) \o Tok(",") \o Args(Tail(es))
Plain(e) ==
  LET n == Prec(e) IN
  CASE e[1] = "none" -> <<>>
    [] e[1] = "num" -> <<[sym |-> "num", val |-> NumWord(e[2])]>>
    [] e[1] = "arg" -> <<[sym |-> "arg", val |-> NumWord(e[2])]>>
    [] e[1] = "argof" -> <<[sym |-> "arg", val |-> NumWord(e[2])]>> \o Tok(".") \o Id(e[3])
    [] e[1] = "var" -> Id(e[2])
    [] e[1] = "of" -> Id(e[2]) \o Tok(".") \o Id(e[3])
    [] e[1] = "un" -> Tok(e[2]) \o Text(e[3], 14)
    [] e[1] = "pre" -> Tok(e[2]) \o Text(e[3], 14)
    [] e[1] = "post" -> Text(e[3], 15) \o Tok(e[2])
    [] e[1] = "bin" -> Text(e[3], n) \o Tok(e[2]) \o Text(e[4], n + 1)
    [] e[1] \in {"&&", "||", "^^"} -> Text(e[2], n) \o Tok(e[1]) \o Text(e[3], n + 1)
    [] e[1] = "?" -> Text(e[2], 3) \o Tok("?") \o Text(e[3], 2) \o Tok(":") \o Text(e[4], 2)
    [] e[1] = "set" -> Text(e[3], 2) \o Tok(e[2]) \o Text(e[4], 1)
    [] e[1] = "," -> Text(e[2], 0) \o Tok(",") \o Text(e[3], 1)
    [] e[1] = "call" -> Id(e[2]) \o Paren(Args(e[3]))
    [] e[1] = "alone" -> Id(e[2])
    [] e[1] \in {"fetch", "update"} -> Tok(e[1]) \o Id(e[2])
    [] e[1] \in {"local", "transparent"} -> Tok(e[1]) \o Id(e[2]) \o Id(e[3])

RECURSIVE Cmd(_), Cmds(_), CaseCmds(_)
Cmds(ss) == IF ss = <<>> THEN <<>> ELSE Cmd(ss[1]) \o Cmds(Tail(ss))
CaseCmds(cs) ==
  IF cs = <<>> THEN <<>>
  ELSE (IF cs[1][1] = <<"default">> THEN Tok("default") ELSE Tok("case") \o Plain(cs[1][1]))
       \o Tok(":") \o Cmds(cs[1][2]) \o CaseCmds(Tail(cs))
Cmd(s) ==
  CASE s[1] = "exp" -> Plain(s[2]) \o Tok(";")
    [] s[1] = "if" -> Tok("if") \o Paren(Plain(s[2])) \o Cmd(s[3])
    [] s[1] = "ifelse" -> Tok("if") \o Paren(Plain(s[2])) \o Cmd(s[3]) \o Tok("else") \o Cmd(s[4])
    [] s[1] = "while" -> Tok("while") \o Paren(Plain(s[2])) \o Cmd(s[3])
    [] s[1] = "whileelse" -> Tok("while") \o Paren(Plain(s[2])) \o Cmd(s[3]) \o Tok("else") \o Cmd(s[4])
    [] s[1] = "do" -> Tok("do") \o Cmd(s[2]) \o Tok("while") \o Paren(Plain(s[3])) \o Cmd(s[4])
    [] s[1] = "for" -> Tok("for") \o Tok("(") \o Plain(s[2]) \o Tok(";") \o Plain(s[3]) \o Tok(";")
                       \o Plain(s[4]) \o Tok(")") \o Cmd(s[5])
    [] s[1] = "switch" -> Tok("switch") \o Paren(Plain(s[2])) \o Braces(CaseCmds(s[3]))
    [] s[1] \in {"break", "continue"} -> Tok(s[1]) \o Tok(";")
    [] s[1] = "return" -> Tok("return") \o Plain(s[2]) \o Tok(";")
    [] s[1] = "block" -> Braces(Cmds(s[2]))
    [] s[1] = "word" -> Tok(s[2])

RECURSIVE FunText(_)
FunText(fs) ==
  IF fs = <<>> THEN <<>>
  ELSE Tok("function") \o Id(fs[1][1])
       \o (IF fs[1][2] = <<>> THEN Tok(";") ELSE Braces(Cmds(fs[1][2]))) \o FunText(Tail(fs))
Source(g) == FunText(g.funs) \o Tok("*") \o Id("op") \o Braces(Cmds(g.body))

-----------------------------------------------------------------------------
(* The meaning of a tree.  As in the machine an operand that is an          *)
(* attribute is read when the operator is applied, arguments when $i is.   *)
(* s: mem, loc and trans (variables), args, log (answers left), bad.       *)
Body(f) == LET d == {i \in DOMAIN program.funs : program.funs[i][1] = f /\ program.funs[i][2] # <<>>}
           IN  IF d = {} THEN <<>> ELSE program.funs[CHOOSE i \in d : TRUE][2]

Res(r, s) == [r |-> r, s |-> s]
Rd(r, s) == IF r[2] = "mem" THEN s.mem[r[1]] ELSE r[1]
Num(v) == <<v, "LTI">>
Lookup(x, s) == IF x \in DOMAIN Vars THEN Vars[x] ELSE IF x \in DOMAIN s.loc THEN s.loc[x]
                ELSE IF x \in DOMAIN s.trans THEN s.trans[x] ELSE M!Null
Ref(o, a, s) == IF <<o, a>> \in DOMAIN s.mem THEN <<<<o, a>>, "mem">> ELSE Num(0)
Put(r, v, s) == IF r[2] = "mem" THEN [s EXCEPT !.mem[r[1]] = v] ELSE s
Copy(r, s) == IF r[2] = "LTO" THEN <<r[1], "copy">> ELSE Num(Rd(r, s))

(* The operators, as C has them: division goes towards zero and the rest   *)
(* has the sign of x; & | ^ are the intersection, union and difference of  *)
(* the sets of bits.                                                       *)
Truth(b) == IF b THEN 1 ELSE 0
Places(x) == {i \in 0..7 : (x \div 2^i) % 2 = 1}
Of(places) == FoldSet(LAMBDA i, sum : sum + 2^i, 0, places)
Share(x, y) == LET m == IF x < 0 THEN -x ELSE x
               IN  CHOOSE q \in -m..m : LET rest == x - q * y
                                        IN  /\ -m <= rest /\ rest <= m /\ rest^2 < y^2
                                            /\ rest = 0 \/ (rest < 0) = (x < 0)
Apply(t, x, y) ==
  CASE t \in {"+", "+=", "++"} -> x + y [] t \in {"-", "-=", "--"} -> x - y
    [] t \in {"*", "*="} -> x * y
    [] t \in {"/", "/="} -> Share(x, y) [] t \in {"%", "%="} -> x - Share(x, y) * y
    [] t = "<<" -> x * 2^y [] t = ">>" -> x \div 2^y
    [] t = "<" -> Truth(x < y) [] t = ">" -> Truth(y < x)
    [] t = "<=" -> Truth(~(y < x)) [] t = ">=" -> Truth(~(x < y))
    [] t = "==" -> Truth(x = y) [] t = "!=" -> Truth(x # y)
    [] t \in {"&", "&="} -> Of(Places(x) \cap Places(y))
    [] t \in {"|", "|="} -> Of(Places(x) \cup Places(y))
    [] t \in {"^", "^="} -> Of((Places(x) \cup Places(y)) \ (Places(x) \cap Places(y)))

(* All of the recursion goes through one operator. *)
RECURSIVE Do(_, _, _)
Ev(e, s) == Do("value", e, s)                       \* an expression: r and s
EvArgs(es, s) == Do("values", es, s)                \* several: rs and s
Ex(c, s) == Do("command", c, s)                     \* a command: sig, r and s
ExAll(ss, s) == Do("commands", ss, s)
ExCases(cs, i, s) == Do("cases", <<cs, i>>, s)
Pick(cs, i, r, s) == Do("pick", <<cs, i, r>>, s)    \* a case: at and s
Loop(first, c, ss, step, s) == Do("loop", <<first, c, ss, step>>, s)

Ev2(a, b, s) == LET x == Ev(a, s) IN LET y == Ev(b, x.s) IN [x |-> x.r, y |-> y.r, s |-> y.s]

(* A function that was only declared returns 0. *)
CallFun(f, args, s) ==
  IF Body(f) = <<>> THEN Res(Num(0), s)
  ELSE LET e == ExAll(Body(f), [s EXCEPT !.args = args, !.loc = M!None])
       IN  Res(e.r, [e.s EXCEPT !.args = s.args, !.loc = s.loc,
                                !.mem = M!Freed(e.s.mem, e.s.loc)])

(* The kernel's answer is the next of the log. *)
AskKernel(op, x, s) ==
  LET o == Lookup(x, s)
      a == s.log[1]
      loc == CHOOSE l \in DOMAIN s.mem : l[1] = o
  IN  IF o = M!Null THEN Res(Num(0), s)
      ELSE IF s.log = <<>> THEN Res(Num(0), [s EXCEPT !.bad = TRUE])
      ELSE Res(Num(Truth(a[3])),
               [s EXCEPT !.log = Tail(@),
                         !.bad = @ \/ a[1] # op \/ a[2] # x
                                   \/ ((op = "UPD" \/ ~a[3]) /\ a[4] # s.mem[loc]),
                         !.mem = IF op = "FET" THEN [@ EXCEPT ![loc] = a[4]] ELSE @])

NewCell(x, s) ==
  LET used == {l[1][2] : l \in DOMAIN s.mem}
  IN  <<"var", CHOOSE n \in 0..Cardinality(used) : n \notin used, x>>
(* The second variable of a name is not the one the name means. *)
Declare(kind, class, x, s) ==
  LET c == NewCell(x, s)
      vs == IF kind = "local" THEN s.loc ELSE s.trans
      ws == IF x \in DOMAIN vs THEN vs ELSE M!Extended(vs, x, c)
      t == [s EXCEPT !.mem = M!Extended(@, <<c, LocalAttr>>, 0)]
  IN  IF class \notin KnownClasses THEN Res(<<M!Null, "LTP">>, s)
      ELSE Res(<<c, "LTO">>, IF kind = "local" THEN [t EXCEPT !.loc = ws] ELSE [t EXCEPT !.trans = ws])

ValuesOf(es, s) ==
  IF es = <<>> THEN [rs |-> <<>>, s |-> s]
  ELSE LET x == Ev(es[1], s)
           y == EvArgs(Tail(es), x.s)
       IN  [rs |-> <<x.r>> \o y.rs, s |-> y.s]

ValueOf(e, s) ==
  CASE e[1] = "num" -> Res(Num(e[2]), s)
    [] e[1] = "arg" -> Res(Copy(s.args[e[2]], s), s)
    [] e[1] = "argof" -> Res(Num(0), s)
    [] e[1] = "alone" -> Ev(<<"call", e[2], <<>>>>, s)
    [] e[1] = "var" ->
         IF e[2] \in DOMAIN AttrOf THEN Res(Ref(AttrOf[e[2]], e[2], s), s)
         ELSE Res(IF Lookup(e[2], s) = M!Null THEN Num(0) ELSE <<Lookup(e[2], s), "LTO">>, s)
    [] e[1] = "of" -> Res(Ref(Lookup(e[2], s), e[3], s), s)
    [] e[1] = "un" ->
         LET x == Ev(e[3], s)
             v == Rd(x.r, x.s)
         IN  Res(Num(CASE e[2] = "!" -> Truth(v = 0) [] e[2] = "-" -> -v [] e[2] = "~" -> -v - 1), x.s)
    [] e[1] = "bin" ->
         LET t == Ev2(e[3], e[4], s) IN Res(Num(Apply(e[2], Rd(t.x, t.s), Rd(t.y, t.s))), t.s)
    [] e[1] \in {"&&", "||"} ->
         LET x == Ev(e[2], s)
             stop == (Rd(x.r, x.s) = 0) = (e[1] = "&&")
             y == Ev(e[3], x.s)
         IN  IF stop THEN Res(Num(Truth(e[1] = "||")), x.s)
             ELSE Res(Num(Truth(Rd(y.r, y.s) # 0)), y.s)
    [] e[1] = "^^" ->
         LET t == Ev2(e[2], e[3], s) IN Res(Num(Truth((Rd(t.x, t.s) = 0) # (Rd(t.y, t.s) = 0))), t.s)
    [] e[1] = "?" ->
         LET x == Ev(e[2], s) IN IF Rd(x.r, x.s) # 0 THEN Ev(e[3], x.s) ELSE Ev(e[4], x.s)
    [] e[1] = "set" ->
         LET t == Ev2(e[3], e[4], s)
             v == IF e[2] = "=" THEN Rd(t.y, t.s)
                  ELSE Apply(e[2], Rd(t.x, t.s), Rd(t.y, t.s))
         IN  Res(t.x, Put(t.x, v, t.s))
    [] e[1] \in {"pre", "post"} ->
         LET x == Ev(e[3], s)
             v == Rd(x.r, x.s)
         IN  Res(IF e[1] = "pre" THEN x.r ELSE Num(v), Put(x.r, Apply(e[2], v, 1), x.s))
    [] e[1] = "," -> Ev(e[3], Ev(e[2], s).s)
    [] e[1] = "call" ->
         LET as == EvArgs(e[3], s) IN
         IF e[2] = "sizeof" THEN Res(Num(IF as.rs = <<>> THEN 0 ELSE 4), as.s)
         ELSE CallFun(e[2], as.rs, as.s)
    [] e[1] = "fetch" -> AskKernel("FET", e[2], s)
    [] e[1] = "update" -> AskKernel("UPD", e[2], s)
    [] e[1] \in {"local", "transparent"} -> Declare(e[1], e[2], e[3], s)

(* Commands: how they end (sig), and with what value. *)
End(sig, r, s) == [sig |-> sig, r |-> r, s |-> s]
Allow == Num(3)

Sequence(ss, s) ==
  IF ss = <<>> THEN End("next", Allow, s)
  ELSE LET x == Ex(ss[1], s) IN IF x.sig = "next" THEN ExAll(Tail(ss), x.s) ELSE x

(* first while (c) body, with step after each round; it is over when c     *)
(* fails, and its else part follows.                                       *)
Rounds(first, c, ss, step, s) ==
  LET d == Ex(first, s)
      t == IF c = <<"none">> THEN Res(Num(1), d.s) ELSE Ev(c, d.s)
      x == Ex(ss, t.s)
      n == IF step = <<"none">> THEN x.s ELSE Ev(step, x.s).s
      Left(y) == IF y.sig = "break" THEN End("next", Allow, y.s) ELSE y
  IN  CASE d.sig \in {"break", "return"} -> Left(d)
        [] d.sig \notin {"break", "return"} /\ Rd(t.r, t.s) = 0 -> End("over", Allow, t.s)
        [] OTHER -> IF x.sig \in {"break", "return"} THEN Left(x) ELSE Loop(first, c, ss, step, n)
Nothing == <<"block", <<>>>>
Over(x, other) == IF x.sig = "over" THEN Ex(other, x.s) ELSE x

(* From a case on, to the end. *)
CasesFrom(cs, i, s) ==
  IF i > Len(cs) THEN End("next", Allow, s)
  ELSE LET x == ExAll(cs[i][2], s) IN IF x.sig = "next" THEN ExCases(cs, i + 1, x.s) ELSE x

(* The first case that is equal, else the default; then on to the end. *)
CaseFor(cs, i, r, s) ==
  IF i > Len(cs)
  THEN [at |-> CHOOSE j \in DOMAIN cs : cs[j][1] = <<"default">>, s |-> s]
  ELSE IF cs[i][1] = <<"default">> THEN Pick(cs, i + 1, r, s)
  ELSE LET x == Ev(cs[i][1], s)
       IN  IF Rd(r, x.s) = Rd(x.r, x.s) THEN [at |-> i, s |-> x.s] ELSE Pick(cs, i + 1, r, x.s)

Command(c, s) ==
  CASE c[1] = "exp" -> End("next", Allow, Ev(c[2], s).s)
    [] c[1] \in {"if", "ifelse"} ->
         LET t == Ev(c[2], s) IN
         IF Rd(t.r, t.s) # 0 THEN Ex(c[3], t.s)
         ELSE IF c[1] = "if" THEN End("next", Allow, t.s) ELSE Ex(c[4], t.s)
    [] c[1] \in {"while", "whileelse"} ->
         Over(Loop(Nothing, c[2], c[3], <<"none">>, s), IF c[1] = "while" THEN Nothing ELSE c[4])
    [] c[1] = "do" -> Over(Loop(c[2], c[3], c[4], <<"none">>, s), Nothing)
    [] c[1] = "for" ->
         LET i == IF c[2] = <<"none">> THEN s ELSE Ev(c[2], s).s
         IN  Over(Loop(Nothing, c[3], c[5], c[4], i), Nothing)
    [] c[1] = "switch" ->
         LET t == Ev(c[2], s)
             k == Pick(c[3], 1, t.r, t.s)
             x == ExCases(c[3], k.at, k.s)
         IN  IF x.sig = "break" THEN End("next", Allow, x.s) ELSE x
    [] c[1] \in {"break", "continue"} -> End(c[1], Allow, s)
    [] c[1] = "return" -> LET x == IF c[2] = <<"none">> THEN Res(Allow, s) ELSE Ev(c[2], s)
                          IN  End("return", Copy(x.r, x.s), x.s)
    [] c[1] = "block" -> ExAll(c[2], s)

Do(what, x, s) ==
  CASE what = "value" -> ValueOf(x, s)
    [] what = "values" -> ValuesOf(x, s)
    [] what = "command" -> Command(x, s)
    [] what = "commands" -> Sequence(x, s)
    [] what = "cases" -> CasesFrom(x[1], x[2], s)
    [] what = "pick" -> CaseFor(x[1], x[2], x[3], s)
    [] what = "loop" -> Rounds(x[1], x[2], x[3], x[4], s)

Meaning ==
  LET x == ExAll(program.body, [mem |-> Memory, loc |-> M!None, trans |-> M!None, args |-> <<>>,
                                log |-> log, bad |-> FALSE])
  IN  [result |-> x.r[1], mem |-> [l \in DOMAIN Memory |-> x.s.mem[l]],
       followed |-> ~x.s.bad /\ x.s.log = <<>>]

-----------------------------------------------------------------------------
Init ==
  /\ program \in Programs
  /\ CompileInit(Source(program))
  /\ phase = "compile" /\ code = <<>>
  /\ p = <<>> /\ z = <<>> /\ base = 0 /\ start = 0 /\ cont = "no"
  /\ mem = Memory /\ trans = M!None /\ result = 0 /\ log = <<>>

Compile == CompileStep /\ UNCHANGED <<program, phase, code, mvars>>

(* The first request is there. *)
Begin ==
  /\ phase = "compile" /\ mode = "compiled"
  /\ code' = M!Extended(functions, "hook", hook)
  /\ phase' = "ready"
  /\ UNCHANGED <<cvars, program, mvars>>

Run ==
  \/ phase = "ready" /\ phase' = "run" /\ M!Enter /\ UNCHANGED <<cvars, program>>
  \/ M!Step /\ UNCHANGED <<cvars, program, phase>>

Answer == M!Kernel /\ UNCHANGED <<cvars, program, phase>>

Next == Compile \/ Begin \/ Run \/ Answer

(* A thread that runs a handler goes on, and the kernel answers. *)
Spec == Init /\ [][Next]_vars /\ WF_vars(Run \/ Answer)

Finished == phase = "run" /\ p = <<>>

-----------------------------------------------------------------------------
(* A handler that ends has done what its source says: it returns that      *)
(* value, has assigned what the source assigns and asked the kernel what   *)
(* the source asks, and it leaves the stack as it found it (language.c,    *)
(* expression.c, special_out.c, execute.c).  It is so of sources that apply *)
(* ! and ^^ to results only: oNOT does not read its operand before r_not()  *)
(* writes to where it is, the object of an attribute (execute.c:593).       *)
RunsAsWritten ==
  Finished => /\ result = Meaning.result
              /\ Meaning.followed
              /\ \A l \in DOMAIN Memory : mem[l] = Meaning.mem[l]
              /\ z = <<>> /\ base = 0 /\ DOMAIN trans = {}

(* A configuration is refused exactly when it is wrong, and then nothing of *)
(* it runs: a label nobody defines, a jump out of no loop, a token missing  *)
(* or out of place, a function defined twice.                              *)
RefusedIfWrong ==
  /\ mode = "compiled" => program.valid
  /\ mode = "refused" => ~program.valid /\ phase = "compile"

(* References on the stack are to attributes and variables that exist: a    *)
(* function's result is read before its local variables go (execute.c:634).*)
RefsLive ==
  \A i \in DOMAIN z : z[i] = M!Tag("mem") => z[i - 1][2] \in DOMAIN mem

(* No code waits for a label that is gone, or is left for the next handler.*)
WordsArrive == WaitsForLive /\ (errors = 0 => NothingLeftBehind)

(* A handler that is started ends, whatever the kernel answers: after an    *)
(* answer the instruction that asked does not ask again (execute.c:398).   *)
EventuallyDone == phase = "run" ~> Finished
=============================================================================
