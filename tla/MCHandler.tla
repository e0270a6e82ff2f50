----------------------------- MODULE MCHandler -----------------------------
(* Programs for every construct of the language, and some that are wrong. *)
EXTENDS Handler

n(v) == <<"num", v>>
v(x) == <<"var", x>>
a(i) == <<"arg", i>>
op(x, o, y) == <<"bin", o, x, y>>
neg(k) == <<"un", "-", n(k)>>
set(x, y) == <<"set", "=", v(x), y>>
do(e) == <<"exp", e>>
ret(e) == <<"return", e>>
fun(f, ss) == <<f, ss>>
Prog(fs, ss) == [funs |-> fs, body |-> ss, valid |-> TRUE]
Bad(fs, ss) == [funs |-> fs, body |-> ss, valid |-> FALSE]
Expr(e) == Prog(<<>>, <<ret(e)>>)

(* The subject p has the attribute s, the object f the attribute o. *)
VarsDef == [x \in {"p", "f"} |-> IF x = "p" THEN <<"subject", 0, "p">> ELSE <<"object", 0, "f">>]
AttrOfDef == [x \in {"s", "o"} |-> IF x = "s" THEN <<"subject", 0, "p">> ELSE <<"object", 0, "f">>]
MemoryDef == [l \in {<<VarsDef["p"], "s">>, <<VarsDef["f"], "o">>} |-> IF l[2] = "s" THEN 2 ELSE 5]

Numbers == {
  Expr(op(op(n(9), "-", n(3)), "-", n(2))), Expr(op(n(9), "-", op(n(3), "-", n(2)))),
  Expr(op(n(2), "+", op(n(3), "*", n(4)))), Expr(op(op(n(2), "+", n(3)), "*", n(4))),
  Expr(op(op(n(17), "/", n(5)), "%", n(2))), Expr(op(n(1), "<<", op(n(1), "+", n(2)))),
  Expr(op(op(n(1), "<", n(2)), "==", op(n(3), ">", n(2)))),
  Expr(op(op(n(5), "&", n(6)), "|", op(n(1), "^", n(3)))), Expr(op(n(1), "&", n(2))),
  Expr(op(n(5), "&", op(n(6), "==", n(6)))), Expr(op(n(6), "^", op(n(2), "|", n(8)))),
  Expr(op(op(neg(17), "/", n(5)), "-", op(neg(17), "%", n(5)))), Expr(op(v("s"), "|", v("o"))),
  Expr(<<"un", "-", <<"un", "~", n(4)>>>>), Expr(<<"un", "!", op(n(2), ">=", n(3))>>),
  Expr(<<"^^", op(n(1), "==", n(1)), op(n(1), "!=", n(2))>>),
  Expr(<<",", n(1), <<",", n(2), n(4)>>>>),
  Expr(<<"?", op(v("s"), "<", n(3)), <<"?", n(0), n(6), n(7)>>, n(8)>>),
  Expr(<<"||", <<"&&", v("s"), n(0)>>, <<"&&", n(2), v("o")>>>>),
  Expr(<<"call", "sizeof", <<n(7)>>>>), Expr(<<"call", "sizeof", <<>>>>), Expr(<<"alone", "sizeof">>) }

(* What is not evaluated assigns nothing; an attribute is read late. *)
Effects == {
  Prog(<<>>, <<do(<<"&&", n(1), <<"&&", set("s", n(0)), set("o", n(8))>>>>)>>),
  Prog(<<>>, <<do(<<"||", n(0), <<"||", set("s", n(4)), set("o", n(8))>>>>)>>),
  Prog(<<>>, <<ret(op(v("s"), "+", set("s", n(7))))>>),
  Prog(<<>>, <<do(<<"set", "=", v("s"), set("o", n(1))>>), ret(<<"set", "*=", v("o"), n(3)>>)>>),
  Prog(<<>>, <<ret(op(<<"post", "++", v("s")>>, "*", <<"pre", "--", v("o")>>))>>),
  Prog(<<>>, <<do(<<"set", "-=", v("s"), <<"set", "+=", <<"of", "f", "o">>, n(2)>>>>), ret(v("s"))>>),
  Prog(<<>>, <<do(<<"set", "|=", v("s"), <<"set", "&=", v("o"), n(12)>>>>), ret(<<"set", "^=", v("s"), n(3)>>)>>) }

count(k) == do(<<"set", "+=", v("s"), n(k)>>)
Block(ss) == <<"block", ss>>
below(x, k) == op(v(x), "<", n(k))
Loops == {
  Prog(<<>>, <<<<"if", below("s", 1), count(1)>>, <<"ifelse", v("o"), count(2), count(4)>>>>),
  Prog(<<>>, <<<<"if", v("s"), <<"ifelse", n(0), count(1), count(2)>>>>, ret(v("s"))>>),
  Prog(<<>>, <<<<"while", below("s", 5), Block(<<count(1), <<"if", op(v("s"), "==", n(4)), <<"break">>>>>>)>>,
               ret(v("s"))>>),
  Prog(<<>>, <<<<"whileelse", below("s", 4), count(1), do(set("o", n(9)))>>, ret(v("o"))>>),
  Prog(<<>>, <<<<"whileelse", n(1), <<"break">>, count(1)>>>>),
  Prog(<<>>, <<<<"while", op(<<"post", "--", v("o")>>, ">", n(0)),
                 Block(<<<<"if", op(v("o"), "%", n(2)), <<"continue">>>>, count(1)>>)>>, ret(v("s"))>>),
  Prog(<<>>, <<<<"do", Block(<<count(1), <<"if", below("s", 4), <<"continue">>>>, do(set("o", n(0)))>>),
                 v("o"), do(<<"post", "--", v("o")>>)>>, ret(v("s"))>>),
  Prog(<<>>, <<<<"for", set("o", n(0)), below("o", 3), <<"post", "++", v("o")>>,
                 Block(<<<<"if", op(v("o"), "==", n(1)), <<"continue">>>>, count(3)>>)>>, ret(v("s"))>>),
  Prog(<<>>, <<<<"for", <<"none">>, <<"none">>, set("s", op(v("s"), "*", n(2))),
                 <<"if", op(v("s"), ">", n(7)), <<"break">>>>>>, ret(v("s"))>>),
  Prog(<<>>, <<<<"while", n(1), Block(<<<<"while", n(1), Block(<<count(1), <<"break">>>>)>>,
                 <<"if", op(v("s"), ">", n(3)), ret(v("o"))>>>>)>>>>) }

case(k, ss) == <<n(k), ss>>
default(ss) == <<<<"default">>, ss>>
Switch(e, cs) == Prog(<<>>, <<<<"switch", e, cs>>, ret(v("s"))>>)
Switches ==
  {Switch(op(v("s"), "+", n(k)),
     <<case(2, <<count(1), <<"break">>>>), case(3, <<count(2)>>), default(<<count(4)>>),
       case(4, <<count(8), <<"break">>>>), case(5, <<count(16)>>)>>) : k \in 0..4}
  \cup {Switch(n(k), <<default(<<count(1), <<"break">>>>), case(1, <<>>), case(2, <<count(2)>>)>>) : k \in 0..2}

Functions_ == {
  Prog(<<fun("g", <<ret(op(a(1), "-", a(2)))>>)>>, <<ret(<<"call", "g", <<n(9), v("s")>>>>)>>),
  Prog(<<fun("g", <<do(set("s", n(6))), ret(op(a(1), "+", v("s")))>>)>>,
       <<ret(op(v("s"), "+", <<"call", "g", <<v("s")>>>>))>>),
  Prog(<<fun("g", <<<<"if", op(a(1), "<=", n(1)), ret(n(1))>>,
                    ret(op(a(1), "*", <<"call", "g", <<op(a(1), "-", n(1))>>>>))>>)>>,
       <<ret(<<"call", "g", <<n(3)>>>>)>>),
  Prog(<<fun("h", <<>>), fun("g", <<ret(<<"call", "h", <<n(2)>>>>)>>), fun("h", <<ret(op(a(1), "+", n(1)))>>)>>,
       <<ret(<<"call", "g", <<>>>>)>>),
  Prog(<<fun("h", <<>>)>>, <<ret(<<"call", "h", <<n(2)>>>>)>>),
  Prog(<<fun("g", <<do(set("s", n(1)))>>)>>, <<ret(op(v("s"), "+", <<"alone", "g">>))>>),
  Prog(<<fun("g", <<ret(v("s"))>>)>>, <<ret(op(<<"call", "g", <<>>>>, "+", set("s", n(9))))>>),
  Prog(<<fun("g", <<ret(<<"argof", 1, "o">>)>>)>>, <<ret(<<"call", "g", <<v("f")>>>>)>>) }

local(x) == do(<<"local", "class", x>>)
transparent(x) == do(<<"transparent", "class", x>>)
of(x) == <<"of", x, "o">>
put(x, e) == do(<<"set", "=", of(x), e>>)
Variables == {
  Prog(<<>>, <<local("x"), put("x", n(7)), ret(op(of("x"), "+", v("s")))>>),
  Prog(<<fun("g", <<local("x"), put("x", n(4)), ret(of("x"))>>)>>,
       <<local("x"), put("x", n(1)), ret(op(<<"call", "g", <<>>>>, "-", of("x")))>>),
  Prog(<<fun("g", <<put("x", n(4)), ret(of("x"))>>)>>,
       <<transparent("x"), put("x", n(1)), local("x"), put("x", n(2)),
         do(<<"call", "g", <<>>>>), ret(of("x"))>>),
  Prog(<<fun("g", <<put("x", n(4)), ret(of("x"))>>)>>,
       <<transparent("x"), ret(op(<<"call", "g", <<>>>>, "+", of("x")))>>),
  Prog(<<>>, <<local("x"), put("x", n(2)), local("x"), ret(of("x"))>>),
  Prog(<<>>, <<do(<<"local", "other", "x">>), put("x", n(2)), ret(op(of("x"), "+", v("s")))>>),
  Prog(<<fun("g", <<do(<<"set", "=", of("x"), n(9)>>), ret(of("x"))>>)>>,
       <<local("x"), put("x", n(3)), ret(op(<<"call", "g", <<>>>>, "+", of("x")))>>) }

fetch(x) == <<"fetch", x>>
update(x) == <<"update", x>>
Questions == {
  Prog(<<>>, <<do(fetch("f")), ret(v("o"))>>),
  Prog(<<>>, <<<<"if", fetch("f"), do(set("o", op(v("o"), "+", n(1))))>>, ret(update("f"))>>),
  Prog(<<>>, <<ret(fetch("nobody"))>>),
  Prog(<<fun("g", <<do(set("s", n(1))), do(fetch("p")), ret(op(a(1), "+", v("s")))>>)>>,
       <<ret(op(<<"call", "g", <<v("s")>>>>, "+", <<"||", update("p"), fetch("f")>>))>>) }

Wrong == {
  Bad(<<>>, <<<<"switch", v("s"), <<case(1, <<count(1)>>)>>>>>>),
  Bad(<<>>, <<<<"break">>>>), Bad(<<>>, <<<<"continue">>>>),
  Bad(<<>>, <<<<"if", v("s"), <<"continue">>>>, count(1)>>),
  Bad(<<fun("g", <<ret(n(1))>>), fun("g", <<ret(n(2))>>)>>, <<ret(<<"call", "g", <<>>>>)>>),
  Bad(<<fun("sizeof", <<ret(n(1))>>)>>, <<count(1)>>),
  Bad(<<>>, <<do(<<"local", "nothing", "x">>)>>),
  Bad(<<>>, <<do(<<"set", "<<=", v("s"), n(1)>>)>>),
  Bad(<<>>, <<<<"word", "do">>, count(1)>>), Bad(<<>>, <<<<"word", "}">>, count(1)>>),
  Bad(<<>>, <<<<"word", ")">>, <<"word", "else">>, count(1)>>) }

Right == Numbers \cup Effects \cup Loops \cup Switches \cup Functions_ \cup Variables \cup Questions
ProgramsDef == Right \cup Wrong

=============================================================================
