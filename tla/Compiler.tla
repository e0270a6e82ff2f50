------------------------------ MODULE Compiler ------------------------------
(***************************************************************************)
(* The compiler of the configuration: libmcompiler's table-driven parser    *)
(* and its output of words with jumps whose targets are not known yet, and *)
(* what the configuration language makes of functions and handlers.        *)
(*                                                                         *)
(* A label belongs to the section it is used in; a word that needs it waits *)
(* in a queue, and everything written after it waits behind it.            *)
(***************************************************************************)
EXTENDS Grammar, FiniteSets

CONSTANTS Builtins,  \* keywords of Tbuildin
          Classes,   \* class names of the kernel
          MaxErrors  \* errors before fatal() (15 in the code)

VARIABLES
  input,      \* tokens not read yet: [sym, val]
  ahead,      \* the token the parser looks at
  last,       \* compiler->l.data: the value of the last token accepted
  stack,      \* the parser's stack, its top first
  sects,      \* compiler->sections: [typ, labels]
  out,        \* compiler->data, out_pos and the words of the handler
  name,       \* op_name
  functions,  \* the Tcallfunc keywords: the code, <<>> while it is NULL
  hook,       \* the handler registered for the operation
  errors,
  mode        \* "compiling", "compiled", "refused"

cvars == <<input, ahead, last, stack, sects, out, name, functions, hook, errors, mode>>

(* Words, here and in the machine, are pairs of a kind and a value. *)
NumWord(n) == <<"num", n>>
Word(d) == [valid |-> TRUE, data |-> d, rel |-> <<0, 0>>]
Pending(rel) == [valid |-> FALSE, data |-> NumWord(0), rel |-> rel]

-----------------------------------------------------------------------------
(* Labels: typ 0 undefined, 1 a value, 2 a position. *)
Label(ss, rel) == ss[rel[1]].labels[rel[2]]
Touch(labels, l) ==
  IF l \in DOMAIN labels THEN labels
  ELSE [k \in DOMAIN labels \cup {l} |-> IF k = l THEN [typ |-> 0, data |-> 0] ELSE labels[k]]

(* get_section(): the innermost of its type, 0 for NULL. *)
Innermost(typ) == LET s == {i \in DOMAIN sects : sects[i].typ = typ}
                  IN  IF s = {} THEN 0 ELSE CHOOSE i \in s : \A j \in s : j <= i

(* apply_labels(): a jump counts from the word after it. *)
ApplyLabels(w, ss) ==
  [w EXCEPT !.fifo = [i \in DOMAIN w.fifo |->
     LET x == w.fifo[i]
         at == w.outpos - Len(w.fifo) + i - 1
     IN  IF x.valid \/ Label(ss, x.rel).typ = 0 THEN x
         ELSE IF Label(ss, x.rel).typ = 2 THEN Word(NumWord(Label(ss, x.rel).data - (at + 1)))
         ELSE Word(NumWord(Label(ss, x.rel).data))]]

(* data_flush(): words leave in order, up to the first that still waits. *)
Flush(w0, ss) ==
  LET w == ApplyLabels(w0, ss)
      waiting == {i \in DOMAIN w.fifo : ~w.fifo[i].valid}
      n == IF waiting = {} THEN Len(w.fifo)
           ELSE (CHOOSE i \in waiting : \A j \in waiting : i <= j) - 1
  IN  [w EXCEPT !.code = @ \o [i \in 1..n |-> w.fifo[i].data],
                !.fifo = SubSeq(@, n + 1, Len(@))]

(* data_out() and data_rel_out() *)
DataOut(w0, ss, d) ==
  LET w == Flush(w0, ss)
      v == [w EXCEPT !.outpos = @ + 1]
  IN  IF w.fifo = <<>> THEN [v EXCEPT !.code = Append(@, d)]
      ELSE [v EXCEPT !.fifo = Append(@, Word(d))]
DataRelOut(w, ss, rel) ==
  Flush([w EXCEPT !.fifo = Append(@, Pending(rel)), !.outpos = @ + 1], ss)

-----------------------------------------------------------------------------
(* gen_lex_ident(): a keyword, unless the parser wants an identifier. *)
Lexed(tok, want) ==
  IF tok.sym # "id" \/ want = "id" THEN tok
  ELSE [tok EXCEPT !.sym = IF tok.val[2] \in DOMAIN functions THEN "callfunc"
                           ELSE IF tok.val[2] \in Builtins THEN "buildin" ELSE "id"]
(* get_want() *)
Want(st) == IF st # <<>> /\ st[1][1] = "T" THEN st[1][2] ELSE "none"
TEnd == [sym |-> "TEND", val |-> NumWord(0)]
GetLex(want) ==
  /\ ahead' = IF input = <<>> THEN TEnd ELSE Lexed(input[1], want)
  /\ input' = IF input = <<>> THEN <<>> ELSE Tail(input)

Fails(n) == /\ errors' = errors + n
            /\ mode' = IF errors + n > MaxErrors THEN "refused" ELSE mode

Compiling(kind) == mode = "compiling" /\ stack # <<>> /\ stack[1][1] = kind
Top == stack[1]
Popped == stack' = Tail(stack)

(* najdi_tab(): the first row that fits. *)
Fitting == {i \in DOMAIN Table : Table[i].at = Top[2] /\ (Table[i].on = {} \/ ahead.sym \in Table[i].on)}

Expand ==
  /\ Compiling("N") /\ Fitting # {}
  /\ LET first == CHOOSE i \in Fitting : \A j \in Fitting : i <= j
     IN  stack' = Table[first].push \o Tail(stack)
  /\ UNCHANGED <<input, ahead, last, sects, out, name, functions, hook, errors, mode>>

(* The token fits no row: it is left out, or the compilation ends. *)
Skip ==
  /\ Compiling("N") /\ Fitting = {}
  /\ IF ahead.sym = "TEND"
     THEN mode' = "refused" /\ errors' = errors + 1 /\ UNCHANGED <<input, ahead, last>>
     ELSE Fails(1) /\ GetLex("none") /\ last' = ahead.val
  /\ UNCHANGED <<stack, sects, out, name, functions, hook>>

Accept ==
  /\ Compiling("T") /\ ahead.sym = Top[2]
  /\ last' = ahead.val
  /\ GetLex(Want(Tail(stack)))
  /\ Popped
  /\ UNCHANGED <<sects, out, name, functions, hook, errors, mode>>

(* Another token is missing here. *)
Mismatch ==
  /\ Compiling("T") /\ ahead.sym # Top[2]
  /\ Fails(1)
  /\ Popped
  /\ UNCHANGED <<input, ahead, last, sects, out, name, functions, hook>>

(* conf_lang_param_out(): an instruction, and for traces its position. *)
EmitOp ==
  /\ Compiling("O")
  /\ out' = DataOut(DataOut(out, sects, <<"op", Top[2]>>), sects, <<"trace", 0>>)
  /\ Popped
  /\ UNCHANGED <<input, ahead, last, sects, name, functions, hook, errors, mode>>

EmitValue ==
  /\ Compiling("outval")
  /\ out' = DataOut(out, sects, last)
  /\ Popped
  /\ UNCHANGED <<input, ahead, last, sects, name, functions, hook, errors, mode>>

SetValue ==
  /\ Compiling("val")
  /\ last' = NumWord(Top[2])
  /\ Popped
  /\ UNCHANGED <<input, ahead, sects, out, name, functions, hook, errors, mode>>

(* sect_outval() *)
EmitLabel ==
  /\ Compiling("out")
  /\ LET s == Innermost(Top[2])
         ss == [sects EXCEPT ![s].labels = Touch(@, Top[3])]
     IN  IF s = 0 THEN Fails(1) /\ UNCHANGED <<sects, out>>
         ELSE /\ sects' = ss
              /\ out' = DataRelOut(out, ss, <<s, Top[3]>>)
              /\ UNCHANGED <<errors, mode>>
  /\ Popped
  /\ UNCHANGED <<input, ahead, last, name, functions, hook>>

OpenSection ==
  /\ Compiling("start")
  /\ sects' = Append(sects, [typ |-> Top[2], labels |-> [l \in {} |-> 0]])
  /\ Popped
  /\ UNCHANGED <<input, ahead, last, out, name, functions, hook, errors, mode>>

(* Mutation: labels nobody defined are freed as they are. *)
CloseSection_KeepsUndefined ==
  /\ Compiling("end") /\ sects # <<>>
  /\ out' = ApplyLabels(out, sects)
  /\ sects' = Front(sects)
  /\ Popped
  /\ UNCHANGED <<input, ahead, last, name, functions, hook, errors, mode>>

(* sect_end(): what waits for its labels gets them; those nobody defined    *)
(* are errors and become 0.                                                *)
CloseSection ==
  /\ Compiling("end") /\ sects # <<>>
  /\ LET labels == Last(sects).labels
         undef == {l \in DOMAIN labels : labels[l].typ = 0}
         zeroed == [l \in DOMAIN labels |-> IF l \in undef THEN [typ |-> 1, data |-> 0] ELSE labels[l]]
     IN  /\ out' = ApplyLabels(ApplyLabels(out, sects), [sects EXCEPT ![Len(sects)].labels = zeroed])
         /\ Fails(Cardinality(undef))
  /\ sects' = Front(sects)
  /\ Popped
  /\ UNCHANGED <<input, ahead, last, name, functions, hook>>

(* sect_setpos(), sect_setdata(): words that still wait for the label's old *)
(* meaning get it first.  A forward label serves the words so far only.    *)
Define(l, value, forward) ==
  LET k == Len(sects)
      before == [sects EXCEPT ![k].labels = Touch(@, l)]
      after == [before EXCEPT ![k].labels[l] = value]
      w == IF Label(before, <<k, l>>).typ # 0 THEN ApplyLabels(out, before) ELSE out
  IN  IF forward THEN out' = ApplyLabels(w, after) /\ sects' = [after EXCEPT ![k].labels[l].typ = 0]
      ELSE out' = w /\ sects' = after

SetLabel ==
  /\ \/ /\ Compiling("setpos") /\ Define(Top[2], [typ |-> 2, data |-> out.outpos], FALSE)
     \/ /\ Compiling("sefpos") /\ Define(Top[2], [typ |-> 2, data |-> out.outpos], TRUE)
     \/ /\ Compiling("setval") /\ Define(Top[2], [typ |-> 1, data |-> last[2]], FALSE)
  /\ Popped
  /\ UNCHANGED <<input, ahead, last, name, functions, hook, errors, mode>>

(* sect_incval() *)
CountLabel ==
  /\ Compiling("incval")
  /\ LET k == Len(sects)
         ss == [sects EXCEPT ![k].labels = Touch(@, Top[2])]
         l == Label(ss, <<k, Top[2]>>)
     IN  IF l.typ = 2 THEN Fails(1) /\ sects' = ss
         ELSE /\ sects' = [ss EXCEPT ![k].labels[Top[2]] =
                             [typ |-> 1, data |-> (IF l.typ = 0 THEN 0 ELSE l.data) + Top[3]]]
              /\ UNCHANGED <<errors, mode>>
  /\ Popped
  /\ UNCHANGED <<input, ahead, last, out, name, functions, hook>>

-----------------------------------------------------------------------------
(* Pfuncdec: the name becomes a keyword, if it is none yet. *)
FuncDec ==
  /\ Compiling("P") /\ Top[2] = "funcdec"
  /\ name' = last[2]
  /\ functions' = IF name' \in DOMAIN functions \cup Builtins THEN functions
                  ELSE [f \in DOMAIN functions \cup {name'} |-> IF f = name' THEN <<>> ELSE functions[f]]
  /\ Popped
  /\ UNCHANGED <<input, ahead, last, sects, out, hook, errors, mode>>

ProgStart ==
  /\ Compiling("P") /\ Top[2] = "progstart"
  /\ name' = last[2]
  /\ out' = [out EXCEPT !.code = <<>>]
  /\ Popped
  /\ UNCHANGED <<input, ahead, last, sects, functions, hook, errors, mode>>

(* Mutation: a second definition replaces the first. *)
FuncEnd_AllowsTwice ==
  /\ Compiling("P") /\ Top[2] = "funcend"
  /\ IF name \in DOMAIN functions
     THEN functions' = [functions EXCEPT ![name] = out.code] /\ UNCHANGED <<errors, mode>>
     ELSE Fails(1) /\ UNCHANGED functions
  /\ Popped
  /\ UNCHANGED <<input, ahead, last, sects, out, name, hook>>

(* Pfuncend: calls compiled before see the code through the keyword. *)
FuncEnd ==
  /\ Compiling("P") /\ Top[2] = "funcend"
  /\ IF name \in DOMAIN functions
     THEN /\ functions' = [functions EXCEPT ![name] = out.code]
          /\ Fails(IF functions[name] = <<>> THEN 0 ELSE 1)
     ELSE Fails(1) /\ UNCHANGED functions
  /\ Popped
  /\ UNCHANGED <<input, ahead, last, sects, out, name, hook>>

(* Preg, and Pid2class; the others are about spaces. *)
Register ==
  /\ Compiling("P")
  /\ \/ Top[2] = "reg" /\ hook' = out.code /\ UNCHANGED <<errors, mode>>
     \/ Top[2] = "id2class" /\ Fails(IF last[2] \in Classes THEN 0 ELSE 1) /\ UNCHANGED hook
     \/ Top[2] \in {"subject", "nullpath", "allspaces"} /\ UNCHANGED <<hook, errors, mode>>
  /\ Popped
  /\ UNCHANGED <<input, ahead, last, sects, out, name, functions>>

(* language_do(): any error, and Constable does not start. *)
Finish ==
  /\ mode = "compiling" /\ stack = <<>>
  /\ mode' = IF errors > 0 THEN "refused" ELSE "compiled"
  /\ UNCHANGED <<input, ahead, last, stack, sects, out, name, functions, hook, errors>>

Emit == EmitOp \/ EmitValue \/ EmitLabel
Section == OpenSection \/ CloseSection \/ SetLabel \/ CountLabel
Param == FuncDec \/ ProgStart \/ FuncEnd \/ Register
CompileStep == Expand \/ Skip \/ Accept \/ Mismatch \/ Emit \/ SetValue \/ Section \/ Param \/ Finish

(* language_init(), and the first token. *)
CompileInit(tokens) ==
  /\ functions = [f \in {} |-> <<>>]
  /\ ahead = tokens[1] /\ input = Tail(tokens)
  /\ last = NumWord(0) /\ stack = <<N("START")>> /\ sects = <<>>
  /\ out = [fifo |-> <<>>, outpos |-> 0, code |-> <<>>]
  /\ name = "" /\ hook = <<>> /\ errors = 0 /\ mode = "compiling"

-----------------------------------------------------------------------------
(* No word waits for a label of a section that is closed: its memory is     *)
(* gone (special_out.c:135).                                               *)
WaitsForLive ==
  \A i \in DOMAIN out.fifo :
    ~out.fifo[i].valid => /\ out.fifo[i].rel[1] \in DOMAIN sects
                          /\ out.fifo[i].rel[2] \in DOMAIN sects[out.fifo[i].rel[1]].labels

(* When a function or handler is taken over, none of its words are still    *)
(* waiting: they would end up in the next one.                             *)
NothingLeftBehind ==
  /\ Compiling("P") /\ Top[2] \in {"progstart", "funcend", "reg"} => out.fifo = <<>>
=============================================================================
