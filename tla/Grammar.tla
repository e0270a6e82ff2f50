------------------------------ MODULE Grammar ------------------------------
(***************************************************************************)
(* The grammar of functions in the configuration language.  A row says     *)
(* what replaces the symbol on top of the compiler's stack, given the next *)
(* token: tokens to be read, further symbols, instructions to be written,  *)
(* and operations on sections, the scopes of jump labels.                  *)
(***************************************************************************)
EXTENDS Integers, Sequences, SequencesExt

T(x) == <<"T", x>>            \* a token
N(x) == <<"N", x>>            \* a symbol that has rows
O(x) == <<"O", x>>            \* an instruction (PO | 0x100)
P(x) == <<"P", x>>            \* the other PO symbols: conf_lang_param_out()
Val(v) == <<"val", v>>        \* VAL|v
OutVal == <<"outval">>        \* OUT_VAL: the value of the last token
Out(s, l) == <<"out", s, l>>  \* OUT_VAL<s>|l: label l of the section s around
Open(s) == <<"start", s>>     \* SEC_START|s
Close == <<"end">>            \* SEC_END
SetPos(l) == <<"setpos", l>>  \* label l is here
SefPos(l) == <<"sefpos", l>>  \* label l of the jumps so far is here
SetVal(l) == <<"setval", l>>
Count(l, a) == <<"incval", l, a>>  \* SEC_INCVAL|l, SEC_DECVAL|l
After == 255                  \* the label 0xff

(* {stav, {terminaly}, {stack}}; no tokens stand for all of them. *)
Row(at, on, push) == [at |-> at, on |-> on, push |-> push]

(* Jumps as pairs of an instruction and its label. *)
Jump(op, s, l) == <<O(op), Out(s, l)>>

(* conf_lang[]: functions ... *)
Functions == <<
  Row("START", {"function"}, <<T("function"), T("id"), N("S4"), N("START")>>),
  Row("S4", {";"}, <<P("funcdec"), T(";")>>),
  Row("S4", {}, <<P("funcdec"), P("progstart"), T("{"), N("CMDS"), T("}"), P("funcend")>>),
  Row("START", {"TEND"}, <<>>) >>

(* ... and handlers of an operation, of any subject and no object. *)
Hooks == <<
  Row("START", {"*"}, <<N("SGT"), P("subject"), N("S2"), N("START")>>),
  Row("SGT", {"*"}, <<T("*"), P("nullpath"), P("allspaces")>>),
  Row("S2", {"id"}, <<T("id"), P("progstart"), N("SLEV")>>),
  Row("SLEV", {}, <<N("SOBJ")>>),
  Row("SOBJ", {"{"}, <<T("{"), N("CMDS"), T("}"), P("reg")>>),
  Row("SRET0", {}, <<O("LDI"), Val(3), OutVal, O("LTI")>>) >>

(* language[]: sections 1 of if, 2 for break, 3 for continue. *)
LoopEnd == <<Close, SetPos(After), Close>>
Commands == <<
  Row("CMD", {"if"}, <<T("if"), N("S_exp2"), Open(1)>> \o Jump("JIZ", 1, 1) \o <<N("CMD"), N("C1")>>),
  Row("C1", {"else"}, <<T("else")>> \o Jump("JR", 1, 2)
                      \o <<SetPos(1), N("CMD"), SetPos(2), Close>>),
  Row("C1", {}, <<SetPos(1), Close>>),
  Row("CMD", {"do"}, <<T("do"), Open(2), Open(3), SetPos(1), N("CMD"), N("C2")>>),
  Row("C2", {}, <<N("Cw")>>),
  Row("CMD", {"while"}, <<Open(2), Open(3), SetPos(1), N("Cw")>>),
  Row("Cw", {}, <<T("while"), SetPos(After), N("S_exp2")>> \o Jump("JIZ", 3, 2)
                \o <<N("CMD"), N("C3")>>),
  Row("C3", {"else"}, <<T("else")>> \o Jump("JR", 3, 1) \o <<SetPos(2), N("CMD")>> \o LoopEnd),
  Row("C3", {}, Jump("JR", 3, 1) \o <<SetPos(2)>> \o LoopEnd),
  Row("CMD", {"for"},
      <<T("for"), Open(2), Open(3), T("("), N("CNE"), T(";"), SetPos(4), N("C4")>>
      \o Jump("JR", 3, 3) \o <<T(";"), SetPos(After), N("CNE")>> \o Jump("JR", 3, 4)
      \o <<T(")"), SetPos(3), N("CMD")>> \o Jump("JR", 3, After) \o LoopEnd),
  Row("C4", {";"}, <<>>),
  Row("C4", {}, <<N("S_exp2")>> \o Jump("JIZ", 2, After)),
  Row("CNE", {";"}, <<>>),
  Row("CNE", {}, <<N("S_exp2"), O("DEL")>>),
  Row("CMD", {"break"}, <<T("break"), T(";")>> \o Jump("JR", 2, After)),
  Row("CMD", {"continue"}, <<T("continue"), T(";")>> \o Jump("JR", 3, After)),
  Row("CMD", {"switch"}, <<T("switch"), N("S_exp2"), Open(2), T("{"), N("C7"), T("}"),
                           SetPos(1), SetPos(After), Close, O("DEL")>>),
  Row("C7", {"case"}, <<T("case"), SefPos(0), O("DUP"), N("S_exp2"), T(":"), O("EQ")>>
                      \o Jump("JIZ", 2, 0) \o <<SefPos(1), N("C5")>>),
  Row("C7", {"default"}, Jump("JR", 2, 0) \o <<T("default"), SetPos(2), SefPos(1), T(":"), N("C5")>>),
  Row("C5", {"case", "default"}, Jump("JR", 2, 1) \o <<N("C7")>>),
  Row("C5", {"}"}, Jump("JR", 2, After) \o <<SetPos(0)>> \o Jump("JR", 2, 2)),
  Row("C5", {}, <<N("CMD"), N("C5")>>),
  Row("CMD", {"return"}, <<T("return"), N("C6"), O("RET"), T(";")>>),
  Row("C6", {";"}, <<N("SRET0")>>),
  Row("C6", {}, <<N("S_exp2")>>),
  Row("CMD", {";"}, <<T(";")>>),
  Row("CMD", {"{"}, <<T("{"), N("CR"), T("}")>>),
  Row("CR", {"}"}, <<>>),
  Row("CR", {}, <<N("CMD"), N("CR")>>),
  Row("CMD", {}, <<N("S_exp2"), O("DEL"), T(";")>>),
  Row("CMDS", {}, <<N("CR"), N("SRET0"), O("RET")>>) >>

(* value[]: section 4 counts the arguments of a call.  Its SV1a to SV7     *)
(* are others than those of expression[] and are called SD here.  Left out *)
(* are the rows of strings, paths and spaces (data.c:31-35), typeof and    *)
(* commof (52-53), variables of a class that is computed or of another     *)
(* connection (69-70, 74) and aliases (71, 75-76).                         *)
CallOf(op) == <<SetVal(1), N("SD2"), O(op), Out(4, 1), O("DEn"), Close, N("SA")>>
New == <<O("NEW"), T("id"), OutVal>>
LiteralRows == <<
  Row("S_val", {"num"}, <<O("LDI"), T("num"), OutVal, O("LTI")>>),
  Row("S_val", {"arg"}, <<O("ARG"), T("arg"), OutVal, N("SA")>>) >>
NameRows == <<
  Row("S_val", {"id"}, <<T("id"), N("SD1a")>>),
  Row("SD1a", {"."}, <<O("LDS"), OutVal, T("."), T("id"), OutVal>>),
  Row("SD1a", {}, <<O("LDV"), OutVal>>),
  Row("SA", {"."}, <<O("ATR"), T("."), T("id"), OutVal>>),
  Row("SA", {}, <<>>) >>
CallRows == <<
  Row("S_val", {"buildin"}, <<Open(4), T("buildin")>> \o CallOf("BIN")),
  Row("S_val", {"callfunc"}, <<Open(4), T("callfunc")>> \o CallOf("JSR")),
  Row("S_val", {"fetch"}, <<T("fetch"), T("id"), O("FET"), OutVal>>),
  Row("S_val", {"update"}, <<T("update"), T("id"), O("UPD"), OutVal>>),
  Row("SD2", {";", ","}, <<Count(0, 1), Count(0, -1), O("LDI"), Out(4, 0)>>),
  Row("SD2", {}, <<T("("), N("SD3"), T(")"), O("LDI"), Out(4, 0)>>),
  Row("SD3", {")"}, <<Count(0, 1), Count(0, -1)>>),
  Row("SD3", {}, <<N("SD5")>>),
  Row("SD4", {","}, <<T(","), N("SD5")>>),
  Row("SD4", {}, <<>>),
  Row("SD5", {}, <<N("S_exp"), Count(0, 1), N("SD4")>>) >>
VarRows == <<
  Row("S_val", {"local"}, <<T("local"), N("SD6"), O("VRL"), N("SA")>>),
  Row("S_val", {"transparent"}, <<T("transparent"), N("SD6"), O("VRT"), N("SA")>>),
  Row("SD6", {}, <<N("SD7")>>),
  Row("SD7", {"id"}, <<O("LDI"), T("id"), P("id2class"), OutVal, O("LTP")>> \o New) >>
Values == LiteralRows \o NameRows \o CallRows \o VarRows

(* expression[]: sections 0xe of ?: and 0xf of && and ||. *)
Deeper(sv) == "SV" \o ToString(sv)

(* The levels of binary operators that associate to the left. *)
Level(sv, ops) ==
  LET rest == Deeper(sv) \o "d"
  IN  <<Row(Deeper(sv), {}, <<N(Deeper(sv - 1)), N(rest)>>)>>
      \o [i \in DOMAIN ops |->
            Row(rest, {ops[i][1]}, <<T(ops[i][1]), N(Deeper(sv - 1)), O(ops[i][2]), N(rest)>>)]
      \o <<Row(rest, {}, <<>>)>>

Levels ==
  Level(3, <<<<"*", "MUL">>, <<"/", "DIV">>, <<"%", "MOD">>>>)
  \o Level(4, <<<<"+", "ADD">>, <<"-", "SUB">>>>)
  \o Level(5, <<<<"<<", "SHL">>, <<">>", "SHR">>>>)
  \o Level(6, <<<<"<", "LT">>, <<">", "GT">>, <<"<=", "LE">>, <<">=", "GE">>>>)
  \o Level(7, <<<<"==", "EQ">>, <<"!=", "NE">>>>)
  \o Level(8, <<<<"&", "AND">>>>) \o Level(9, <<<<"^", "XOR">>>>) \o Level(10, <<<<"|", "OR">>>>)

(* a && b && ... jumps to the end at the first value that decides it. *)
Chain(sv, token, jump, all, decided) ==
  LET d == Deeper(sv) \o "d"
      e == Deeper(sv) \o "e"
      more == <<T(token)>> \o Jump(jump, 15, 1) \o <<N(Deeper(sv - 1)), N(e)>>
  IN  << Row(Deeper(sv), {}, <<N(Deeper(sv - 1)), N(d)>>),
         Row(d, {token}, <<T(token), Open(15)>> \o Tail(more)),
         Row(d, {}, <<>>),
         Row(e, {token}, more),
         Row(e, {}, Jump(jump, 15, 1) \o <<O(all)>> \o Jump("JR", 15, 2)
                    \o <<SetPos(1), O(decided), SetPos(2), Close>>) >>

(* v += x and so on; the rows of <<= and >>= read a %= in their place. *)
Assigns ==
  LET read(t) == IF t \in {"<<=", ">>="} THEN "%=" ELSE t
      ops == <<<<"+=", "ADD">>, <<"-=", "SUB">>, <<"*=", "MUL">>, <<"/=", "DIV">>, <<"%=", "MOD">>,
               <<"&=", "AND">>, <<"|=", "OR">>, <<"^=", "XOR">>, <<"<<=", "SHL">>, <<">>=", "SHR">>>>
  IN  [i \in DOMAIN ops |->
         Row("SV15d", {ops[i][1]},
             <<T(read(ops[i][1])), O("DUP"), N("SV15"), O(ops[i][2]), O("STO")>>)]

(* ++v, v++ *)
Step(op) == <<O("DUP"), O("LD1"), O(op), O("STO")>>
Stepped(op) == <<O("DUP"), O("IMM"), O("SWP")>> \o Step(op) \o <<O("DEL")>>

Expressions == <<
  Row("S_val", {"("}, <<T("("), N("S_exp2"), T(")")>>),
  Row("SV2", {"!"}, <<T("!"), N("SV2"), O("NOT")>>),
  Row("SV2", {"~"}, <<T("~"), N("SV2"), O("NEG")>>),
  Row("SV2", {"-"}, <<O("LD0"), T("-"), N("SV2"), O("SUB")>>),
  Row("SV2", {"++"}, <<T("++"), N("SV2")>> \o Step("ADD")),
  Row("SV2", {"--"}, <<T("--"), N("SV2")>> \o Step("SUB")),
  Row("SV2a", {"++"}, <<T("++")>> \o Stepped("ADD")),
  Row("SV2a", {"--"}, <<T("--")>> \o Stepped("SUB")),
  Row("SV2a", {}, <<>>),
  Row("SV2", {}, <<N("S_val"), N("SV2a")>>) >>
  \o Levels \o Chain(11, "&&", "JIZ", "LD1", "LD0") \o <<
  Row("SV12", {}, <<N("SV11"), N("SV12d")>>),
  Row("SV12d", {"^^"}, <<T("^^"), O("NOT"), N("SV11"), O("NOT"), O("NE"), N("SV12d")>>),
  Row("SV12d", {}, <<>>) >>
  \o Chain(13, "||", "JNZ", "LD0", "LD1") \o <<
  Row("SV14", {}, <<N("SV13"), N("SV14d")>>),
  Row("SV14d", {"?"}, <<T("?"), Open(14)>> \o Jump("JIZ", 14, 1) \o <<N("SV14")>>
                      \o Jump("JR", 14, 2)
                      \o <<T(":"), SetPos(1), N("SV14"), SetPos(2), Close>>),
  Row("SV14d", {}, <<>>),
  Row("SV15", {}, <<N("SV14"), N("SV15d")>>),
  Row("SV15d", {"="}, <<T("="), N("SV15"), O("STO")>>) >>
  \o Assigns \o <<
  Row("SV15d", {}, <<>>),
  Row("S_exp", {}, <<N("SV15")>>),
  Row("S_exp2", {}, <<N("SV15"), N("S_exp2d")>>),
  Row("S_exp2d", {","}, <<T(","), O("DEL"), N("SV15"), N("S_exp2d")>>),
  Row("S_exp2d", {}, <<>>) >>

Table == Functions \o Hooks \o Commands \o Values \o Expressions
=============================================================================
