-------------------------------- MODULE MCAlu --------------------------------
(* An instance of Alu with bytes of two bits, words of two bytes and       *)
(* pointers of four.                                                       *)
EXTENDS Alu

Number4(n) == {Fill(0, n), <<1>> \o Fill(0, n - 1), Fill(3, n), Fill(0, n - 1) \o <<2>>,
               <<2>> \o Fill(3, n - 1)}
Attr(type, bs, swapped, off) ==
    [type |-> type, bytes |-> bs, swapped |-> swapped, head |-> Fill(off, off), readonly |-> FALSE]

MCAttrs ==
    {Attr(type, bs, FALSE, 2) : type \in {"u", "s"}, bs \in Number4(1) \cup Number4(2) \cup Number4(4)}
    \cup {Attr(type, <<1, 0>>, TRUE, 2) : type \in {"u", "s"}}
    \cup {Attr("b", bs, FALSE, 2) : bs \in {<<1, 2>>, <<0, 3>>, <<1, 2, 0, 0>>, <<3, 2, 1, 1>>}}
    \cup {Attr("c", bs, TRUE, 2) : bs \in {<<1, 0, 2>>, <<1, 2>>, <<1, 3, 1>>, <<1, 2, 0, 0>>, <<0, 1>>}}
MCLiterals == {0, 1, 7, 8, 15, 16, 255}
MCTargets ==
    {Attr(type, bs, sw, 2) : type \in {"u", "s"}, bs \in {<<2>>, <<1, 2>>, <<3, 1, 2, 0>>}, sw \in BOOLEAN}
    \cup {Attr("b", bs, sw, 2) : bs \in {<<1, 2>>, <<3, 3, 3, 3>>}, sw \in BOOLEAN}
    \cup {Attr("c", bs, FALSE, 2) : bs \in {<<1, 1>>, <<1, 1, 1, 0>>}}
    \cup {[Attr("u", <<1, 2>>, FALSE, 2) EXCEPT !.readonly = TRUE]}
==============================================================================
