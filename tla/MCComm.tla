------------------------------- MODULE MCComm -------------------------------
(***************************************************************************)
(* Instances of Comm: one or two connections, two workers.  Buffers are    *)
(* numbered in the order buffers_alloc() and malloc() would give them.     *)
(***************************************************************************)
EXTENDS CommService, TLC

CONSTANTS c1, c2, w1, w2, q1, q2

OneConn == [r \in Requests |-> c1]
TwoConns == [r \in Requests |-> IF r = q1 THEN c1 ELSE c2]
OwnObjectsOf == [c \in Conns |-> {c}]
Symmetry == Permutations(Workers)

(* At most one operation is asked for, by _init() or by a request. *)
OneOperation == ids["fetch"] + ids["update"] <= 5

=============================================================================
