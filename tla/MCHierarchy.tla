---------------------------- MODULE MCHierarchy ----------------------------
(* Two trees of processes (one entered by fork with "clone", one by exec    *)
(* with "test_enter") and a tree of files nothing moves in.  The kernel has *)
(* a process class with a subject's and an object's cinfo and a file class  *)
(* whose enter attribute is missing.  The int that marks words is one bit   *)
(* wide, so that the second word of a subject meets the end of the mask:    *)
(* the second tree takes the object's word.                                 *)
EXTENDS Hierarchy, TLC

CONSTANTS kern, proc, file, fork, exec, byfork, byexec, files,
          f0, f1, e0, e1, e2, d0, p1, p2, i1, s1, s2, b1, b2

MCConns == {kern}
MCClassDefs == {[name |-> proc, id |-> 1, o_off |-> 0, o_size |-> 1, s_off |-> 2, s_size |-> 2],
                [name |-> file, id |-> 2, o_off |-> 0, o_size |-> 2, s_off |-> 0, s_size |-> 0]}
MCEventDefs == {[name |-> fork, op0 |-> 1, op1 |-> 1, one |-> FALSE, at_object |-> FALSE,
                 by_object |-> FALSE, bit |-> 1],
                [name |-> exec, op0 |-> 1, op1 |-> 2, one |-> FALSE, at_object |-> FALSE,
                 by_object |-> TRUE, bit |-> 2],
                [name |-> exec, op0 |-> 1, op1 |-> 1, one |-> TRUE, at_object |-> TRUE,
                 by_object |-> FALSE, bit |-> 2]}
MCHandlers == {byfork, byexec, files}
MCHandlerClass == byfork :> proc @@ byexec :> proc @@ files :> file
MCHandlerEvent == byfork :> fork @@ byexec :> exec @@ files :> NoEvent
MCOrder == <<files, byfork, byexec>>

MCRoot == byfork :> f0 @@ byexec :> e0 @@ files :> d0
MCOwner == f0 :> byfork @@ f1 :> byfork @@ e0 :> byexec @@ e1 :> byexec @@ e2 :> byexec @@ d0 :> files
MCChildren == f0 :> {f1} @@ f1 :> {f1} @@ e0 :> {e1} @@ e1 :> {} @@ e2 :> {} @@ d0 :> {}
MCAlternatives == f0 :> {f0} @@ f1 :> {f1} @@ e0 :> {e0} @@ e1 :> {e1, e2} @@ e2 :> {e2} @@ d0 :> {d0}
Only(m, e) == "MEMBER" :> m @@ "ENTER" :> e
MCNodeSpaces == f0 :> Only({}, {}) @@ f1 :> Only({s1}, {s2}) @@ e0 :> Only({}, {}) @@
                e1 :> Only({s2}, {}) @@ e2 :> Only({s1}, {s1}) @@ d0 :> Only({s1}, {})
Bit(o, s) == "object" :> o @@ "subject" :> s
MCNodeEvents == f0 :> Bit({}, {}) @@ f1 :> Bit({}, {3}) @@ e0 :> Bit({}, {}) @@
                e1 :> Bit({4}, {}) @@ e2 :> Bit({}, {1}) @@ d0 :> Bit({4}, {})
MCFlags == byfork :> {"clone"} @@ byexec :> {"test_enter"} @@ files :> {}
MCVsAttr == proc :> ("MEMBER" :> {s1, s2} @@ "ENTER" :> {s1, s2}) @@
            file :> ("MEMBER" :> {s1} @@ "ENTER" :> NoAttr)
MCEventBits == proc :> Bit({1, 2, 3, 4}, {1, 2, 3}) @@ file :> Bit({4}, {})
MCObjConn == p1 :> kern @@ p2 :> kern @@ i1 :> kern
MCObjClass == p1 :> proc @@ p2 :> proc @@ i1 :> file
(* The kernel names its classes before its access types and READY. *)
ClassesFirst ==
  \A c \in Conns : phase[c] # "open" \/ (\E n \in EventNames : events[c][n] # Undefined)
                  => Len(structs[c]) = MaxStructs
MCSymmetry == Permutations({b1, b2}) \cup Permutations({p1, p2})
MCSaid == {RESULT_ALLOW, RESULT_DENY}
=============================================================================
