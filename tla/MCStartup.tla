----------------------------- MODULE MCStartup -----------------------------
(* Instances of Startup: files of up to three statements. *)
EXTENDS Startup

CONSTANTS dev1, dev2, ip1, ip2, net1, rbac, other, conf2

Tcp(name, port, ip, mask, from) ==
  [kind |-> "tcp", name |-> name, port |-> port, ip |-> ip, mask |-> mask, from |-> from]
File(name, device) == [kind |-> "file", name |-> name, device |-> device]
Module(name, file) == [kind |-> "module", name |-> name, file |-> file]

Statements ==
  {File("fork", dev1), File("other", dev2), File("broken", NoDevice),
   Tcp("a", 7777, ip1, None, None), Tcp("b", 7777, ip2, <<"ip", net1>>, 9999),
   Tcp("c", 80, ip1, <<"bits", 24>>, None), Tcp("d", 7778, ip2, <<"bits", 32>>, None),
   Module(rbac, conf2), Module(other, None), Module(NoModule, conf2),
   [kind |-> "config", file |-> conf2], [kind |-> "command"]}

MCConfigs == UNION {[1..n -> Statements] : n \in 0..3}
MCRegistered == <<rbac, other, rbac>>
MCStdFds == {{0, 1, 2}, {1}}

=============================================================================
