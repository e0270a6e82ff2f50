------------------------------ MODULE Startup ------------------------------
(***************************************************************************)
(* How Constable starts (init.c, mcp/conf_lang.c, comm_do()).              *)
(*                                                                         *)
(* main() reads constable.conf, one statement at a time, and each          *)
(* statement acts as soon as its parts are read: it opens a device, binds  *)
(* a port, takes a module from the list.  Then the modules and the parts   *)
(* of the program are initialised in a fixed order, medusa.conf is         *)
(* compiled, spaces are applied, and comm_do() greets one connection after *)
(* another, starting the threads of each, and at last the workers.         *)
(*                                                                         *)
(* As process 1 the program forks first: the parent waits to become the    *)
(* real init, the child is the server and wakes it with SIGHUP.            *)
(***************************************************************************)
EXTENDS Integers, Sequences, SequencesExt, FiniteSets

CONSTANTS
  Configs,     \* constable.conf files, as sequences of statements
  Registered,  \* modules in the order of add_module()
  MakesComm,   \* modules whose create_comm adds a connection
  StdFds,      \* the descriptors below 3 that may be open at the start
  TooLow,      \* a port that cannot be bound
  NoDevice,    \* a device that cannot be opened
  NoModule,    \* a module nobody registered
  None

ASSUME StartupAssumption ==
  /\ StdFds \subseteq SUBSET (0..2)
  /\ NoModule \notin {Registered[i] : i \in DOMAIN Registered}

(* What the grammar accepts. *)
ASSUME StatementAssumption ==
  \A config \in Configs :
    /\ config \in Seq(Range(config))
    /\ \A s \in Range(config) :
         /\ s.kind \in {"file", "tcp", "module", "config", "command"}
         /\ s.kind = "tcp" => s.mask = None \/ s.mask[1] \in {"ip", "bits"}

VARIABLES
  stage,    \* where main() is
  lines,    \* what is left of constable.conf, from the statement being read on
  call,     \* how far mcp_conf_lang_param_out() is with it
  static,   \* the static variables of mcp_conf_lang_param_out()
  errors,   \* mcp_compiler->err->errors
  comms,    \* first_comm, in order: the connection number is the index; with
            \* what the other side has said, and the line it comes from
  accepts,  \* MCP_DATA(listener)->to_accept
  all,      \* all_comms: the listeners, latest first
  modules,  \* first_module and active_modules
  hooked,   \* how many active modules had the hook of this stage called
  fds,      \* open descriptors
  arrays,   \* sizes of the arrays of comm_new_array()
  next,     \* comm_do(): the connection whose turn it is
  threads,  \* connections with a reader and a writer
  parent,   \* the waiting process 1
  dry       \* -t or -d was given

svars == <<stage, lines, call, static, errors, comms, accepts, all, modules, hooked, fds, arrays,
           next, threads, parent, dry>>

Free(S, from) == CHOOSE n \in from..(from + Cardinality(S)) :
                   n \notin S /\ \A m \in from..(n - 1) : m \in S

-----------------------------------------------------------------------------
(* The grammar: what a statement makes the parser call, with the data of   *)
(* the token before.                                                       *)
Mask(s) == IF s.mask = None THEN <<"maskfull", None>>
           ELSE IF s.mask[1] = "ip" THEN <<"mask", s.mask[2]>>
           ELSE <<"masknum", s.mask[2]>>
Port(s) == IF s.from = None THEN <<"port0", None>> ELSE <<"port", s.from>>
Calls(s) ==
  CASE s.kind = "file" -> <<<<"name", s.name>>, <<"commfile", s.device>>>>
    [] s.kind = "tcp" ->
         <<<<"name", s.name>>, <<"bind", s.port>>, <<"ip", s.ip>>, Mask(s), Port(s),
           <<"commbind", None>>>>
    [] s.kind = "module" ->
         IF s.file = None THEN <<<<"module", s.name>>>>
         ELSE <<<<"module", s.name>>, <<"modfile", s.file>>>>
    [] s.kind = "config" -> <<<<"config", s.file>>>>
    [] s.kind = "command" -> <<<<"command", None>>>>

(* ((1 << n) - 1) << (32 - n), or ~0: the octets as they lie in the memory *)
(* of a little-endian host, where the last one has the top bits.  An       *)
(* address lies there in the order of the network, first octet first, and  *)
(* mcp_accept() takes the one AND the other.                               *)
BitMask(n) ==
  [octet \in 1..4 |->
     LET bits == n - 8 * (4 - octet) IN
     IF bits <= 0 THEN 0 ELSE IF bits >= 8 THEN 255 ELSE 256 - 2 ^ (8 - bits)]

-----------------------------------------------------------------------------
(* Connections *)
Comm(name, kind, fd, line) ==
  [name |-> name, kind |-> kind, fd |-> fd, ip |-> None, mask |-> None, port |-> None,
   opens |-> 0, flags |-> None, version |-> None, said |-> None, line |-> line]

(* comm_open_skip_stdfds() *)
OpenSkipStdFds(S) == IF Free(S, 0) < 3 THEN Free(S, 3) ELSE Free(S, 0)

(* The listeners of a port; mcp_listen() takes the first. *)
Listening(port) == {k \in DOMAIN all : comms[all[k]].port = port}
FirstOf(S) == CHOOSE k \in S : \A j \in S : k <= j

Add(c) == comms' = Append(comms, c)

-----------------------------------------------------------------------------
(* constable.conf: mcp_conf_lang_param_out(), one call at a time *)
Call(sym) ==
  /\ stage = "config" /\ lines # <<>> /\ Calls(Head(lines))[call][1] = sym
  /\ IF call < Len(Calls(Head(lines))) THEN call' = call + 1 /\ UNCHANGED lines
     ELSE call' = 1 /\ lines' = Tail(lines)
Datum == Calls(Head(lines))[call][2]
Sets(f) == static' = [static EXCEPT ![f] = Datum]
                  /\ UNCHANGED <<errors, comms, accepts, all, modules, fds>>

PName == Call("name") /\ Sets("name")
PIp   == Call("ip") /\ Sets("ip")
PMask == Call("mask") /\ Sets("mask")
PPort == Call("port") /\ Sets("port")
PConfig == Call("config") /\ Sets("config")
PMaskNum ==
  /\ \/ Call("masknum") /\ static' = [static EXCEPT !.mask = BitMask(Datum)]
     \/ Call("maskfull") /\ static' = [static EXCEPT !.mask = BitMask(32)]
  /\ UNCHANGED <<errors, comms, accepts, all, modules, fds>>
(* Mutation: no FROM leaves the port as it was. *)
PPort0_Kept ==
  Call("port0") /\ UNCHANGED <<static, errors, comms, accepts, all, modules, fds>>
PPort0 ==
  /\ Call("port0") /\ static' = [static EXCEPT !.port = 0]
  /\ UNCHANGED <<errors, comms, accepts, all, modules, fds>>

(* mcp_alloc_comm() and mcp_open() *)
PCommFile ==
  /\ Call("commfile") /\ static' = [static EXCEPT !.name = None]
  /\ IF Datum = NoDevice
     THEN /\ errors' = errors + 1 /\ UNCHANGED fds
          /\ Add(Comm(static.name, "file", None, Head(lines)))
     ELSE LET fd == OpenSkipStdFds(fds)
          IN  /\ fds' = fds \cup {fd} /\ UNCHANGED errors
              /\ Add(Comm(static.name, "file", fd, Head(lines)))
  /\ UNCHANGED <<accepts, all, modules>>

(* mcp_listen(): a port that cannot be bound is not an error of the file *)
PBind ==
  /\ Call("bind")
  /\ IF Listening(Datum) # {}
     THEN /\ static' = [static EXCEPT !.listen = all[FirstOf(Listening(Datum))]]
          /\ UNCHANGED <<comms, all, accepts, fds>>
     ELSE LET l == Len(comms) + 1
              c == Comm(None, "listen", None, Head(lines))
          IN  IF Datum = TooLow
              THEN /\ Add([c EXCEPT !.port = Datum])
                   /\ static' = [static EXCEPT !.listen = 0]
                   /\ UNCHANGED <<all, accepts, fds>>
              ELSE /\ Add([c EXCEPT !.port = Datum, !.fd = Free(fds, 0), !.opens = 1])
                   /\ static' = [static EXCEPT !.listen = l]
                   /\ all' = <<l>> \o all
                   /\ accepts' = [i \in DOMAIN accepts \cup {l} |->
                                    IF i = l THEN <<>> ELSE accepts[i]]
                   /\ fds' = fds \cup {Free(fds, 0)}
  /\ UNCHANGED <<errors, modules>>

(* mcp_to_accept() *)
PCommBind ==
  /\ Call("commbind") /\ static' = [static EXCEPT !.name = None]
  /\ LET c == Comm(static.name, "accept", None, Head(lines))
     IN  IF static.listen = 0 THEN Add(c) /\ UNCHANGED accepts
         ELSE /\ Add([c EXCEPT !.ip = static.ip, !.mask = static.mask, !.port = static.port])
              /\ accepts' = [accepts EXCEPT ![static.listen] = <<Len(comms) + 1>> \o @]
  /\ UNCHANGED <<errors, all, modules, fds>>

(* activate_module() *)
PModule ==
  /\ Call("module")
  /\ IF \E i \in DOMAIN modules.idle : modules.idle[i] = Datum
     THEN /\ modules' = [modules EXCEPT !.idle = SelectSeq(@, LAMBDA m : m # Datum),
                                        !.active = Append(@, Datum)]
          /\ static' = [static EXCEPT !.module = Datum] /\ UNCHANGED errors
     ELSE /\ errors' = errors + 1 /\ static' = [static EXCEPT !.module = None]
          /\ UNCHANGED modules
  /\ UNCHANGED <<comms, accepts, all, fds>>
PModFile ==
  /\ Call("modfile")
  /\ modules' = IF static.module = None THEN modules
                ELSE [modules EXCEPT !.file[static.module] = Datum]
  /\ UNCHANGED <<static, errors, comms, accepts, all, fds>>

(* chdir() and system(), which may fail *)
PCommand ==
  /\ Call("command") /\ errors' \in {errors, errors + 1}
  /\ UNCHANGED <<static, comms, accepts, all, modules, fds>>

ConfigStep ==
  /\ \/ PName \/ PIp \/ PMask \/ PMaskNum \/ PPort \/ PPort0 \/ PConfig \/ PCommFile
     \/ PBind \/ PCommBind \/ PModule \/ PModFile \/ PCommand
  /\ UNCHANGED <<stage, hooked, arrays, next, threads, parent, dry>>

-----------------------------------------------------------------------------
(* add_module(): at the end of the list, unless the name is taken. *)
AddModule(list, m) == IF Contains(list, m) THEN list ELSE Append(list, m)

(* Mutation: the tables come before the modules' connections. *)
Order_TablesFirst ==
  <<"config", "tables", "create_comm", "init_comm", "init_namespace", "language",
    "init_rules", "spaces", "kill", "open">>

(* init_all() *)
Order == <<"config", "create_comm", "tables", "init_comm", "init_namespace", "language",
           "init_rules", "spaces", "kill", "open">>
After(s) == Order[(CHOOSE i \in DOMAIN Order : Order[i] = s) + 1]
Goes == stage' = After(stage)
Stops == stage' = "stopped"
Array(of) == [of |-> of, size |-> Len(comms)]
Initialising == UNCHANGED <<static, lines, call, errors, accepts, all, modules, fds, next,
                            threads, parent, dry>>

(* mcp_language_do() returns *)
ConfigRead ==
  /\ stage = "config" /\ lines = <<>>
  /\ IF errors > 0 THEN Stops ELSE Goes
  /\ Initialising /\ UNCHANGED <<comms, hooked, arrays>>

(* buffers_alloc(), which needs a connection, vs_init(), tree_init(), cmds_init() *)
Tables ==
  /\ stage = "tables"
  /\ IF comms = <<>> THEN Stops /\ UNCHANGED arrays
     ELSE Goes /\ arrays' = arrays \cup {Array("root")}
  /\ Initialising /\ UNCHANGED <<comms, hooked>>

(* The hooks of active modules; classes, access types and trees they make
   have arrays. *)
HookStages == {"create_comm", "init_comm", "init_namespace", "init_rules"}
Hook ==
  /\ stage \in HookStages /\ hooked < Len(modules.active)
  /\ LET m == modules.active[hooked + 1]
     IN  /\ hooked' = hooked + 1
         /\ IF stage = "create_comm" /\ m \in MakesComm
            THEN Add(Comm(m, "module", None, None)) ELSE UNCHANGED comms
         /\ arrays' = IF stage \in {"init_comm", "init_namespace"}
                      THEN arrays \cup {Array(m)} ELSE arrays
  /\ UNCHANGED stage /\ Initialising
HookFails ==
  /\ stage \in HookStages /\ hooked < Len(modules.active)
  /\ Stops /\ Initialising /\ UNCHANGED <<comms, hooked, arrays>>
Hooked ==
  /\ stage \in HookStages /\ hooked = Len(modules.active)
  /\ Goes /\ hooked' = 0 /\ Initialising /\ UNCHANGED <<comms, arrays>>

(* execute_init(), language_init(), language_do() *)
Language ==
  /\ stage = "language"
  /\ \/ Goes /\ arrays' = arrays \cup {Array("class"), Array("event"), Array("tree")}
     \/ Stops /\ UNCHANGED arrays
  /\ Initialising /\ UNCHANGED <<comms, hooked>>

(* space_apply_all() and, after it, -t or -d *)
Spaces ==
  /\ stage = "spaces"
  /\ \/ IF dry THEN Stops ELSE Goes
     \/ Stops
  /\ Initialising /\ UNCHANGED <<comms, hooked, arrays>>

-----------------------------------------------------------------------------
(* Process 1: run_init(), and kill(1, SIGHUP) of the child *)
Kill ==
  /\ stage = "kill" /\ Goes
  /\ parent' = IF parent = "paused" THEN "woken" ELSE parent
  /\ UNCHANGED <<lines, call, static, errors, comms, accepts, all, modules, hooked, fds, arrays,
                 next, threads, dry>>
ParentStep ==
  /\ \/ parent = "forked" /\ parent' = "ready"
     \/ parent = "ready" /\ parent' = "paused"
     \/ parent = "woken" /\ parent' \in {"init", "exited"}
  /\ UNCHANGED <<stage, lines, call, static, errors, comms, accepts, all, modules, hooked, fds,
                 arrays, next, threads, dry>>

-----------------------------------------------------------------------------
(* comm_do() *)
(* What a kernel may say: a greeting in one of two byte orders or, without *)
(* one, its first message, which the same loop reads to its end ("none").  *)
(* A connection is refused for another greeting, for hanging up, and for a *)
(* first message that fails or breaks off.                                 *)
Greetings == {"native", "swapped", "none"}
Refused   == {"strange", "hangup", "broken"}
Opening == /\ stage = "open" /\ next <= Len(comms) /\ next' = next + 1
           /\ UNCHANGED <<stage, lines, call, static, errors, accepts, all, modules, hooked,
                          parent, dry>>
HasFd == comms[next].fd # None

Skips == Opening /\ ~HasFd /\ UNCHANGED <<comms, fds, threads, arrays>>

(* mcp_opened(), mcp_r_greeting(): a kernel without a greeting has version *)
(* 0, and its first message may be a class nobody has named yet.           *)
Greets ==
  /\ Opening /\ HasFd /\ comms[next].said \in Greetings
  /\ comms' = [comms EXCEPT ![next].opens = @ + 1,
                            ![next].flags = IF comms[next].said = "swapped" THEN "CHENDIAN" ELSE 0,
                            ![next].version = IF comms[next].said = "none" THEN 0 ELSE "greeted"]
  /\ \/ UNCHANGED arrays
     \/ comms[next].said = "none" /\ arrays' = arrays \cup {Array("kernel")}
  /\ threads' = threads \cup {next} /\ UNCHANGED fds

(* Mutation: a greeting that fails ends the start. *)
GreetingFails_Stops ==
  /\ stage = "open" /\ next <= Len(comms) /\ HasFd /\ comms[next].said \in Refused \cup {"connects"}
  /\ stage' = "stopped"
  /\ UNCHANGED <<lines, call, static, errors, comms, accepts, all, modules, hooked, fds, arrays,
                 next, threads, parent, dry>>

(* mcp_read_loop() has closed the connection when comm_do() closes it again;
   on the socket of a listener read() always fails. *)
GreetingFails ==
  /\ Opening /\ HasFd /\ comms[next].said \in Refused \cup {"connects"}
  /\ comms' = [comms EXCEPT ![next].opens = @ - 1, ![next].fd = None]
  /\ fds' = fds \ {comms[next].fd} /\ UNCHANGED <<threads, arrays>>

Workers ==
  /\ stage = "open" /\ next > Len(comms) /\ stage' = "serving"
  /\ UNCHANGED <<lines, call, static, errors, comms, accepts, all, modules, hooked, fds, arrays,
                 next, threads, parent, dry>>

(* A running reader meets a class or an access type nobody has named yet. *)
KernelDefines ==
  /\ threads # {} /\ stage # "stopped" /\ arrays' = arrays \cup {Array("kernel")}
  /\ UNCHANGED <<stage, lines, call, static, errors, comms, accepts, all, modules, hooked, fds,
                 next, threads, parent, dry>>

(* What the other side says is read only when its turn comes; one whose    *)
(* first message never ends has said nothing.                              *)
PeerSpeaks ==
  /\ stage = "open" /\ next <= Len(comms) /\ HasFd /\ comms[next].said = None
  /\ comms' \in {[comms EXCEPT ![next].said = g] :
                  g \in IF comms[next].kind = "listen" THEN {"connects"}
                        ELSE Greetings \cup Refused}
  /\ UNCHANGED <<stage, lines, call, static, errors, accepts, all, modules, hooked, fds, arrays,
                 next, threads, parent, dry>>

-----------------------------------------------------------------------------
MainStep == ConfigStep \/ ConfigRead \/ Tables \/ Hook \/ HookFails \/ Hooked \/ Language
            \/ Spaces \/ Kill \/ Skips \/ Greets \/ GreetingFails \/ Workers
Next == MainStep \/ ParentStep \/ KernelDefines \/ PeerSpeaks

Init ==
  /\ stage = "config" /\ errors = 0 /\ comms = <<>> /\ accepts = [i \in {} |-> <<>>]
  /\ lines \in Configs /\ call = 1
  /\ static = [name |-> None, listen |-> 0, ip |-> None, mask |-> None, port |-> 0,
               module |-> None, config |-> None]
  /\ all = <<>> /\ hooked = 0 /\ arrays = {} /\ next = 1 /\ threads = {}
  /\ modules = [idle |-> FoldLeft(AddModule, <<>>, Registered), active |-> <<>>,
                file |-> [m \in {Registered[i] : i \in DOMAIN Registered} |-> None]]
  /\ fds \in StdFds
  /\ parent \in {"none", "forked"}
  /\ dry \in BOOLEAN

(* main() and the parent run; what a kernel says is up to the kernel. *)
Fairness == WF_svars(MainStep) /\ WF_svars(ParentStep)
Spec == Init /\ [][Next]_svars /\ Fairness

-----------------------------------------------------------------------------
(* Every array that is indexed by the number of a connection has an element
   for each of them, whenever it was allocated: at the start, for a module or
   while kernels define classes. *)
SlotForEveryConnection == \A a \in arrays : a.size >= Len(comms)

(* A connection is what its own line of constable.conf says: the static
   variables of the parser carry nothing over from the lines before, and a
   port named twice is one listener. *)
LineKept(i) ==
  LET c == comms[i]
      from == {l \in DOMAIN accepts : i \in Range(accepts[l])}
  IN  /\ c.kind \in {"file", "accept"} => c.name = c.line.name
      /\ c.kind = "accept" /\ c.line.port # TooLow =>
           /\ \E l \in from : from = {l} /\ comms[l].port = c.line.port
           /\ c.ip = c.line.ip
           /\ c.mask = IF c.line.mask = None THEN BitMask(32)
                       ELSE IF c.line.mask[1] = "bits" THEN BitMask(c.line.mask[2])
                       ELSE c.line.mask[2]
           /\ c.port = IF c.line.from = None THEN 0 ELSE c.line.from
LinesKeepTheirOwn ==
  /\ \A i \in DOMAIN comms : LineKept(i)
  /\ \A k, l \in DOMAIN all : comms[all[k]].port = comms[all[l]].port => k = l

(* If every other side says something whole or hangs up, comm_do() ends its
   round with threads for exactly the devices that greeted, or whose first
   message was good: a kernel that is refused takes nobody with it. *)
Answered(i) == comms[i].fd = None \/ comms[i].said # None
ServesWhoGreets ==
  (stage = "open") ~>
    \/ stage = "serving" /\ threads = {i \in DOMAIN comms : comms[i].said \in Greetings}
    \/ \E i \in DOMAIN comms : ~Answered(i) /\ i = next

=============================================================================
