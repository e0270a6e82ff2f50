--------------------------- MODULE StartupProofs ---------------------------
(***************************************************************************)
(* Proofs, for every constable.conf and every set of modules.              *)
(*                                                                         *)
(* The arrays indexed by connection numbers have room for all connections: *)
(* comm_new_array() counts the connections there are, and the argument is  *)
(* that they are added before the first array is made, and never after.    *)
(*                                                                         *)
(* A connection is what its own line says: call by call, the variables of  *)
(* the parser that the line has set so far are the line's (Known).         *)
(***************************************************************************)
EXTENDS Startup, TLAPS

Stages == {Order[i] : i \in DOMAIN Order} \cup {"serving", "stopped"}

(* Connections may still be added. *)
Growing == stage \in {"config", "create_comm"}

StartInv ==
  /\ stage \in Stages
  /\ \E S : comms \in Seq(S)
  /\ arrays # {} => ~Growing
  /\ threads # {} => stage \in {"open", "serving", "stopped"}
  /\ SlotForEveryConnection

-----------------------------------------------------------------------------
(* init_all() goes through its stages in order and comes back to none. *)
LEMMA StageAfter ==
  ASSUME NEW s, s \in {Order[i] : i \in 1..9}
  PROVE  /\ After(s) \in Stages
         /\ After(s) # "config"
         /\ s # "config" => After(s) # "create_comm"
         /\ s = "kill" <=> After(s) = "open"
<1>1. \A i, j \in DOMAIN Order : Order[i] = Order[j] => i = j
  BY DEF Order
<1>2. PICK i \in 1..9 : Order[i] = s
  OBVIOUS
<1>3. DOMAIN Order = 1..10
  BY DEF Order
<1>4. After(s) = Order[i + 1]
  BY <1>1, <1>2, <1>3 DEF After
<1>5. Order[i + 1] \in Stages
  BY <1>3 DEF Stages
<1>6. QED
  BY <1>2, <1>4, <1>5 DEF Order

(* A list of connections of which some change is as long as before. *)
LEMMA SameLength ==
  ASSUME NEW S, NEW s \in Seq(S), NEW t,
         DOMAIN t = DOMAIN s, t = [i \in DOMAIN s |-> t[i]]
  PROVE  /\ \E T : t \in Seq(T)
         /\ Len(t) = Len(s)
<1> DEFINE T == {t[i] : i \in DOMAIN s}
<1>1. DOMAIN s = 1..Len(s) /\ Len(s) \in Nat
  OBVIOUS
<1>2. t \in [1..Len(s) -> T]
  BY <1>1
<1>3. t \in Seq(T)
  BY <1>1, <1>2
<1>4. Len(t) \in Nat /\ DOMAIN t = 1..Len(t)
  BY <1>3
<1>5. 1..Len(t) = 1..Len(s)
  BY <1>1, <1>4
<1>6. Len(t) = Len(s)
  BY <1>1, <1>4, <1>5
<1>7. QED
  BY <1>3, <1>6

(* With one connection more it is a list of connections again. *)
LEMMA OneMore ==
  ASSUME NEW S, NEW s \in Seq(S), NEW v
  PROVE  \E T : Append(s, v) \in Seq(T)
<1>1. s \in Seq(S \cup {v})
  OBVIOUS
<1>2. Append(s, v) \in Seq(S \cup {v})
  BY <1>1
<1>3. QED
  BY <1>2

-----------------------------------------------------------------------------
LEMMA StartInit == Init => StartInv
<1> SUFFICES ASSUME Init PROVE StartInv
  OBVIOUS
<1>1. stage \in Stages
  BY DEF Init, Stages, Order
<1>2. comms \in Seq({})
  BY DEF Init
<1>3. QED
  BY <1>1, <1>2 DEF Init, StartInv, SlotForEveryConnection

(* Reading constable.conf, the only connections of the file are made. *)
LEMMA StartConfig == StartInv /\ ConfigStep => StartInv'
<1> SUFFICES ASSUME StartInv, ConfigStep PROVE StartInv'
  OBVIOUS
<1>1. stage = "config" /\ UNCHANGED <<stage, arrays, threads>>
  BY DEF ConfigStep, Call, PName, PIp, PMask, PPort, PConfig, PMaskNum, PPort0, PCommFile,
         PBind, PCommBind, PModule, PModFile, PCommand
<1>2. arrays = {}
  BY <1>1 DEF StartInv, Growing
<1>3. comms' = comms \/ \E c : comms' = Append(comms, c)
  <2>1. CASE PName \/ PIp \/ PMask \/ PPort \/ PConfig
    BY <2>1 DEF PName, PIp, PMask, PPort, PConfig, Sets
  <2>2. CASE PMaskNum \/ PPort0 \/ PModule \/ PModFile \/ PCommand
    BY <2>2 DEF PMaskNum, PPort0, PModule, PModFile, PCommand
  <2>3. CASE PCommFile
    BY <2>3 DEF PCommFile, Add
  <2>4. CASE PBind
    BY <2>4 DEF PBind, Add
  <2>5. CASE PCommBind
    BY <2>5 DEF PCommBind, Add
  <2>6. QED
    BY <2>1, <2>2, <2>3, <2>4, <2>5 DEF ConfigStep
<1>4. \E T : comms' \in Seq(T)
  <2>1. PICK S : comms \in Seq(S)
    BY DEF StartInv
  <2>2. \A c : \E T : Append(comms, c) \in Seq(T)
    BY <2>1, OneMore
  <2>3. QED
    BY <1>3, <2>1, <2>2
<1>5. QED
  BY <1>1, <1>2, <1>4 DEF StartInv, Growing, SlotForEveryConnection

(* Of the initialisation only create_comm adds connections, and it makes no
   array. *)
LEMMA StartStages ==
  StartInv /\ (ConfigRead \/ Tables \/ Hook \/ HookFails \/ Hooked \/ Language \/ Spaces)
    => StartInv'
<1> SUFFICES ASSUME StartInv,
                    ConfigRead \/ Tables \/ Hook \/ HookFails \/ Hooked \/ Language \/ Spaces
             PROVE  StartInv'
  OBVIOUS
<1>1. stage \in {Order[i] : i \in 1..9} /\ stage \notin {"kill", "open"}
  <2>1. stage \in {"config", "tables", "language", "spaces"} \cup HookStages
    BY DEF ConfigRead, Tables, Hook, HookFails, Hooked, Language, Spaces
  <2>2. /\ Order[1] = "config" /\ Order[2] = "create_comm" /\ Order[3] = "tables"
        /\ Order[4] = "init_comm" /\ Order[5] = "init_namespace" /\ Order[6] = "language"
        /\ Order[7] = "init_rules" /\ Order[8] = "spaces"
    BY DEF Order
  <2>3. QED
    BY <2>1, <2>2 DEF HookStages
<1>2. threads = {} /\ UNCHANGED threads
  BY <1>1 DEF StartInv, Order, ConfigRead, Tables, Hook, HookFails, Hooked, Language, Spaces,
              Initialising
<1>3. \/ stage' = "stopped"
      \/ stage' = stage
      \/ stage' = After(stage)
  BY DEF ConfigRead, Tables, Hook, HookFails, Hooked, Language, Spaces, Goes, Stops
<1>4. stage' \in Stages /\ (Growing' => Growing)
  BY <1>1, <1>3, StageAfter DEF StartInv, Stages, Growing
<1>5. CASE Hook /\ stage = "create_comm"
  <2>1. arrays = {} /\ arrays' = {}
    BY <1>5 DEF Hook, StartInv, Growing
  <2>2. comms' = comms \/ \E c : comms' = Append(comms, c)
    BY <1>5 DEF Hook, Add
  <2>3. \E T : comms' \in Seq(T)
    <3>1. PICK S : comms \in Seq(S)
      BY DEF StartInv
    <3>2. \A c : \E T : Append(comms, c) \in Seq(T)
      BY <3>1, OneMore
    <3>3. QED
      BY <2>2, <3>1, <3>2
  <2>4. QED
    BY <1>2, <1>4, <2>1, <2>3 DEF StartInv, SlotForEveryConnection
<1>6. CASE ~(Hook /\ stage = "create_comm")
  <2>1. UNCHANGED comms
    BY <1>6 DEF ConfigRead, Tables, Hook, HookFails, Hooked, Language, Spaces
  <2>2. \A a \in arrays' : a \in arrays \/ a.size = Len(comms)
    <3>1. CASE Hook
      BY <3>1 DEF Hook, Array
    <3>2. CASE Tables
      BY <3>2 DEF Tables, Array
    <3>3. CASE Language
      BY <3>3 DEF Language, Array
    <3>4. CASE ConfigRead \/ HookFails \/ Hooked \/ Spaces
      BY <3>4 DEF ConfigRead, HookFails, Hooked, Spaces
    <3>5. QED
      BY <3>1, <3>2, <3>3, <3>4
  <2>3. Len(comms) \in Nat
    BY DEF StartInv
  <2>4. SlotForEveryConnection'
    BY <2>1, <2>2, <2>3 DEF StartInv, SlotForEveryConnection
  <2>5. arrays' # {} => ~Growing'
    <3>1. CASE arrays' = arrays
      BY <3>1, <1>4 DEF StartInv
    <3>2. CASE arrays' # arrays
      <4>1. ~Growing
        BY <3>2, <1>6 DEF ConfigRead, Tables, Hook, HookFails, Hooked, HookStages, Language,
                          Spaces, Growing
      <4>2. QED
        BY <4>1, <1>4
    <3>3. QED
      BY <3>1, <3>2
  <2>6. QED
    BY <1>2, <1>4, <2>1, <2>4, <2>5 DEF StartInv
<1>7. QED
  BY <1>5, <1>6

(* comm_do() changes connections and adds none. *)
LEMMA StartOpen ==
  StartInv /\ (Kill \/ Skips \/ Greets \/ GreetingFails \/ Workers \/ PeerSpeaks) => StartInv'
<1> SUFFICES ASSUME StartInv,
                    Kill \/ Skips \/ Greets \/ GreetingFails \/ Workers \/ PeerSpeaks
             PROVE  StartInv'
  OBVIOUS
<1>1. stage \in {"kill", "open"} /\ stage' \in {"open", "serving"}
  <2>1. stage = "kill" => stage \in {Order[i] : i \in 1..9}
    BY DEF Order
  <2>2. QED
    BY <2>1, StageAfter DEF Kill, Goes, Skips, Greets, GreetingFails, Workers, PeerSpeaks, Opening
<1>2. stage' \in Stages /\ ~Growing'
  BY <1>1 DEF Stages, Order, Growing
<1>3. DOMAIN comms' = DOMAIN comms /\ comms' = [i \in DOMAIN comms |-> comms'[i]]
  <2>1. comms = [i \in DOMAIN comms |-> comms[i]]
    BY DEF StartInv
  <2>2. CASE Kill \/ Skips \/ Workers
    BY <2>1, <2>2 DEF Kill, Skips, Workers
  <2>3. CASE Greets
    BY <2>3 DEF Greets
  <2>4. CASE GreetingFails
    BY <2>4 DEF GreetingFails
  <2>5. CASE PeerSpeaks
    BY <2>5 DEF PeerSpeaks
  <2>6. QED
    BY <2>2, <2>3, <2>4, <2>5
<1>4. PICK S : comms \in Seq(S)
  BY DEF StartInv
<1>5. (\E T : comms' \in Seq(T)) /\ Len(comms') = Len(comms)
  BY <1>3, <1>4, SameLength
<1>6. threads' # {} => stage' \in {"open", "serving", "stopped"}
  BY <1>1
<1>7. \A a \in arrays' : a \in arrays \/ a.size = Len(comms)
  <2>1. UNCHANGED arrays \/ arrays' = arrays \cup {Array("kernel")}
    BY DEF Kill, Skips, Greets, GreetingFails, Workers, PeerSpeaks, Opening
  <2>2. QED
    BY <2>1 DEF Array
<1>8. Len(comms) \in Nat
  BY <1>4
<1>9. QED
  BY <1>1, <1>2, <1>5, <1>6, <1>7, <1>8 DEF StartInv, SlotForEveryConnection

(* Readers that define classes run when all connections are there. *)
LEMMA StartReaders == StartInv /\ KernelDefines => StartInv'
<1> SUFFICES ASSUME StartInv, KernelDefines PROVE StartInv'
  OBVIOUS
<1>1. stage \in {"open", "serving"} /\ UNCHANGED <<stage, comms, threads>>
  BY DEF KernelDefines, StartInv
<1>2. \A a \in arrays' : a \in arrays \/ a.size = Len(comms)
  BY DEF KernelDefines, Array
<1>3. Len(comms) \in Nat
  BY DEF StartInv
<1>4. QED
  BY <1>1, <1>2, <1>3 DEF StartInv, SlotForEveryConnection, Growing

LEMMA StartStep == StartInv /\ [Next]_svars => StartInv'
<1> SUFFICES ASSUME StartInv, [Next]_svars PROVE StartInv'
  OBVIOUS
<1>1. CASE ParentStep
  BY <1>1 DEF ParentStep, StartInv, Growing, SlotForEveryConnection
<1>2. CASE UNCHANGED svars
  BY <1>2 DEF svars, StartInv, Growing, SlotForEveryConnection
<1>3. QED
  BY <1>1, <1>2, StartConfig, StartStages, StartOpen, StartReaders DEF Next, MainStep

(* Whatever constable.conf says, in whatever order modules, the
   configuration and kernels make classes, access types, events and trees:
   an array indexed by connections (comm_new_array()) never has to grow. *)
THEOREM SlotsSuffice == Spec => []SlotForEveryConnection
<1>1. StartInv => SlotForEveryConnection
  BY DEF StartInv
<1>2. QED
  BY <1>1, StartInit, StartStep, PTL DEF Spec

-----------------------------------------------------------------------------
(* A connection is what its own line says.                                 *)

Statements == UNION {Range(config) : config \in Configs}

MaskOf(s) == IF s.mask = None THEN BitMask(32)
             ELSE IF s.mask[1] = "bits" THEN BitMask(s.mask[2])
             ELSE s.mask[2]
PortOf(s) == IF s.from = None THEN 0 ELSE s.from

(* What the static variables hold of statement s before call n is made.    *)
Known(s, n) ==
  /\ s.kind \in {"file", "tcp"} /\ n >= 2 => static.name = s.name
  /\ s.kind = "tcp" =>
       /\ n >= 3 => IF s.port = TooLow THEN static.listen = 0
                    ELSE static.listen \in DOMAIN accepts /\ comms[static.listen].port = s.port
       /\ n >= 4 => static.ip = s.ip
       /\ n >= 5 => static.mask = MaskOf(s)
       /\ n >= 6 => static.port = PortOf(s)

Parsing ==
  /\ lines \in Seq(Statements)
  /\ lines # <<>> => call \in 1..Len(Calls(Head(lines))) /\ Known(Head(lines), call)

StaticFields == {"name", "listen", "ip", "mask", "port", "module", "config"}
CommFields   == {"name", "kind", "fd", "ip", "mask", "port", "opens", "flags", "version",
                 "said", "line"}

(* The lists hold connections there are; a listener has a port of its own. *)
Linked ==
  /\ \A i \in DOMAIN comms : DOMAIN comms[i] = CommFields
  /\ DOMAIN accepts \subseteq DOMAIN comms
  /\ \A l \in DOMAIN accepts : accepts[l] \in Seq(DOMAIN comms)
  /\ all \in Seq(DOMAIN accepts)
  /\ \A k \in DOMAIN all : comms[all[k]].port # TooLow

LinesInv == Parsing /\ DOMAIN static = StaticFields /\ Linked /\ LinesKeepTheirOwn

(* What a statement makes the parser call.                                 *)
LEMMA CallsMade ==
  ASSUME NEW s \in Statements
  PROVE  /\ s.kind \in {"file", "tcp", "module", "config", "command"}
         /\ s.kind = "tcp" => s.mask = None \/ s.mask[1] \in {"ip", "bits"}
         /\ s.kind = "file" => Calls(s) = <<<<"name", s.name>>, <<"commfile", s.device>>>>
         /\ s.kind = "tcp" =>
              Calls(s) = <<<<"name", s.name>>, <<"bind", s.port>>, <<"ip", s.ip>>, Mask(s),
                           Port(s), <<"commbind", None>>>>
         /\ s.kind = "module" =>
              \/ Calls(s) = <<<<"module", s.name>>>>
              \/ Calls(s) = <<<<"module", s.name>>, <<"modfile", s.file>>>>
         /\ s.kind = "config" => Calls(s) = <<<<"config", s.file>>>>
         /\ s.kind = "command" => Calls(s) = <<<<"command", None>>>>
<1>1. PICK config \in Configs : s \in Range(config)
  BY DEF Statements
<1>2. /\ s.kind \in {"file", "tcp", "module", "config", "command"}
      /\ s.kind = "tcp" => s.mask = None \/ s.mask[1] \in {"ip", "bits"}
  BY <1>1, StatementAssumption
<1>3. QED
  BY <1>2 DEF Calls

LEMMA MaskCall ==
  ASSUME NEW s \in Statements, s.kind = "tcp"
  PROVE  /\ Mask(s)[1] \in {"mask", "masknum", "maskfull"}
         /\ Mask(s)[1] = "mask" => Mask(s)[2] = MaskOf(s)
         /\ Mask(s)[1] = "masknum" => BitMask(Mask(s)[2]) = MaskOf(s)
         /\ Mask(s)[1] = "maskfull" => BitMask(32) = MaskOf(s)
         /\ Port(s)[1] \in {"port", "port0"}
         /\ Port(s)[1] = "port" => Port(s)[2] = PortOf(s)
         /\ Port(s)[1] = "port0" => 0 = PortOf(s)
BY CallsMade DEF Mask, MaskOf, Port, PortOf

(* Which call this is.                                                     *)
LEMMA WhichCall ==
  ASSUME NEW s \in Statements, NEW n \in 1..Len(Calls(s)),
         NEW sym, NEW d, sym = Calls(s)[n][1], d = Calls(s)[n][2]
  PROVE  /\ Len(Calls(s)) \in Nat
         /\ sym = "name" => n = 1 /\ s.kind \in {"file", "tcp"} /\ d = s.name
         /\ sym = "commfile" => n = 2 /\ s.kind = "file" /\ n = Len(Calls(s))
         /\ sym = "bind" => n = 2 /\ s.kind = "tcp" /\ d = s.port
         /\ sym = "ip" => n = 3 /\ s.kind = "tcp" /\ d = s.ip
         /\ sym = "mask" => n = 4 /\ s.kind = "tcp" /\ d = MaskOf(s)
         /\ sym = "masknum" => n = 4 /\ s.kind = "tcp" /\ BitMask(d) = MaskOf(s)
         /\ sym = "maskfull" => n = 4 /\ s.kind = "tcp" /\ BitMask(32) = MaskOf(s)
         /\ sym = "port" => n = 5 /\ s.kind = "tcp" /\ d = PortOf(s)
         /\ sym = "port0" => n = 5 /\ s.kind = "tcp" /\ 0 = PortOf(s)
         /\ sym = "commbind" => n = 6 /\ s.kind = "tcp" /\ n = Len(Calls(s))
         /\ sym \in {"config", "command", "module", "modfile"} => s.kind \notin {"file", "tcp"}
<1>0. CASE s.kind = "file"
  <2>1. Calls(s) = <<<<"name", s.name>>, <<"commfile", s.device>>>>
    BY <1>0, CallsMade
  <2>2. Len(Calls(s)) = 2 /\ n \in {1, 2}
    BY <2>1
  <2>3. \/ n = 1 /\ sym = "name" /\ d = s.name
        \/ n = 2 /\ sym = "commfile"
    BY <2>1, <2>2
  <2>4. QED
    BY <1>0, <2>2, <2>3
<1>1. CASE s.kind = "tcp"
  <2>1. Calls(s) = <<<<"name", s.name>>, <<"bind", s.port>>, <<"ip", s.ip>>, Mask(s),
                     Port(s), <<"commbind", None>>>>
    BY <1>1, CallsMade
  <2>2. Len(Calls(s)) = 6 /\ n \in {1, 2, 3, 4, 5, 6}
    BY <2>1
  <2>3. \/ n = 1 /\ sym = "name" /\ d = s.name
        \/ n = 2 /\ sym = "bind" /\ d = s.port
        \/ n = 3 /\ sym = "ip" /\ d = s.ip
        \/ n = 4 /\ sym = Mask(s)[1] /\ d = Mask(s)[2]
        \/ n = 5 /\ sym = Port(s)[1] /\ d = Port(s)[2]
        \/ n = 6 /\ sym = "commbind"
    BY <2>1, <2>2
  <2>4. QED
    BY <1>1, <2>2, <2>3, MaskCall
<1>2. CASE s.kind \notin {"file", "tcp"}
  <2>1. \/ Calls(s) = <<<<"module", s.name>>>>
        \/ Calls(s) = <<<<"module", s.name>>, <<"modfile", s.file>>>>
        \/ Calls(s) = <<<<"config", s.file>>>>
        \/ Calls(s) = <<<<"command", None>>>>
    BY <1>2, CallsMade
  <2>2. Len(Calls(s)) \in {1, 2} /\ n \in {1, 2}
    BY <2>1
  <2>3. sym \in {"module", "modfile", "config", "command"}
    BY <2>1, <2>2
  <2>4. QED
    BY <1>2, <2>2, <2>3
<1>3. QED
  BY <1>0, <1>1, <1>2

(* After a call the parser goes on with the next one, or the next line.    *)
LEMMA Advances ==
  ASSUME Parsing, NEW sym, Call(sym), NEW s, s = Head(lines), NEW n, n = call,
         n < Len(Calls(s)) => Known(s, n + 1)'
  PROVE  Parsing'
<1>1. /\ lines \in Seq(Statements) /\ lines # <<>> /\ n \in 1..Len(Calls(s))
      /\ IF n < Len(Calls(s)) THEN call' = n + 1 /\ lines' = lines
         ELSE call' = 1 /\ lines' = Tail(lines)
  BY DEF Parsing, Call
<1>2. s \in Statements
  BY <1>1
<1>3. Len(Calls(s)) \in Nat
  BY <1>1, <1>2, WhichCall
<1>4. CASE n < Len(Calls(s))
  BY <1>1, <1>3, <1>4 DEF Parsing
<1>5. CASE ~(n < Len(Calls(s)))
  <2>1. call' = 1 /\ lines' \in Seq(Statements)
    BY <1>1, <1>5
  <2>2. PICK t : t = Head(lines')
    OBVIOUS
  <2>3. ASSUME lines' # <<>> PROVE call' \in 1..Len(Calls(t)) /\ Known(t, 1)'
    <3>1. t \in Statements
      BY <2>1, <2>2, <2>3
    <3>2. 1 <= Len(Calls(t)) /\ Len(Calls(t)) \in Nat
      BY <3>1, CallsMade
    <3>3. QED
      BY <2>1, <3>1, <3>2 DEF Known
  <2>4. QED
    BY <2>1, <2>2, <2>3 DEF Parsing
<1>6. QED
  BY <1>4, <1>5

-----------------------------------------------------------------------------
(* The listeners that have a connection in their lists.                    *)
From(i) == {l \in DOMAIN accepts : i \in Range(accepts[l])}

IsCommList == \E S : comms \in Seq(S)

(* What a connection is stays as it is, as long as nobody changes these.   *)
LEMMA LineStays ==
  ASSUME NEW i \in DOMAIN comms, LineKept(i), i \in DOMAIN comms',
         comms'[i].kind = comms[i].kind, comms'[i].name = comms[i].name,
         comms'[i].line = comms[i].line, comms'[i].ip = comms[i].ip,
         comms'[i].mask = comms[i].mask, comms'[i].port = comms[i].port,
         From(i)' = From(i),
         \A l \in From(i) : comms'[l].port = comms[l].port
  PROVE  LineKept(i)'
BY DEF LineKept, From

LEMMA ListsStay ==
  ASSUME LinesInv, UNCHANGED <<comms, accepts, all>>
  PROVE  Linked' /\ LinesKeepTheirOwn'
<1>1. Linked'
  BY DEF LinesInv, Linked
<1>2. ASSUME NEW i \in DOMAIN comms' PROVE LineKept(i)'
  BY <1>2, LineStays DEF LinesInv, LinesKeepTheirOwn, From
<1>3. QED
  BY <1>1, <1>2 DEF LinesInv, LinesKeepTheirOwn

(* One variable of the parser is set.                                      *)
LEMMA OneSet ==
  ASSUME DOMAIN static = StaticFields, NEW f \in StaticFields, NEW v,
         static' = [static EXCEPT ![f] = v]
  PROVE  /\ DOMAIN static' = StaticFields
         /\ static'[f] = v
         /\ \A g \in StaticFields \ {f} : static'[g] = static[g]
OBVIOUS

LEMMA LinesSet ==
  ASSUME LinesInv,
         PName \/ PIp \/ PMask \/ PPort \/ PConfig \/ PMaskNum \/ PPort0 \/ PModule \/ PModFile
           \/ PCommand
  PROVE  LinesInv'
<1>1. UNCHANGED <<comms, accepts, all>>
  BY DEF PName, PIp, PMask, PPort, PConfig, PMaskNum, PPort0, PModule, PModFile, PCommand, Sets
<1>2. Linked' /\ LinesKeepTheirOwn'
  BY <1>1, ListsStay
<1>3. PICK s, n : s = Head(lines) /\ n = call
  OBVIOUS
<1>4. ASSUME NEW sym, Call(sym)
      PROVE  /\ s \in Statements /\ n \in 1..Len(Calls(s)) /\ Known(s, n)
             /\ sym = Calls(s)[n][1] /\ Datum = Calls(s)[n][2]
  <2>1. lines \in Seq(Statements) /\ lines # <<>>
    BY <1>4 DEF LinesInv, Parsing, Call
  <2>2. QED
    BY <1>3, <1>4, <2>1 DEF LinesInv, Parsing, Call, Datum
<1>5. DOMAIN static = StaticFields
  BY DEF LinesInv
<1>6. ASSUME NEW sym, Call(sym), n < Len(Calls(s)) => Known(s, n + 1)', DOMAIN static' = StaticFields
      PROVE  LinesInv'
  BY <1>2, <1>3, <1>6, Advances DEF LinesInv
<1>7. ASSUME NEW sym, sym \in {"module", "modfile", "config", "command"}, Call(sym),
             DOMAIN static' = StaticFields
      PROVE  LinesInv'
  <2>1. s.kind \notin {"file", "tcp"}
    BY <1>4, <1>7, WhichCall
  <2>2. QED
    BY <1>6, <1>7, <2>1 DEF Known
<1>8. CASE PName
  <2>1. Call("name") /\ static' = [static EXCEPT !["name"] = Datum]
    BY <1>8 DEF PName, Sets
  <2>2. static'.name = Datum /\ DOMAIN static' = StaticFields
    BY <1>5, <2>1, OneSet DEF StaticFields
  <2>3. n = 1 /\ Datum = s.name
    BY <1>4, <2>1, WhichCall
  <2>4. Known(s, 2)'
    BY <2>2, <2>3 DEF Known
  <2>5. QED
    BY <1>6, <2>1, <2>2, <2>3, <2>4
<1>9. CASE PIp
  <2>1. Call("ip") /\ static' = [static EXCEPT !["ip"] = Datum]
    BY <1>9 DEF PIp, Sets
  <2>2. /\ static'.ip = Datum /\ DOMAIN static' = StaticFields
        /\ static'.name = static.name /\ static'.listen = static.listen
    BY <1>5, <2>1, OneSet DEF StaticFields
  <2>3. n = 3 /\ Datum = s.ip /\ Known(s, 3)
    BY <1>4, <2>1, WhichCall
  <2>4. Known(s, 4)'
    BY <1>1, <2>2, <2>3 DEF Known
  <2>5. QED
    BY <1>6, <2>1, <2>2, <2>3, <2>4
<1>10. CASE PMask \/ PMaskNum
  <2>1. PICK sym, v :
          /\ sym \in {"mask", "masknum", "maskfull"}
          /\ Call(sym) /\ static' = [static EXCEPT !["mask"] = v]
          /\ sym = "mask" => v = Datum
          /\ sym = "masknum" => v = BitMask(Datum)
          /\ sym = "maskfull" => v = BitMask(32)
    BY <1>10 DEF PMask, Sets, PMaskNum
  <2>2. /\ static'.mask = v /\ DOMAIN static' = StaticFields
        /\ static'.name = static.name /\ static'.listen = static.listen
        /\ static'.ip = static.ip
    BY <1>5, <2>1, OneSet DEF StaticFields
  <2>3. n = 4 /\ v = MaskOf(s) /\ Known(s, 4)
    BY <1>4, <2>1, WhichCall
  <2>4. Known(s, 5)'
    BY <1>1, <2>2, <2>3 DEF Known
  <2>5. QED
    BY <1>6, <2>1, <2>2, <2>3, <2>4
<1>11. CASE PPort \/ PPort0
  <2>1. PICK sym, v :
          /\ sym \in {"port", "port0"}
          /\ Call(sym) /\ static' = [static EXCEPT !["port"] = v]
          /\ v = IF sym = "port" THEN Datum ELSE 0
    BY <1>11 DEF PPort, Sets, PPort0
  <2>2. /\ static'.port = v /\ DOMAIN static' = StaticFields
        /\ static'.name = static.name /\ static'.listen = static.listen
        /\ static'.ip = static.ip /\ static'.mask = static.mask
    BY <1>5, <2>1, OneSet DEF StaticFields
  <2>3. n = 5 /\ v = PortOf(s) /\ Known(s, 5)
    BY <1>4, <2>1, WhichCall
  <2>4. Known(s, 6)'
    BY <1>1, <2>2, <2>3 DEF Known
  <2>5. QED
    BY <1>6, <2>1, <2>2, <2>3, <2>4
<1>12. CASE PConfig
  BY <1>5, <1>7, <1>12 DEF PConfig, Sets
<1>13. CASE PModule
  BY <1>5, <1>7, <1>13 DEF PModule
<1>14. CASE PModFile \/ PCommand
  BY <1>5, <1>7, <1>14 DEF PModFile, PCommand
<1>15. QED
  BY <1>8, <1>9, <1>10, <1>11, <1>12, <1>13, <1>14

(* Another connection, in nobody's list.                                   *)
LEMMA OneMoreLine ==
  ASSUME LinesInv, IsCommList, UNCHANGED <<accepts, all>>,
         NEW c, comms' = Append(comms, c), DOMAIN c = CommFields,
         c.kind \in {"file", "accept"} => c.name = c.line.name,
         c.kind = "accept" => c.line.port = TooLow
  PROVE  /\ Linked' /\ LinesKeepTheirOwn'
         /\ \A l \in DOMAIN accepts : comms'[l] = comms[l]
<1>1. PICK n : n = Len(comms) + 1
  OBVIOUS
<1>2. /\ DOMAIN comms' = DOMAIN comms \cup {n} /\ n \notin DOMAIN comms
      /\ \A i \in DOMAIN comms : comms'[i] = comms[i]
      /\ comms'[n] = c
  BY <1>1 DEF IsCommList
<1>3. Linked
  BY DEF LinesInv
<1>4. \A l \in DOMAIN accepts : comms'[l] = comms[l]
  BY <1>2, <1>3 DEF Linked
<1>5. Linked'
  BY <1>2, <1>3 DEF Linked
<1>6. ASSUME NEW i \in DOMAIN comms PROVE LineKept(i)'
  <2>1. LineKept(i) /\ From(i)' = From(i)
    BY DEF LinesInv, LinesKeepTheirOwn, From
  <2>2. \A l \in From(i) : comms'[l].port = comms[l].port
    BY <1>4 DEF From
  <2>3. QED
    BY <1>2, <2>1, <2>2, LineStays
<1>7. LineKept(n)'
  BY <1>2 DEF LineKept
<1>8. \A k \in DOMAIN all : all[k] \in DOMAIN accepts
  BY <1>3 DEF Linked
<1>9. LinesKeepTheirOwn'
  <2>1. \A i \in DOMAIN comms' : LineKept(i)'
    BY <1>2, <1>6, <1>7
  <2>2. \A k \in DOMAIN all : comms'[all[k]] = comms[all[k]]
    BY <1>4, <1>8
  <2>3. \A k, l \in DOMAIN all : comms[all[k]].port = comms[all[l]].port => k = l
    BY DEF LinesInv, LinesKeepTheirOwn
  <2>4. \A k, l \in DOMAIN all' : comms'[all'[k]].port = comms'[all'[l]].port => k = l
    BY <2>2, <2>3
  <2>5. QED
    BY <2>1, <2>4 DEF LinesKeepTheirOwn
<1>10. QED
  BY <1>4, <1>5, <1>9

LEMMA LinesFile == LinesInv /\ IsCommList /\ PCommFile => LinesInv'
<1> SUFFICES ASSUME LinesInv, IsCommList, PCommFile PROVE LinesInv'
  OBVIOUS
<1>1. PICK s, n : s = Head(lines) /\ n = call
  OBVIOUS
<1>2. Call("commfile")
  BY DEF PCommFile
<1>3. /\ s \in Statements /\ n \in 1..Len(Calls(s)) /\ Known(s, n)
      /\ Calls(s)[n][1] = "commfile"
  BY <1>1, <1>2 DEF LinesInv, Parsing, Call
<1>4. n = 2 /\ s.kind = "file" /\ n = Len(Calls(s)) /\ static.name = s.name
  BY <1>3, WhichCall DEF Known
<1>5. DOMAIN static' = StaticFields
  BY DEF PCommFile, LinesInv
<1>6. PICK fd : comms' = Append(comms, Comm(static.name, "file", fd, s))
  BY <1>1 DEF PCommFile, Add
<1>7. PICK c : c = Comm(static.name, "file", fd, s)
  OBVIOUS
<1>8. DOMAIN c = CommFields /\ c.kind = "file" /\ c.name = s.name /\ c.line = s
  BY <1>4, <1>7 DEF Comm, CommFields
<1>9. UNCHANGED <<accepts, all>>
  BY DEF PCommFile
<1>10. Linked' /\ LinesKeepTheirOwn'
  BY <1>6, <1>7, <1>8, <1>9, OneMoreLine
<1>11. Parsing'
  BY <1>1, <1>2, <1>4, Advances, SMTT(60) DEF LinesInv
<1>12. QED
  BY <1>5, <1>10, <1>11 DEF LinesInv

(* A new listener: nobody waits for it, and no other has its port.         *)
LEMMA OneMoreListener ==
  ASSUME LinesInv, IsCommList, NEW l, l = Len(comms) + 1, NEW p, p # TooLow,
         Listening(p) = {}, NEW c, DOMAIN c = CommFields, c.kind = "listen", c.port = p,
         comms' = Append(comms, c), all' = <<l>> \o all,
         accepts' = [i \in DOMAIN accepts \cup {l} |-> IF i = l THEN <<>> ELSE accepts[i]]
  PROVE  Linked' /\ LinesKeepTheirOwn'
<1>1. /\ DOMAIN comms' = DOMAIN comms \cup {l} /\ l \notin DOMAIN comms
      /\ \A i \in DOMAIN comms : comms'[i] = comms[i]
      /\ comms'[l] = c
  BY DEF IsCommList
<1>2. /\ Linked
      /\ \A j, k \in DOMAIN all : comms[all[j]].port = comms[all[k]].port => j = k
      /\ \A i \in DOMAIN comms : LineKept(i)
  BY DEF LinesInv, LinesKeepTheirOwn
<1>3. /\ DOMAIN accepts' = DOMAIN accepts \cup {l} /\ accepts'[l] = <<>>
      /\ \A i \in DOMAIN accepts : i # l /\ accepts'[i] = accepts[i]
  BY <1>1, <1>2 DEF Linked
<1>4. /\ all \in Seq(DOMAIN accepts) /\ Len(all) \in Nat
      /\ \A k \in DOMAIN all : all[k] \in DOMAIN accepts /\ all[k] \in DOMAIN comms
  BY <1>2 DEF Linked
<1>5. /\ all' \in Seq(DOMAIN accepts') /\ all'[1] = l /\ 1 \in DOMAIN all'
      /\ \A k \in DOMAIN all' : k = 1 \/ (k - 1 \in DOMAIN all /\ all'[k] = all[k - 1])
  <2>1. all \in Seq(DOMAIN accepts') /\ l \in DOMAIN accepts'
    BY <1>3, <1>4
  <2>2. QED
    BY <2>1, <1>4
<1>6. ASSUME NEW k \in DOMAIN all'
      PROVE  /\ k = 1 => comms'[all'[k]].port = p
             /\ k # 1 => /\ k - 1 \in DOMAIN all
                        /\ comms'[all'[k]].port = comms[all[k - 1]].port
                        /\ comms'[all'[k]].port \notin {p, TooLow}
  <2>1. CASE k = 1
    BY <2>1, <1>1, <1>5
  <2>2. CASE k # 1
    <3>1. k - 1 \in DOMAIN all /\ all'[k] = all[k - 1] /\ all[k - 1] \in DOMAIN comms
      BY <2>2, <1>4, <1>5
    <3>2. comms'[all'[k]] = comms[all[k - 1]]
      BY <3>1, <1>1
    <3>3. comms[all[k - 1]].port \notin {p, TooLow}
      BY <3>1, <1>2 DEF Linked, Listening
    <3>4. QED
      BY <2>2, <3>1, <3>2, <3>3
  <2>3. QED
    BY <2>1, <2>2
<1>7. Linked'
  <2>1. \A i \in DOMAIN comms' : DOMAIN comms'[i] = CommFields
    BY <1>1, <1>2 DEF Linked
  <2>2. DOMAIN accepts' \subseteq DOMAIN comms'
    BY <1>1, <1>2, <1>3 DEF Linked
  <2>3. ASSUME NEW i \in DOMAIN accepts' PROVE accepts'[i] \in Seq(DOMAIN comms')
    <3>1. CASE i = l
      BY <3>1, <1>3
    <3>2. CASE i # l
      <4>1. accepts'[i] = accepts[i] /\ accepts[i] \in Seq(DOMAIN comms)
        BY <3>2, <1>2, <1>3 DEF Linked
      <4>2. DOMAIN comms \subseteq DOMAIN comms'
        BY <1>1
      <4>3. QED
        BY <4>1, <4>2
    <3>3. QED
      BY <3>1, <3>2
  <2>4. \A k \in DOMAIN all' : comms'[all'[k]].port # TooLow
    BY <1>6
  <2>5. QED
    BY <2>1, <2>2, <2>3, <2>4, <1>5 DEF Linked
<1>8. ASSUME NEW i \in DOMAIN comms PROVE LineKept(i)'
  <2>1. LineKept(i) /\ From(i)' = From(i)
    <3>1. i \notin Range(accepts'[l])
      BY <1>3 DEF Range
    <3>2. QED
      BY <1>2, <1>3, <3>1 DEF From
  <2>2. \A k \in From(i) : comms'[k].port = comms[k].port
    BY <1>1, <1>2 DEF From, Linked
  <2>3. QED
    BY <1>1, <2>1, <2>2, LineStays
<1>9. LineKept(l)'
  BY <1>1 DEF LineKept
<1>10. ASSUME NEW j \in DOMAIN all', NEW k \in DOMAIN all',
              comms'[all'[j]].port = comms'[all'[k]].port
       PROVE  j = k
  <2>1. CASE j = 1 \/ k = 1
    BY <2>1, <1>6, <1>10
  <2>2. CASE j # 1 /\ k # 1
    <3>1. j - 1 = k - 1
      <4>1. /\ j - 1 \in DOMAIN all /\ k - 1 \in DOMAIN all
            /\ comms[all[j - 1]].port = comms[all[k - 1]].port
        BY <2>2, <1>6, <1>10
      <4>2. QED
        BY <4>1, <1>2
    <3>2. j \in Nat /\ k \in Nat
      BY <1>5
    <3>3. QED
      BY <3>1, <3>2
  <2>3. QED
    BY <2>1, <2>2
<1>11. QED
  BY <1>1, <1>7, <1>8, <1>9, <1>10 DEF LinesKeepTheirOwn

LEMMA LinesBind == LinesInv /\ IsCommList /\ PBind => LinesInv'
<1> SUFFICES ASSUME LinesInv, IsCommList, PBind PROVE LinesInv'
  OBVIOUS
<1>1. PICK s, n : s = Head(lines) /\ n = call
  OBVIOUS
<1>2. Call("bind")
  BY DEF PBind
<1>3. /\ s \in Statements /\ n \in 1..Len(Calls(s)) /\ Known(s, n)
      /\ Calls(s)[n][1] = "bind" /\ Calls(s)[n][2] = Datum
  BY <1>1, <1>2 DEF LinesInv, Parsing, Call, Datum
<1>4. n = 2 /\ s.kind = "tcp" /\ Datum = s.port /\ static.name = s.name
  BY <1>3, WhichCall DEF Known
<1>5. PICK l : l = Len(comms) + 1
  OBVIOUS
<1>6. PICK v : static' = [static EXCEPT !["listen"] = v]
  BY DEF PBind
<1>7. DOMAIN static' = StaticFields /\ static'.listen = v /\ static'.name = static.name
  BY <1>6, OneSet DEF LinesInv, StaticFields
<1>8. /\ Linked' /\ LinesKeepTheirOwn'
      /\ IF s.port = TooLow THEN v = 0 ELSE v \in DOMAIN accepts' /\ comms'[v].port = s.port
  <2>1. CASE Listening(s.port) # {}
    <3>1. /\ UNCHANGED <<comms, accepts, all>>
          /\ static' = [static EXCEPT !.listen = all[FirstOf(Listening(s.port))]]
      BY <1>4, <2>1 DEF PBind
    <3>2. v = all[FirstOf(Listening(s.port))]
      BY <1>7, <3>1 DEF LinesInv, StaticFields
    <3>3. FirstOf(Listening(s.port)) \in Listening(s.port)
      <4>1. PICK k \in Listening(s.port) : TRUE
        BY <2>1
      <4>2. k \in Nat
        BY <4>1 DEF Listening, LinesInv, Linked
      <4>3. \A j \in Listening(s.port) : j = k
        BY <4>1 DEF Listening, LinesInv, LinesKeepTheirOwn
      <4>4. k \in Listening(s.port) /\ \A j \in Listening(s.port) : k <= j
        BY <4>1, <4>2, <4>3
      <4>5. QED
        BY <4>4 DEF FirstOf
    <3>4. v \in DOMAIN accepts /\ comms[v].port = s.port /\ s.port # TooLow
      BY <3>2, <3>3 DEF Listening, LinesInv, Linked
    <3>5. QED
      BY <3>1, <3>4, ListsStay
  <2>2. CASE Listening(s.port) = {} /\ s.port = TooLow
    <3>1. PICK c : c = [Comm(None, "listen", None, s) EXCEPT !.port = s.port]
      OBVIOUS
    <3>2. DOMAIN c = CommFields /\ c.kind = "listen"
      BY <3>1 DEF Comm, CommFields
    <3>3. /\ comms' = Append(comms, c) /\ UNCHANGED <<accepts, all>>
          /\ static' = [static EXCEPT !.listen = 0]
      BY <1>1, <1>4, <2>2, <3>1 DEF PBind, Add
    <3>4. v = 0
      BY <1>7, <3>3 DEF LinesInv, StaticFields
    <3>5. QED
      BY <2>2, <3>2, <3>3, <3>4, OneMoreLine
  <2>3. CASE Listening(s.port) = {} /\ s.port # TooLow
    <3>1. PICK c : c = [Comm(None, "listen", None, s) EXCEPT !.port = s.port,
                                                      !.fd = Free(fds, 0), !.opens = 1]
      OBVIOUS
    <3>2. DOMAIN c = CommFields /\ c.kind = "listen" /\ c.port = s.port
      BY <3>1 DEF Comm, CommFields
    <3>3. /\ comms' = Append(comms, c) /\ all' = <<l>> \o all
          /\ accepts' = [i \in DOMAIN accepts \cup {l} |-> IF i = l THEN <<>> ELSE accepts[i]]
          /\ static' = [static EXCEPT !.listen = l]
      BY <1>1, <1>4, <1>5, <2>3, <3>1 DEF PBind, Add
    <3>4. v = l
      BY <1>7, <3>3 DEF LinesInv, StaticFields
    <3>5. comms'[l] = c
      BY <1>5, <3>3 DEF IsCommList
    <3>6. QED
      BY <1>5, <2>3, <3>2, <3>3, <3>4, <3>5, OneMoreListener
  <2>4. QED
    BY <2>1, <2>2, <2>3
<1>9. Known(s, 3)'
  BY <1>4, <1>7, <1>8 DEF Known
<1>10. Parsing'
  BY <1>1, <1>2, <1>4, <1>9, Advances DEF LinesInv
<1>11. QED
  BY <1>7, <1>8, <1>10 DEF LinesInv

(* mcp_to_accept(): one more that waits for the listener of its line.      *)
LEMMA OneMoreAccept ==
  ASSUME LinesInv, IsCommList, NEW n, n = Len(comms) + 1, NEW x \in DOMAIN accepts, NEW c,
         DOMAIN c = CommFields, c.kind = "accept", NEW s, c.line = s, c.name = s.name,
         c.ip = s.ip, c.mask = MaskOf(s), c.port = PortOf(s),
         s.port # TooLow => comms[x].port = s.port,
         comms' = Append(comms, c), UNCHANGED all,
         accepts' = [accepts EXCEPT ![x] = <<n>> \o @]
  PROVE  Linked' /\ LinesKeepTheirOwn'
<1>1. /\ DOMAIN comms' = DOMAIN comms \cup {n} /\ n \notin DOMAIN comms
      /\ \A i \in DOMAIN comms : comms'[i] = comms[i]
      /\ comms'[n] = c
  BY DEF IsCommList
<1>2. /\ Linked
      /\ \A j, k \in DOMAIN all : comms[all[j]].port = comms[all[k]].port => j = k
      /\ \A i \in DOMAIN comms : LineKept(i)
  BY DEF LinesInv, LinesKeepTheirOwn
<1>3. /\ DOMAIN accepts' = DOMAIN accepts /\ accepts'[x] = <<n>> \o accepts[x]
      /\ \A l \in DOMAIN accepts \ {x} : accepts'[l] = accepts[l]
  OBVIOUS
<1>4. \A l \in DOMAIN accepts : /\ accepts[l] \in Seq(DOMAIN comms)
                                /\ l \in DOMAIN comms /\ comms'[l] = comms[l]
  BY <1>1, <1>2 DEF Linked
<1>5. accepts'[x] \in Seq(DOMAIN comms') /\ Range(accepts'[x]) = Range(accepts[x]) \cup {n}
  <2>1. accepts[x] \in Seq(DOMAIN comms') /\ n \in DOMAIN comms'
    BY <1>1, <1>4
  <2>2. PICK t : t = accepts[x]
    OBVIOUS
  <2>3. t \in Seq(DOMAIN comms') /\ Len(t) \in Nat /\ DOMAIN t = 1..Len(t)
    BY <2>1, <2>2
  <2>4. PICK u : u = <<n>> \o t
    OBVIOUS
  <2>5. /\ u \in Seq(DOMAIN comms') /\ Len(u) = Len(t) + 1 /\ u[1] = n
        /\ DOMAIN u = 1..(Len(t) + 1)
        /\ \A k \in DOMAIN u : k = 1 \/ u[k] = t[k - 1]
        /\ \A k \in DOMAIN t : k + 1 \in DOMAIN u /\ u[k + 1] = t[k]
    BY <2>1, <2>3, <2>4
  <2>6. Range(u) = Range(t) \cup {n}
    <3>1. ASSUME NEW y \in Range(u) PROVE y \in Range(t) \cup {n}
      <4>1. PICK k \in DOMAIN u : y = u[k]
        BY <3>1 DEF Range
      <4>2. k = 1 \/ (k - 1 \in DOMAIN t /\ y = t[k - 1])
        BY <4>1, <2>3, <2>5
      <4>3. QED
        BY <4>1, <4>2, <2>5 DEF Range
    <3>2. ASSUME NEW y \in Range(t) \cup {n} PROVE y \in Range(u)
      <4>1. CASE y = n
        <5>1. 1 \in DOMAIN u /\ u[1] = y
          BY <4>1, <2>3, <2>5
        <5>2. QED
          BY <5>1 DEF Range
      <4>2. CASE y # n
        <5>1. PICK k \in DOMAIN t : y = t[k]
          BY <3>2, <4>2 DEF Range
        <5>2. k + 1 \in DOMAIN u /\ y = u[k + 1]
          BY <2>5, <5>1
        <5>3. QED
          BY <5>2 DEF Range
      <4>3. QED
        BY <4>1, <4>2
    <3>3. QED
      BY <3>1, <3>2
  <2>7. QED
    BY <1>3, <2>2, <2>4, <2>5, <2>6
<1>6. Linked'
  <2>1. \A l \in DOMAIN accepts' : accepts'[l] \in Seq(DOMAIN comms')
    <3>1. \A S, T : S \subseteq T => Seq(S) \subseteq Seq(T)
      OBVIOUS
    <3>2. QED
      BY <1>1, <1>3, <1>4, <1>5, <3>1
  <2>2. \A i \in DOMAIN comms' : DOMAIN comms'[i] = CommFields
    BY <1>1, <1>2 DEF Linked
  <2>3. \A k \in DOMAIN all' : comms'[all'[k]].port # TooLow
    BY <1>2, <1>4 DEF Linked
  <2>4. all' \in Seq(DOMAIN accepts') /\ DOMAIN accepts' \subseteq DOMAIN comms'
    BY <1>1, <1>2, <1>3 DEF Linked
  <2>5. QED
    BY <2>1, <2>2, <2>3, <2>4 DEF Linked
<1>7. ASSUME NEW i \in DOMAIN comms PROVE LineKept(i)'
  <2>1. LineKept(i) /\ i # n
    BY <1>1, <1>2
  <2>2. From(i)' = From(i)
    BY <1>3, <1>5, <2>1 DEF From
  <2>3. \A k \in From(i) : comms'[k].port = comms[k].port
    BY <1>4 DEF From
  <2>4. QED
    BY <1>1, <2>1, <2>2, <2>3, LineStays
<1>8. LineKept(n)'
  <2>1. From(n)' = {x}
    <3>1. \A l \in DOMAIN accepts : n \notin Range(accepts[l])
      BY <1>1, <1>4 DEF Range
    <3>2. QED
      BY <1>3, <1>5, <3>1 DEF From
  <2>2. c.mask = MaskOf(s) /\ c.port = PortOf(s) /\ (s.port # TooLow => comms'[x].port = s.port)
    BY <1>4
  <2>3. QED
    BY <1>1, <2>1, <2>2 DEF LineKept, From, MaskOf, PortOf
<1>9. \A j, k \in DOMAIN all' : comms'[all'[j]].port = comms'[all'[k]].port => j = k
  <2>1. \A k \in DOMAIN all : all[k] \in DOMAIN accepts
    BY <1>2 DEF Linked
  <2>2. \A k \in DOMAIN all : comms'[all[k]] = comms[all[k]]
    BY <1>4, <2>1
  <2>3. QED
    BY <1>2, <2>2
<1>10. QED
  BY <1>1, <1>6, <1>7, <1>8, <1>9 DEF LinesKeepTheirOwn

LEMMA LinesCommBind == LinesInv /\ IsCommList /\ PCommBind => LinesInv'
<1> SUFFICES ASSUME LinesInv, IsCommList, PCommBind PROVE LinesInv'
  OBVIOUS
<1>1. PICK s, n : s = Head(lines) /\ n = call
  OBVIOUS
<1>2. Call("commbind")
  BY DEF PCommBind
<1>3. /\ s \in Statements /\ n \in 1..Len(Calls(s)) /\ Known(s, n)
      /\ Calls(s)[n][1] = "commbind"
  BY <1>1, <1>2 DEF LinesInv, Parsing, Call
<1>4. n = 6 /\ s.kind = "tcp" /\ n = Len(Calls(s))
  BY <1>3, WhichCall
<1>5. /\ static.name = s.name /\ static.ip = s.ip
      /\ static.mask = MaskOf(s) /\ static.port = PortOf(s)
      /\ IF s.port = TooLow THEN static.listen = 0
         ELSE static.listen \in DOMAIN accepts /\ comms[static.listen].port = s.port
  BY <1>3, <1>4 DEF Known
<1>6. DOMAIN static' = StaticFields
  BY DEF PCommBind, LinesInv
<1>7. PICK c : c = Comm(static.name, "accept", None, s)
  OBVIOUS
<1>8. DOMAIN c = CommFields /\ c.kind = "accept" /\ c.name = s.name /\ c.line = s
  BY <1>5, <1>7 DEF Comm, CommFields
<1>9. Linked' /\ LinesKeepTheirOwn'
  <2>1. CASE static.listen = 0
    <3>1. comms' = Append(comms, c) /\ UNCHANGED <<accepts, all>>
      BY <1>1, <1>7, <2>1 DEF PCommBind, Add
    <3>2. s.port = TooLow
      BY <1>5, <2>1 DEF LinesInv, Linked, IsCommList
    <3>3. QED
      BY <1>8, <3>1, <3>2, OneMoreLine
  <2>2. CASE static.listen # 0
    <3>1. PICK d, m, x :
            /\ d = [c EXCEPT !.ip = static.ip, !.mask = static.mask, !.port = static.port]
            /\ m = Len(comms) + 1 /\ x = static.listen
      OBVIOUS
    <3>2. /\ DOMAIN d = CommFields /\ d.kind = "accept" /\ d.name = s.name /\ d.line = s
          /\ d.ip = s.ip /\ d.mask = MaskOf(s) /\ d.port = PortOf(s)
      BY <1>5, <1>8, <3>1 DEF CommFields
    <3>3. /\ comms' = Append(comms, d) /\ UNCHANGED all
          /\ accepts' = [accepts EXCEPT ![x] = <<m>> \o @]
      BY <1>1, <1>7, <2>2, <3>1 DEF PCommBind, Add
    <3>4. x \in DOMAIN accepts /\ (s.port # TooLow => comms[x].port = s.port)
      BY <1>5, <2>2, <3>1
    <3>5. m = Len(comms) + 1
      BY <3>1
    <3>6. QED
      BY <3>2, <3>3, <3>4, <3>5, OneMoreAccept
  <2>3. QED
    BY <2>1, <2>2
<1>10. Parsing'
  <2>1. Parsing
    BY DEF LinesInv
  <2>2. ~(n < Len(Calls(s)))
    <3>1. n \in Int /\ Len(Calls(s)) = n
      BY <1>4
    <3>2. QED
      BY <3>1
  <2>3. QED
    BY <1>1, <1>2, <2>1, <2>2, Advances
<1>11. QED
  BY <1>6, <1>9, <1>10 DEF LinesInv

(* The rest of the start reads no line, adds connections of modules only   *)
(* and changes of a connection what is not written in its line.            *)
LEMMA LinesRest ==
  ASSUME LinesInv, IsCommList, UNCHANGED <<lines, call, static, accepts, all>>,
         DOMAIN comms' = DOMAIN comms,
         \A i \in DOMAIN comms :
           /\ DOMAIN comms'[i] = CommFields
           /\ comms'[i].kind = comms[i].kind /\ comms'[i].name = comms[i].name
           /\ comms'[i].line = comms[i].line /\ comms'[i].ip = comms[i].ip
           /\ comms'[i].mask = comms[i].mask /\ comms'[i].port = comms[i].port
  PROVE  LinesInv'
<1>1. /\ Parsing /\ Linked /\ DOMAIN static = StaticFields
      /\ \A j, k \in DOMAIN all : comms[all[j]].port = comms[all[k]].port => j = k
      /\ \A i \in DOMAIN comms : LineKept(i)
  BY DEF LinesInv, LinesKeepTheirOwn
<1>2. /\ \A l \in DOMAIN accepts : l \in DOMAIN comms /\ comms'[l].port = comms[l].port
      /\ \A k \in DOMAIN all : all[k] \in DOMAIN accepts /\ comms'[all[k]].port = comms[all[k]].port
  BY <1>1 DEF Linked
<1>3. Parsing'
  <2>1. PICK t, n : t = Head(lines) /\ n = call
    OBVIOUS
  <2>2. Known(t, n) => Known(t, n)'
    BY <1>2 DEF Known
  <2>3. lines # <<>> => n \in 1..Len(Calls(t)) /\ Known(t, n)
    BY <1>1, <2>1 DEF Parsing
  <2>4. Head(lines') = t /\ call' = n /\ lines' = lines /\ lines \in Seq(Statements)
    BY <1>1, <2>1 DEF Parsing
  <2>5. QED
    BY <2>2, <2>3, <2>4 DEF Parsing
<1>4. Linked'
  BY <1>1, <1>2 DEF Linked
<1>5. ASSUME NEW i \in DOMAIN comms PROVE LineKept(i)'
  <2>1. LineKept(i) /\ From(i)' = From(i) /\ \A l \in From(i) : comms'[l].port = comms[l].port
    BY <1>1, <1>2 DEF From
  <2>2. QED
    BY <2>1, LineStays
<1>6. LinesKeepTheirOwn'
  BY <1>1, <1>2, <1>5 DEF LinesKeepTheirOwn
<1>7. QED
  BY <1>1, <1>3, <1>4, <1>6 DEF LinesInv

LEMMA LinesHook == LinesInv /\ IsCommList /\ Hook => LinesInv'
<1> SUFFICES ASSUME LinesInv, IsCommList, Hook PROVE LinesInv'
  OBVIOUS
<1>1. UNCHANGED <<lines, call, static, accepts, all>>
  BY DEF Hook, Initialising
<1>2. CASE UNCHANGED comms
  BY <1>1, <1>2, LinesRest DEF LinesInv, Linked
<1>3. CASE ~UNCHANGED comms
  <2>1. PICK c, m : c = Comm(m, "module", None, None) /\ comms' = Append(comms, c)
    BY <1>3 DEF Hook, Add
  <2>2. DOMAIN c = CommFields /\ c.kind = "module"
    BY <2>1 DEF Comm, CommFields
  <2>3. /\ Linked' /\ LinesKeepTheirOwn'
        /\ \A l \in DOMAIN accepts : comms'[l] = comms[l]
    BY <1>1, <2>1, <2>2, OneMoreLine
  <2>4. Parsing'
    <3>1. PICK t, n : t = Head(lines) /\ n = call
      OBVIOUS
    <3>2. Known(t, n) => Known(t, n)'
      BY <1>1, <2>3 DEF Known
    <3>3. lines # <<>> => n \in 1..Len(Calls(t)) /\ Known(t, n)
      BY <3>1 DEF LinesInv, Parsing
    <3>4. Head(lines') = t /\ call' = n /\ lines' = lines /\ lines \in Seq(Statements)
      BY <1>1, <3>1 DEF LinesInv, Parsing
    <3>5. QED
      BY <3>2, <3>3, <3>4 DEF Parsing
  <2>5. QED
    BY <1>1, <2>3, <2>4 DEF LinesInv
<1>4. QED
  BY <1>2, <1>3

LEMMA LinesStep == LinesInv /\ IsCommList /\ [Next]_svars => LinesInv'
<1> SUFFICES ASSUME LinesInv, IsCommList, [Next]_svars PROVE LinesInv'
  OBVIOUS
<1>1. CASE ConfigStep
  BY <1>1, LinesSet, LinesFile, LinesBind, LinesCommBind DEF ConfigStep
<1>2. CASE Hook
  BY <1>2, LinesHook
<1>3. CASE /\ UNCHANGED <<lines, call, static, accepts, all>>
           /\ DOMAIN comms' = DOMAIN comms
           /\ \A i \in DOMAIN comms :
                /\ DOMAIN comms'[i] = CommFields
                /\ comms'[i].kind = comms[i].kind /\ comms'[i].name = comms[i].name
                /\ comms'[i].line = comms[i].line /\ comms'[i].ip = comms[i].ip
                /\ comms'[i].mask = comms[i].mask /\ comms'[i].port = comms[i].port
  BY <1>3, LinesRest
<1>4. \A i \in DOMAIN comms : DOMAIN comms[i] = CommFields
  BY DEF LinesInv, Linked
<1>5. CASE UNCHANGED <<lines, call, static, accepts, all, comms>>
  BY <1>3, <1>4, <1>5
<1>6. CASE ConfigRead \/ Tables \/ HookFails \/ Hooked \/ Language \/ Spaces
  BY <1>5, <1>6 DEF ConfigRead, Tables, HookFails, Hooked, Language, Spaces, Initialising
<1>7. CASE Kill \/ Skips \/ Workers \/ ParentStep \/ KernelDefines
  BY <1>5, <1>7 DEF Kill, Skips, Opening, Workers, ParentStep, KernelDefines
<1>8. CASE Greets \/ GreetingFails \/ PeerSpeaks
  <2>1. UNCHANGED <<lines, call, static, accepts, all>>
    BY <1>8 DEF Greets, GreetingFails, PeerSpeaks, Opening
  <2>2. CASE Greets
    BY <1>3, <1>4, <2>1, <2>2 DEF Greets, Opening, CommFields
  <2>3. CASE GreetingFails
    BY <1>3, <1>4, <2>1, <2>3 DEF GreetingFails, Opening, CommFields
  <2>4. CASE PeerSpeaks
    BY <1>3, <1>4, <2>1, <2>4 DEF PeerSpeaks, CommFields
  <2>5. QED
    BY <1>8, <2>2, <2>3, <2>4
<1>9. CASE UNCHANGED svars
  BY <1>5, <1>9 DEF svars
<1>10. QED
  BY <1>1, <1>2, <1>6, <1>7, <1>8, <1>9 DEF Next, MainStep

LEMMA LinesInit == Init => LinesInv
<1> SUFFICES ASSUME Init PROVE LinesInv
  OBVIOUS
<1>1. Linked /\ LinesKeepTheirOwn /\ DOMAIN static = StaticFields
  BY DEF Init, Linked, LinesKeepTheirOwn, StaticFields
<1>2. Parsing
  <2>1. lines \in Configs /\ lines \in Seq(Range(lines)) /\ call = 1
    BY StatementAssumption DEF Init
  <2>2. lines \in Seq(Statements)
    BY <2>1 DEF Statements
  <2>3. PICK t : t = Head(lines)
    OBVIOUS
  <2>4. ASSUME lines # <<>> PROVE 1 \in 1..Len(Calls(t)) /\ Known(t, 1)
    <3>1. t \in Statements
      BY <2>2, <2>3, <2>4
    <3>2. 1 <= Len(Calls(t)) /\ Len(Calls(t)) \in Nat
      BY <3>1, CallsMade
    <3>3. QED
      BY <3>2 DEF Known
  <2>5. QED
    BY <2>1, <2>2, <2>3, <2>4 DEF Parsing
<1>3. QED
  BY <1>1, <1>2 DEF LinesInv

(* Whatever lines constable.conf has, and in whatever order: a connection is
   what its own line says, though mcp_conf_lang_param_out() keeps the name,
   the address, the mask, the port and the listener of the line it reads in
   static variables that outlive it; and every port has one listener.      *)
THEOREM LinesNeverMix == Spec => []LinesKeepTheirOwn
<1>1. LinesInv => LinesKeepTheirOwn
  BY DEF LinesInv
<1>2. StartInv => IsCommList
  BY DEF StartInv, IsCommList
<1>3. QED
  BY <1>1, <1>2, StartInit, StartStep, LinesInit, LinesStep, PTL DEF Spec

=============================================================================
