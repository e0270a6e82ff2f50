------------------------------ MODULE Decision ------------------------------
(***************************************************************************)
(* How Constable reaches the verdict of one buffer: do_event() walks the   *)
(* hooks of a decision list and then those of a notify list, each in three *)
(* stages (hooks of the event, of the subject's tree node, of the object's *)
(* tree node).  A hook whose handler has to fetch or update a kernel object *)
(* parks the buffer; do_event() is entered again when the kernel answered  *)
(* and must go on with the very hook that was interrupted.                 *)
(*                                                                         *)
(* A buffer with event = NULL runs the _init() function instead.           *)
(***************************************************************************)
EXTENDS Verdicts, Sequences, FiniteSets

CONSTANTS
  Scripts,         \* hooks whose handler is compiled code (execute_handler)
  Enters,          \* hooks of generic_hierarchy_handler_decide
  Tracks,          \* hooks of generic_hierarchy_handler_notify
  Configurations,  \* the registrations considered: hooks by list and stage
  Returned,        \* values the configuration's handlers return
  MaxParks,        \* bound on the suspensions of one buffer
  Refetched,       \* stages whose operand a handler fetches again
  NoHook           \* execute.h = NULL

Stages      == 1..3
Hooks       == Scripts \cup Enters \cup Tracks

ASSUME DecisionAssumption ==
  /\ Returned \subseteq Int
  /\ Configurations \subseteq [Lists -> [Stages -> Seq(Hooks)]]
  /\ MaxParks \in Nat
  /\ Refetched \subseteq 2..3
  /\ NoHook \notin Hooks
  /\ Scripts \cap Enters = {} /\ Tracks \cap (Scripts \cup Enters) = {}

VARIABLES
  hooks,      \* the registered hooks, fixed when the configuration is loaded
  isInit,     \* cb->event = NULL: the buffer runs _init()
  ehh_list,   \* the list being walked
  do_phase,   \* 0, the stage of the parked hook, or 1000 once decided
  stage,      \* where do_event_list() is ...
  hh,         \* ... and which hook of that stage is next
  result,     \* context.result
  unhandled,  \* context.unhandled
  node,       \* stages whose operand has a tree node (get_tree_node # NULL)
  exec,       \* execute.h: the handler the virtual machine is busy with
  pc,         \* queued -> walking <-> parked -> decided, or stuck
  parks,      \* suspensions so far (bounded by MaxParks)
  said,       \* history: verdicts of the handlers that completed
  visited     \* history: hooks gone past since do_event() began, in order

vars == <<hooks, isInit, ehh_list, do_phase, stage, hh, result, unhandled,
          node, exec, pc, parks, said, visited>>

-----------------------------------------------------------------------------
(* The hooks the walk sees: without a tree node a stage has none. *)
Chain  == IF stage \in node THEN hooks[ehh_list][stage] ELSE <<>>
AtHook == hh \in DOMAIN Chain
Hook   == Chain[hh]

-----------------------------------------------------------------------------
Init ==
  /\ hooks \in Configurations
  /\ \/ isInit = FALSE /\ ehh_list = "VS_ALLOW"
     \/ isInit = TRUE  /\ ehh_list = "NOTIFY_ALLOW"
  /\ do_phase = 0 /\ stage = 1 /\ hh = 1
  /\ result = RESULT_ERR /\ unhandled = TRUE
  /\ node = Stages
  /\ exec = NoHook
  /\ pc = "queued"
  /\ parks = 0
  /\ said = {} /\ visited = <<>>

(* A worker enters do_event() with a fresh buffer: a decision list starts  *)
(* from "no verdict, nobody handled it".                                   *)
Enter ==
  /\ pc = "queued"
  /\ do_phase = 0
  /\ result' = RESULT_ERR /\ unhandled' = TRUE
  /\ stage' = 1 /\ hh' = 1
  /\ said' = {} /\ visited' = <<>>
  /\ pc' = "walking"
  /\ UNCHANGED <<hooks, isInit, node, ehh_list, do_phase, exec, parks>>

(* The loop goes on with the next hook of the stage. *)
Advance ==
  /\ visited' = Append(visited, <<ehh_list, stage, hh>>)
  /\ hh' = hh + 1
  /\ do_phase' = 0
  /\ UNCHANGED <<hooks, isInit, node, ehh_list, stage, pc, parks>>

Running == pc = "walking" /\ ~isInit /\ AtHook

(* The subject or the object is not a member of the hook's spaces; only    *)
(* asked before the handler starts, not when it is resumed.                *)
Mismatch ==
  /\ Running
  /\ do_phase = 0
  /\ Advance
  /\ UNCHANGED <<result, unhandled, exec, said>>

(* The handler completed with value v. *)
Completed(v) ==
  /\ result' = evaluate_result(result, v)
  /\ unhandled' = FALSE
  /\ said' = said \cup {Verdict(v)}
  /\ Advance

(* Compiled code runs to its RET.  The machine must be free or busy with   *)
(* this very handler: execute_handler() would park the buffer for ever.    *)
ScriptReturns ==
  /\ Running
  /\ Hook \in Scripts
  /\ exec \in {NoHook, Hook}
  /\ exec' = NoHook
  /\ \E v \in Returned : Completed(v)

(* Mutation: the preset ALLOW of a parked handler stays in the context. *)
ScriptParks_KeepsPreset ==
  /\ Running
  /\ Hook \in Scripts \cup Enters
  /\ exec \in {NoHook, Hook}
  /\ parks < MaxParks
  /\ parks' = parks + 1
  /\ exec' = Hook
  /\ do_phase' = stage
  /\ pc' = "parked"
  /\ result' = RESULT_ALLOW
  /\ UNCHANGED <<hooks, isInit, node, ehh_list, stage, hh, unhandled, said, visited>>

(* Compiled code sends a fetch or an update to the kernel: the preset      *)
(* result of the handler is dropped and the stage is saved.                *)
ScriptParks ==
  /\ Running
  /\ Hook \in Scripts \cup Enters
  /\ exec \in {NoHook, Hook}
  /\ parks < MaxParks
  /\ parks' = parks + 1
  /\ exec' = Hook
  /\ do_phase' = stage
  /\ pc' = "parked"
  /\ UNCHANGED <<hooks, isInit, node, ehh_list, stage, hh, result, unhandled, said, visited>>

(* The machine is still busy with another handler: the buffer is put on    *)
(* its own wake queue, which is emptied when the buffer is freed.          *)
WaitsOnItself ==
  /\ Running
  /\ Hook \in Scripts \cup Enters
  /\ exec \notin {NoHook, Hook}
  /\ do_phase' = stage
  /\ pc' = "stuck"
  /\ UNCHANGED <<hooks, isInit, node, ehh_list, stage, hh, result, unhandled,
                 exec, parks, said, visited>>

(* The path expression of a tree is evaluated and the subject may go down  *)
(* to the node (ALLOW) or lacks ENTER on it (DENY) ...                     *)
EnterDecides ==
  /\ Running
  /\ Hook \in Enters
  /\ exec \in {NoHook, Hook}
  /\ exec' = NoHook
  /\ \E v \in {RESULT_ALLOW, RESULT_DENY} : Completed(v)

(* Mutation: the machine is released on success only. *)
EnterFails_StaysBusy ==
  /\ Running
  /\ Hook \in Enters
  /\ exec \in {NoHook, Hook}
  /\ exec' = Hook
  /\ Advance
  /\ UNCHANGED <<result, unhandled, said>>

(* ... or there is no such node: the handler fails and its DENY is dropped.*)
EnterFails ==
  /\ Running
  /\ Hook \in Enters
  /\ exec \in {NoHook, Hook}
  /\ exec' = NoHook
  /\ Advance
  /\ UNCHANGED <<result, unhandled, said>>

(* The subject's node is recorded; the handler leaves the result alone and *)
(* do_event_handler() evaluates it against itself.                         *)
TrackCompletes ==
  /\ Running
  /\ Hook \in Tracks
  /\ exec' = exec
  /\ Completed(result)

(* The stage is over, or its operand has no tree node: then do_phase is    *)
(* reset, a parked hook of this stage included.                            *)
NextStage ==
  /\ pc = "walking" /\ ~isInit /\ ~AtHook
  /\ stage < 3
  /\ stage' = stage + 1
  /\ hh' = 1
  /\ do_phase' = 0
  /\ UNCHANGED <<hooks, isInit, node, ehh_list, result, unhandled, exec, pc,
                 parks, said, visited>>

(* do_event(): the decision list is over, walk the notify list. *)
SwitchToNotify ==
  /\ pc = "walking" /\ ~isInit /\ ~AtHook
  /\ stage = 3
  /\ ehh_list \in VSLists
  /\ ehh_list' = NotifyList(ehh_list, result)
  /\ stage' = 1 /\ hh' = 1
  /\ do_phase' = 0
  /\ UNCHANGED <<hooks, isInit, node, result, unhandled, exec, pc, parks, said,
                 visited>>

(* Mutation: -1 of an unhandled event puts the buffer back on the queue. *)
Decide_Requeues ==
  /\ pc = "walking" /\ ~isInit /\ ~AtHook
  /\ stage = 3
  /\ ehh_list \in NotifyLists
  /\ IF unhandled
     THEN pc' = "queued" /\ do_phase' = 0 /\ ehh_list' = "VS_ALLOW"
     ELSE pc' = "decided" /\ do_phase' = 1000 /\ ehh_list' = ehh_list
  /\ UNCHANGED <<hooks, isInit, node, stage, hh, result, unhandled, exec, parks,
                 said, visited>>

(* The notify list is over: comm_worker() marks the buffer as decided. *)
Decide ==
  /\ pc = "walking" /\ ~isInit /\ ~AtHook
  /\ stage = 3
  /\ ehh_list \in NotifyLists
  /\ do_phase' = 1000
  /\ pc' = "decided"
  /\ UNCHANGED <<hooks, isInit, node, ehh_list, stage, hh, result, unhandled, exec,
                 parks, said, visited>>

(* Mutation: the loop's next-hook step runs before the parked hook. *)
Resume_NextHook ==
  /\ pc = "parked"
  /\ pc' = "walking"
  /\ hh' = IF isInit THEN hh ELSE hh + 1
  /\ UNCHANGED <<hooks, isInit, node, ehh_list, do_phase, stage, result,
                 unhandled, exec, parks, said, visited>>

(* The kernel answered and a worker enters do_event() again: only          *)
(* do_phase = 0 resets the walk, a parked stage continues with cb->hh.  If *)
(* the handler fetched the subject or the object itself, the answer may    *)
(* have replaced the cinfo that leads to its tree node.                    *)
Resume ==
  /\ pc = "parked"
  /\ pc' = "walking"
  /\ \E lost \in SUBSET Refetched : node' = node \ lost
  /\ UNCHANGED <<hooks, isInit, ehh_list, do_phase, stage, hh, result,
                 unhandled, exec, parks, said, visited>>

(* do_init_handler(): one handler, its value is not evaluated. *)
InitReturns ==
  /\ pc = "walking" /\ isInit
  /\ result' \in Returned
  /\ do_phase' = 1000
  /\ pc' = "decided"
  /\ UNCHANGED <<hooks, isInit, node, ehh_list, stage, hh, unhandled, exec, parks,
                 said, visited>>

InitParks ==
  /\ pc = "walking" /\ isInit
  /\ parks < MaxParks
  /\ parks' = parks + 1
  /\ do_phase' = 1
  /\ pc' = "parked"
  /\ UNCHANGED <<hooks, isInit, node, ehh_list, stage, hh, result, unhandled, exec,
                 said, visited>>

(* The buffer is answered and freed, or nobody will ever wake it. *)
Done == pc \in {"decided", "stuck"} /\ UNCHANGED vars

Walk == \/ Enter \/ Mismatch \/ ScriptReturns \/ ScriptParks
        \/ WaitsOnItself \/ EnterDecides \/ EnterFails \/ TrackCompletes
        \/ NextStage \/ SwitchToNotify \/ Decide
        \/ InitReturns \/ InitParks

Next == Walk \/ Resume \/ Done

(* Workers are never stopped and the kernel answers what it was asked. *)
Spec == Init /\ [][Next]_vars /\ WF_vars(Walk) /\ WF_vars(Resume)

-----------------------------------------------------------------------------
TypeOK ==
  /\ hooks \in Configurations
  /\ isInit \in BOOLEAN
  /\ node \in SUBSET Stages
  /\ ehh_list \in Lists
  /\ do_phase \in Stages \cup {0, 1000}
  /\ stage \in Stages
  /\ hh \in Nat \ {0}
  /\ result \in IF isInit THEN Results \cup Returned ELSE Results
  /\ unhandled \in BOOLEAN
  /\ exec \in Hooks \cup {NoHook}
  /\ pc \in {"queued", "walking", "parked", "decided", "stuck"}
  /\ parks \in 0..MaxParks
  /\ said \subseteq Verdicts
  /\ visited \in Seq(Lists \X Stages \X Nat)

(* The table above evaluate_result() in event.h: a verdict is replaced by  *)
(* one further to the right in ERR, ALLOW, FORCE_ALLOW, FAKE_ALLOW, DENY,  *)
(* which is not the numeric order of the constants.                        *)
MayReplace(old, new) ==
  \/ old = RESULT_ERR /\ new # RESULT_ERR
  \/ old = RESULT_ALLOW
       /\ new \in {RESULT_FORCE_ALLOW, RESULT_FAKE_ALLOW, RESULT_DENY}
  \/ old = RESULT_FORCE_ALLOW /\ new \in {RESULT_FAKE_ALLOW, RESULT_DENY}
  \/ old = RESULT_FAKE_ALLOW /\ new = RESULT_DENY

AtMost(a, b) == a = b \/ MayReplace(a, b)

(* The verdict is the strongest one said by the handlers that completed,   *)
(* whatever the order, the suspensions and the preset results of handlers  *)
(* still running (do_event_handler() saves and restores the result).       *)
VerdictIsStrongest ==
  ~isInit => /\ said = {} <=> result = RESULT_ERR
             /\ said # {} => result \in said
             /\ \A v \in said : AtMost(v, result)

(* The verdict only ever moves up that order: in particular a denial is    *)
(* final, whatever the handlers consulted after it say.                    *)
FollowsTable ==
  [][~isInit /\ result' # result => MayReplace(result, result')]_vars

(* Every hook of the decision list and of the notify list that follows is  *)
(* gone past exactly once, in registration order, before the request is    *)
(* answered: a suspension neither skips nor repeats a hook, as long as the *)
(* operands' tree nodes stay known.                                        *)
Positions(list) ==
  LET At(s) == [i \in DOMAIN hooks[list][s] |-> <<list, s, i>>]
  IN  At(1) \o At(2) \o At(3)

EveryHookOnce ==
  pc = "decided" /\ ~isInit /\ node = Stages =>
    visited = Positions("VS_ALLOW") \o Positions(ehh_list)

(* The walk goes on with the very handler that was interrupted: the        *)
(* virtual machine belongs to the hook the walk stands at, so the branch   *)
(* of execute_handler() that puts the buffer on its own wake queue is      *)
(* never taken (comment in do_event_list(): "this cycle continues with the *)
(* same handler that was interrupted").                                    *)
MachineIsOurs ==
  /\ exec # NoHook => AtHook /\ exec = Hook /\ do_phase = stage
  /\ pc = "parked" /\ ~isInit => exec # NoHook

(* This holds as long as no handler lost a tree node by fetching the       *)
(* subject or the object again.                                            *)
HookGoesOn == node = Stages => MachineIsOurs

(* Handlers told of a denial cannot turn it into a permission: what        *)
(* follows a NOTIFY_DENY list is answered DENY or FAKE_ALLOW.              *)
NotifiedDenialStands ==
  pc = "decided" /\ ehh_list = "NOTIFY_DENY" =>
    result \in {RESULT_DENY, RESULT_FAKE_ALLOW}

(* ERR is answered only for a request no handler completed for.            *)
ErrMeansUnhandled ==
  pc # "queued" /\ ~isInit => (unhandled <=> result = RESULT_ERR)

(* Every buffer is decided in the end, provided workers run and the kernel *)
(* answers fetches and updates; only a lost tree node may keep one stuck.  *)
EventuallyDecided == <>(pc = "decided" \/ node # Stages)

=============================================================================
