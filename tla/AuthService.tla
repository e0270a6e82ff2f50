---------------------------- MODULE AuthService ----------------------------
(***************************************************************************)
(* What Constable promises to the kernels it serves, without threads,      *)
(* queues and buffers: a connection is initialised once; then every        *)
(* decision request gets one verdict, and one reply that carries it.       *)
(***************************************************************************)
EXTENDS Sequences

CONSTANTS Conns, Requests, ConnOf, Verdicts, None

VARIABLES
  up,       \* connection -> "new", "starting" (its _init() runs) or "up"
  welcome,  \* connections told that Constable is ready
  stage,    \* request -> "unsent", "waiting", "begun", "decided"
  verdict,  \* request -> verdict, once there is one
  replies   \* request -> the verdicts its kernel received

vars == <<up, welcome, stage, verdict, replies>>

Init ==
  /\ up = [c \in Conns |-> "new"]
  /\ welcome = {}
  /\ stage = [r \in Requests |-> "unsent"]
  /\ verdict = [r \in Requests |-> None]
  /\ replies = [r \in Requests |-> <<>>]

(* A kernel sends a request. *)
Ask(r) ==
  /\ stage[r] = "unsent"
  /\ stage' = [stage EXCEPT ![r] = "waiting"]
  /\ UNCHANGED <<up, welcome, verdict, replies>>

Connect(c) ==
  /\ up[c] = "new"
  /\ \E s \in {"starting", "up"} : up' = [up EXCEPT ![c] = s]
  /\ UNCHANGED <<welcome, stage, verdict, replies>>

Initialise(c) ==
  /\ up[c] = "starting"
  /\ up' = [up EXCEPT ![c] = "up"]
  /\ UNCHANGED <<welcome, stage, verdict, replies>>

Welcome(c) ==
  /\ up[c] = "up"
  /\ welcome' = welcome \cup {c}
  /\ UNCHANGED <<up, stage, verdict, replies>>

(* Handlers run only on an initialised connection. *)
Begin(r) ==
  /\ up[ConnOf[r]] = "up"
  /\ stage[r] = "waiting"
  /\ stage' = [stage EXCEPT ![r] = "begun"]
  /\ UNCHANGED <<up, welcome, verdict, replies>>

Decide(r) ==
  /\ up[ConnOf[r]] = "up"
  /\ stage[r] \in {"waiting", "begun"}
  /\ stage' = [stage EXCEPT ![r] = "decided"]
  /\ \E v \in Verdicts : verdict' = [verdict EXCEPT ![r] = v]
  /\ UNCHANGED <<up, welcome, replies>>

Reply(r) ==
  /\ stage[r] = "decided"
  /\ replies[r] = <<>>
  /\ replies' = [replies EXCEPT ![r] = <<verdict[r]>>]
  /\ UNCHANGED <<up, welcome, stage, verdict>>

Next ==
  \/ \E c \in Conns : Connect(c) \/ Initialise(c) \/ Welcome(c)
  \/ \E r \in Requests : Ask(r) \/ Begin(r) \/ Decide(r) \/ Reply(r)

(* A request does not wait for a connection that nobody initialises.       *)
Awaited(c) == \E r \in Requests : ConnOf[r] = c /\ stage[r] = "waiting"

Fairness ==
  /\ \A c \in Conns : /\ WF_vars(Connect(c) /\ Awaited(c))
                      /\ WF_vars(Initialise(c))
  /\ \A r \in Requests : WF_vars(Decide(r)) /\ WF_vars(Reply(r))

SafetySpec == Init /\ [][Next]_vars

Spec == SafetySpec /\ Fairness

=============================================================================
