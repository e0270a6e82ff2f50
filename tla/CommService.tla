---------------------------- MODULE CommService ----------------------------
(***************************************************************************)
(* The threads and buffers of Comm implement AuthService.                  *)
(***************************************************************************)
EXTENDS Comm

Up(c) ==
  IF conn[c].state = 0 THEN "new"
  ELSE IF conn[c].function_init /\ c \notin initDone THEN "starting"
  ELSE "up"

(* A request is sent when it has been read, decided when do_phase is 1000. *)
Stage(r) ==
  IF decided[r] # None THEN "decided"
  ELSE IF started[r] > 0 THEN "begun"
  ELSE IF r \in seen THEN "waiting"
  ELSE "unsent"

Service == INSTANCE AuthService WITH
  up      <- [c \in Conns |-> Up(c)],
  welcome <- {c \in Conns : ready[c] > 0},
  stage   <- [r \in Requests |-> Stage(r)],
  verdict <- decided,
  replies <- answered

(* Kernels that keep to the protocol are served: every request they send   *)
(* gets one verdict and one reply, none of it before _init() is over, and  *)
(* no thread stops on the way there.                                       *)
ImplementsService == Service!Spec

(* When a connection breaks, mcp_close() frees the buffers that wait for    *)
(* answers, an _init() among them: it is never over, and the requests that *)
(* waited for it begin (mcp.c, "while (buf = ...) buf->bfree(buf)").       *)
Owed(c) == IF Up(c) = "starting" /\ ~conn[c].fd THEN "up" ELSE Up(c)

Unbound == INSTANCE AuthService WITH
  up      <- [c \in Conns |-> Owed(c)],
  welcome <- {c \in Conns : ready[c] > 0},
  stage   <- [r \in Requests |-> Stage(r)],
  verdict <- decided,
  replies <- answered

(* However a connection ends, no kernel sees a reply, or READY_ANSWER,     *)
(* that the service would not have given, and no handler begins before     *)
(* _init() is over while the connection holds.                             *)
ImplementsServiceSafely == Unbound!SafetySpec

=============================================================================
