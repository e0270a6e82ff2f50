------------------------------ MODULE Verdicts ------------------------------
(***************************************************************************)
(* The verdicts a request may get (RESULT_* of event.h), how the verdicts   *)
(* of several handlers add up, and the lists of hooks they decide between. *)
(***************************************************************************)
EXTENDS Integers

RESULT_ERR         == -1
RESULT_FORCE_ALLOW == 0
RESULT_DENY        == 1
RESULT_FAKE_ALLOW  == 2
RESULT_ALLOW       == 3

Verdicts == {RESULT_FORCE_ALLOW, RESULT_DENY, RESULT_FAKE_ALLOW, RESULT_ALLOW}
Results  == Verdicts \cup {RESULT_ERR}

VSLists     == {"VS_ALLOW", "VS_DENY"}
NotifyLists == {"NOTIFY_ALLOW", "NOTIFY_DENY"}
Lists       == VSLists \cup NotifyLists

(* A handler's value outside the four verdicts counts as a denial. *)
Verdict(new) == IF new \in Verdicts THEN new ELSE RESULT_DENY

(* evaluate_result(): the verdict after a handler said "new". *)
evaluate_result(old, new) ==
  LET v == Verdict(new) IN
  IF RESULT_DENY \in {old, v} THEN RESULT_DENY
  ELSE IF \/ old = RESULT_ERR
          \/ v = RESULT_FAKE_ALLOW
          \/ old = RESULT_ALLOW /\ v = RESULT_FORCE_ALLOW
       THEN v
       ELSE old

(* Mutation: only a plain ALLOW counts as a permission. *)
NotifyList_OnlyAllow(list, verdict) ==
  IF list = "VS_ALLOW" /\ verdict \in {RESULT_ALLOW, RESULT_ERR}
  THEN "NOTIFY_ALLOW"
  ELSE "NOTIFY_DENY"

(* do_event(): which notify list follows a decision list. *)
NotifyList(list, verdict) ==
  IF list = "VS_ALLOW" /\ verdict \notin {RESULT_DENY, RESULT_FAKE_ALLOW}
  THEN "NOTIFY_ALLOW"
  ELSE "NOTIFY_DENY"
=============================================================================
