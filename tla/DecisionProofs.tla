--------------------------- MODULE DecisionProofs ---------------------------
(***************************************************************************)
(* Proofs about Decision, for every registration of hooks, every set of    *)
(* returned values and any number of suspensions.                          *)
(*                                                                         *)
(* The second part shows that do_event() goes past every registered hook   *)
(* exactly once, in registration order, however many hooks there are and   *)
(* however often the walk is suspended.  What was visited is, at every     *)
(* moment, the hooks of the lists and stages left behind and the first     *)
(* hh - 1 of this stage.                                                   *)
(***************************************************************************)
EXTENDS Decision, SequenceTheorems, TLAPS

(* The combined verdict is one of the four verdicts, whatever a handler    *)
(* returned: ERR never comes out of evaluate_result() (event.c).           *)
LEMMA EvaluateType ==
  ASSUME NEW old \in Results, NEW new \in Int
  PROVE  /\ evaluate_result(old, new) \in Verdicts
         /\ Verdict(new) \in Verdicts
BY DEF evaluate_result, Verdict, Results, Verdicts, RESULT_ERR,
       RESULT_FORCE_ALLOW, RESULT_DENY, RESULT_FAKE_ALLOW, RESULT_ALLOW

(* evaluate_result() picks the stronger of its two arguments.              *)
THEOREM EvaluateIsStronger ==
  ASSUME NEW old \in Results, NEW new \in Int
  PROVE  /\ evaluate_result(old, new) \in {old, Verdict(new)}
         /\ AtMost(old, evaluate_result(old, new))
         /\ AtMost(Verdict(new), evaluate_result(old, new))
BY DEF evaluate_result, Verdict, Results, Verdicts, AtMost, MayReplace,
       RESULT_ERR, RESULT_FORCE_ALLOW, RESULT_DENY, RESULT_FAKE_ALLOW,
       RESULT_ALLOW

(* The order in which two handlers are consulted does not matter.          *)
THEOREM EvaluateCommutes ==
  ASSUME NEW old \in Results, NEW a \in Int, NEW b \in Int
  PROVE  evaluate_result(evaluate_result(old, a), b)
           = evaluate_result(evaluate_result(old, b), a)
BY DEF evaluate_result, Verdict, Results, Verdicts, RESULT_ERR,
       RESULT_FORCE_ALLOW, RESULT_DENY, RESULT_FAKE_ALLOW, RESULT_ALLOW

LEMMA AtMostTransitive ==
  ASSUME NEW a \in Results, NEW b \in Results, NEW c \in Results,
         AtMost(a, b), AtMost(b, c)
  PROVE  AtMost(a, c)
BY DEF AtMost, MayReplace, Results, Verdicts, RESULT_ERR,
       RESULT_FORCE_ALLOW, RESULT_DENY, RESULT_FAKE_ALLOW, RESULT_ALLOW

LEMMA ErrIsNoVerdict == RESULT_ERR \notin Verdicts
BY DEF Verdicts, RESULT_ERR, RESULT_FORCE_ALLOW, RESULT_DENY,
       RESULT_FAKE_ALLOW, RESULT_ALLOW

LEMMA ResultsAreIntegers == Results \subseteq Int
BY DEF Results, Verdicts, RESULT_ERR, RESULT_FORCE_ALLOW, RESULT_DENY,
       RESULT_FAKE_ALLOW, RESULT_ALLOW

-----------------------------------------------------------------------------
(* What the variables hold.                                                *)
LEMMA TypeStep == TypeOK /\ [Next]_vars => TypeOK'
<1> SUFFICES ASSUME TypeOK, [Next]_vars PROVE TypeOK'
  OBVIOUS
<1> USE DEF TypeOK
<1>0. Returned \subseteq Int /\ MaxParks \in Nat /\ Hooks = Scripts \cup Enters \cup Tracks
  BY DecisionAssumption DEF Hooks
<1>1. ASSUME NEW v \in Int, ~isInit, Completed(v), exec' \in Hooks \cup {NoHook}
      PROVE  TypeOK'
  <2>1. result' \in Verdicts /\ Verdict(v) \in Verdicts
    BY <1>1, EvaluateType DEF Completed
  <2>2. <<ehh_list, stage, hh>> \in Lists \X Stages \X Nat
    OBVIOUS
  <2>3. visited' \in Seq(Lists \X Stages \X Nat)
    BY <1>1, <2>2 DEF Completed, Advance
  <2>4. hh' \in Nat \ {0}
    BY <1>1 DEF Completed, Advance
  <2>5. result' \in Results /\ ~isInit' /\ said' \subseteq Verdicts
    BY <1>1, <2>1 DEF Completed, Advance, Results
  <2>6. unhandled' \in BOOLEAN
    BY <1>1 DEF Completed
  <2> QED BY <1>1, <2>3, <2>4, <2>5, <2>6 DEF Completed, Advance
<1>2. ASSUME Advance, exec' \in Hooks \cup {NoHook}, UNCHANGED <<result, unhandled, said>>
      PROVE  TypeOK'
  <2>1. <<ehh_list, stage, hh>> \in Lists \X Stages \X Nat
    OBVIOUS
  <2>2. visited' \in Seq(Lists \X Stages \X Nat)
    BY <1>2, <2>1 DEF Advance
  <2>3. hh' \in Nat \ {0}
    BY <1>2 DEF Advance
  <2> QED BY <1>2, <2>2, <2>3 DEF Advance
<1>3. CASE Enter
  BY <1>3 DEF Enter, Results, Stages
<1>4. CASE Mismatch
  BY <1>2, <1>4 DEF Mismatch
<1>5. CASE ScriptReturns
  BY <1>0, <1>1, <1>5 DEF ScriptReturns, Running
<1>6. CASE ScriptParks
  BY <1>0, <1>6 DEF ScriptParks
<1>7. CASE WaitsOnItself
  BY <1>7 DEF WaitsOnItself
<1>8. CASE EnterDecides
  BY <1>1, <1>8 DEF EnterDecides, Running, RESULT_ALLOW, RESULT_DENY
<1>9. CASE EnterFails
  BY <1>2, <1>9 DEF EnterFails
<1>10. CASE TrackCompletes
  BY <1>1, <1>10, ResultsAreIntegers DEF TrackCompletes, Running
<1>11. CASE NextStage
  BY <1>11 DEF NextStage, Stages
<1>12. CASE SwitchToNotify
  BY <1>12 DEF SwitchToNotify, NotifyList, Lists, NotifyLists, Stages
<1>13. CASE Decide
  BY <1>13 DEF Decide
<1>14. CASE InitReturns
  BY <1>14 DEF InitReturns
<1>15. CASE InitParks
  BY <1>0, <1>15 DEF InitParks, Stages
<1>16. CASE Resume
  BY <1>16 DEF Resume
<1>17. CASE Done \/ UNCHANGED vars
  BY <1>17 DEF Done, vars
<1> QED
  BY <1>3, <1>4, <1>5, <1>6, <1>7, <1>8, <1>9, <1>10, <1>11, <1>12, <1>13,
     <1>14, <1>15, <1>16, <1>17 DEF Next, Walk

LEMMA TypingInit == Init => TypeOK
<1> SUFFICES ASSUME Init PROVE TypeOK
  OBVIOUS
<1>1. visited \in Seq(Lists \X Stages \X Nat)
  BY DEF Init
<1>2. parks \in 0..MaxParks
  BY DecisionAssumption DEF Init
<1>3. result \in (IF isInit THEN Results \cup Returned ELSE Results)
  BY DEF Init, Results
<1>4. isInit \in BOOLEAN /\ unhandled \in BOOLEAN
  BY DEF Init
<1>5. ehh_list \in Lists
  BY DEF Init, Lists, VSLists, NotifyLists
<1>6. stage \in Stages /\ hh \in Nat \ {0} /\ do_phase \in Stages \cup {0, 1000}
  BY DEF Init, Stages
<1> QED
  BY <1>1, <1>2, <1>3, <1>4, <1>5, <1>6 DEF Init, TypeOK

(* TypeOK holds of every behaviour.                                        *)
THEOREM Typing == Spec => []TypeOK
BY TypingInit, TypeStep, PTL DEF Spec

-----------------------------------------------------------------------------
(* The inductive strengthening of the verdict invariants: besides them it  *)
(* says that nothing was decided about a buffer no worker has seen.        *)
QueuedIsFresh == pc = "queued" => said = {} /\ unhandled /\ result = RESULT_ERR

VerdictInv ==
  TypeOK /\ VerdictIsStrongest /\ ErrMeansUnhandled /\ QueuedIsFresh

(* A completed handler keeps the verdict the strongest one said.           *)
LEMMA CompletedStep ==
  ASSUME VerdictInv, ~isInit, pc = "walking", UNCHANGED isInit,
         NEW v \in Int, Completed(v)
  PROVE  VerdictIsStrongest' /\ ErrMeansUnhandled' /\ QueuedIsFresh'
<1>1. result \in Results /\ said \subseteq Verdicts
  BY DEF VerdictInv, TypeOK
<1>2. /\ result' = evaluate_result(result, v)
      /\ unhandled' = FALSE
      /\ said' = said \cup {Verdict(v)}
      /\ pc' = pc
  BY DEF Completed, Advance
<1>3. /\ result' \in Verdicts /\ result' \in Results /\ Verdict(v) \in Verdicts
      /\ result' # RESULT_ERR
  BY <1>1, <1>2, EvaluateType, ErrIsNoVerdict DEF Results
<1>4. /\ result' \in {result, Verdict(v)}
      /\ AtMost(result, result')
      /\ AtMost(Verdict(v), result')
  BY <1>1, <1>2, EvaluateIsStronger
<1>5. result' \in said'
  BY <1>2, <1>3, <1>4 DEF VerdictInv, VerdictIsStrongest
<1>6. ASSUME NEW u \in said' PROVE AtMost(u, result')
  <2>1. CASE u \in said
    BY <1>1, <1>3, <1>4, <2>1, AtMostTransitive
       DEF VerdictInv, VerdictIsStrongest, Results
  <2>2. CASE u = Verdict(v)
    BY <1>4, <2>2
  <2> QED BY <1>2, <1>6, <2>1, <2>2
<1>7. VerdictIsStrongest'
  BY <1>3, <1>5, <1>6 DEF VerdictIsStrongest
<1>8. ErrMeansUnhandled'
  BY <1>2, <1>3 DEF ErrMeansUnhandled
<1>9. QueuedIsFresh'
  BY <1>2 DEF QueuedIsFresh
<1> QED BY <1>7, <1>8, <1>9

LEMMA VerdictStep == VerdictInv /\ [Next]_vars => VerdictInv'
<1> SUFFICES ASSUME VerdictInv, [Next]_vars
             PROVE  VerdictIsStrongest' /\ ErrMeansUnhandled' /\ QueuedIsFresh'
  BY TypeStep DEF VerdictInv
<1> DEFINE Goal == VerdictIsStrongest' /\ ErrMeansUnhandled' /\ QueuedIsFresh'
<1>1. ASSUME UNCHANGED <<isInit, result, said, unhandled>>,
             pc # "queued", pc' # "queued"
      PROVE  Goal
  BY <1>1 DEF VerdictInv, VerdictIsStrongest, ErrMeansUnhandled, QueuedIsFresh
<1>2. CASE Enter
  <2>1. /\ result' = RESULT_ERR /\ unhandled' = TRUE /\ said' = {}
        /\ pc' = "walking"
    BY <1>2 DEF Enter
  <2>2. VerdictIsStrongest'
    BY <2>1 DEF VerdictIsStrongest
  <2>3. ErrMeansUnhandled'
    BY <2>1 DEF ErrMeansUnhandled
  <2>4. QueuedIsFresh'
    BY <2>1 DEF QueuedIsFresh
  <2> QED BY <2>2, <2>3, <2>4
<1>3. CASE ScriptReturns
  BY <1>3, CompletedStep, DecisionAssumption
     DEF ScriptReturns, Running, Completed, Advance
<1>4. CASE EnterDecides
  <2>1. PICK v \in {RESULT_ALLOW, RESULT_DENY} : Completed(v)
    BY <1>4 DEF EnterDecides
  <2>2. v \in Int
    BY DEF RESULT_ALLOW, RESULT_DENY
  <2>3. ~isInit /\ pc = "walking" /\ UNCHANGED isInit
    BY <1>4, <2>1 DEF EnterDecides, Running, Completed, Advance
  <2> QED BY <2>1, <2>2, <2>3, CompletedStep
<1>5. CASE TrackCompletes
  <2>1. result \in Int
    BY <1>5, ResultsAreIntegers
       DEF TrackCompletes, Running, VerdictInv, TypeOK
  <2> QED BY <1>5, <2>1, CompletedStep DEF TrackCompletes, Running, Completed, Advance
<1>6. CASE Mismatch \/ EnterFails
  BY <1>1, <1>6 DEF Mismatch, EnterFails, Running, Advance
<1>7. CASE ScriptParks \/ WaitsOnItself
  BY <1>1, <1>7 DEF ScriptParks, WaitsOnItself, Running
<1>8. CASE NextStage \/ SwitchToNotify \/ Decide
  BY <1>1, <1>8 DEF NextStage, SwitchToNotify, Decide
<1>9. CASE InitReturns
  BY <1>9 DEF InitReturns, VerdictInv, VerdictIsStrongest, ErrMeansUnhandled,
              QueuedIsFresh
<1>10. CASE InitParks \/ Resume
  BY <1>1, <1>10 DEF InitParks, Resume
<1>11. CASE Done \/ UNCHANGED vars
  BY <1>11 DEF Done, vars, VerdictInv, VerdictIsStrongest, ErrMeansUnhandled,
               QueuedIsFresh
<1> QED
  BY <1>2, <1>3, <1>4, <1>5, <1>6, <1>7, <1>8, <1>9, <1>10, <1>11
     DEF Next, Walk

LEMMA VerdictInvariant == Spec => []VerdictInv
<1>1. Init => VerdictInv
  BY TypingInit DEF Init, VerdictInv, VerdictIsStrongest, ErrMeansUnhandled,
     QueuedIsFresh
<1> QED
  BY <1>1, VerdictStep, PTL DEF Spec

(* The answer is the strongest verdict said, however many handlers there   *)
(* are, whatever they return and however often they were suspended.        *)
THEOREM Strongest == Spec => []VerdictIsStrongest
BY VerdictInvariant, PTL DEF VerdictInv

(* ERR is answered exactly when no handler completed.                      *)
THEOREM ErrOnlyUnhandled == Spec => []ErrMeansUnhandled
BY VerdictInvariant, PTL DEF VerdictInv

(* No step takes back a verdict: each change goes up the order of event.h. *)
THEOREM TableFollowed == Spec => FollowsTable
<1> DEFINE Up == ~isInit /\ result' # result => MayReplace(result, result')
<1>1. ASSUME VerdictInv, [Next]_vars PROVE [Up]_vars
  <2> SUFFICES ASSUME Next, ~isInit, result' # result
               PROVE  MayReplace(result, result')
    BY <1>1
  <2>1. result \in Results
    BY <1>1 DEF VerdictInv, TypeOK
  <2>2. ASSUME NEW v \in Int, Completed(v) PROVE MayReplace(result, result')
    BY <2>1, <2>2, EvaluateIsStronger DEF Completed, AtMost
  <2>3. CASE ScriptReturns
    BY <2>2, <2>3, DecisionAssumption DEF ScriptReturns
  <2>4. CASE EnterDecides
    <3>1. PICK v \in {RESULT_ALLOW, RESULT_DENY} : Completed(v)
      BY <2>4 DEF EnterDecides
    <3> QED BY <2>2, <3>1 DEF RESULT_ALLOW, RESULT_DENY
  <2>5. CASE TrackCompletes
    BY <2>1, <2>2, <2>5, ResultsAreIntegers DEF TrackCompletes
  <2>6. CASE Enter
    BY <1>1, <2>6 DEF Enter, VerdictInv, QueuedIsFresh
  <2>7. ~(InitReturns \/ Done)
    BY DEF InitReturns, Done, vars
  <2> QED
    BY <2>3, <2>4, <2>5, <2>6, <2>7
       DEF Next, Walk, Mismatch, Advance, ScriptParks, WaitsOnItself,
           EnterFails, NextStage, SwitchToNotify, Decide, InitParks, Resume
<1> QED
  BY <1>1, VerdictInvariant, PTL DEF Spec, FollowsTable

-----------------------------------------------------------------------------
(* What a suspended machine is tied to, while the nodes of all operands    *)
(* are known.                                                              *)
MachineTied ==
  /\ MachineIsOurs
  /\ exec # NoHook => exec \in Scripts \cup Enters
  /\ pc = "queued" => exec = NoHook
  /\ isInit => exec = NoHook

MachineInv == TypeOK /\ (node = Stages => MachineTied)

(* A node that was lost is never found again. *)
LEMMA NodesShrink ==
  TypeOK /\ [Next]_vars /\ node' = Stages => node = Stages
<1> SUFFICES ASSUME TypeOK, [Next]_vars, node' = Stages PROVE node = Stages
  OBVIOUS
<1>1. node \subseteq Stages
  BY DEF TypeOK
<1>2. CASE Resume
  BY <1>1, <1>2 DEF Resume
<1>3. CASE Walk \/ Done \/ UNCHANGED vars
  <2>1. node' = node
    BY <1>3
       DEF Walk, Enter, Mismatch, Advance, ScriptReturns, Completed,
           ScriptParks, WaitsOnItself, EnterDecides, EnterFails,
           TrackCompletes, NextStage, SwitchToNotify, Decide, InitReturns,
           InitParks, Done, vars
  <2> QED BY <2>1
<1> QED BY <1>2, <1>3 DEF Next

LEMMA MachineStep == MachineInv /\ [Next]_vars => MachineInv'
<1> SUFFICES ASSUME TypeOK, TypeOK', MachineTied, [Next]_vars,
                    node = Stages, node' = Stages
             PROVE  MachineTied'
  BY TypeStep, NodesShrink DEF MachineInv
<1>1. TypeOK /\ TypeOK'
  OBVIOUS
<1> USE DEF MachineTied, MachineIsOurs
<1>2. ASSUME exec' = NoHook, pc' # "parked" PROVE MachineTied'
  BY <1>1, <1>2
<1>3. NoHook \notin Hooks
  BY DecisionAssumption
<1>4. CASE Enter
  BY <1>2, <1>4 DEF Enter
<1>5. CASE Mismatch
  <2>1. exec = NoHook
    BY <1>1, <1>5 DEF Mismatch, TypeOK, Stages
  <2> QED BY <1>2, <1>5, <2>1 DEF Mismatch, Advance, Running
<1>6. CASE ScriptReturns \/ EnterDecides \/ EnterFails
  BY <1>2, <1>6
     DEF ScriptReturns, EnterDecides, EnterFails, Completed, Advance, Running
<1>7. CASE ScriptParks
  <2>1. AtHook' /\ Hook' = Hook
    BY <1>7 DEF ScriptParks, Running, AtHook, Hook, Chain
  <2>2. Hook # NoHook
    BY <1>3, <1>7 DEF ScriptParks, Hooks
  <2> QED BY <1>1, <1>7, <2>1, <2>2 DEF ScriptParks, Running
<1>8. CASE WaitsOnItself
  BY <1>8 DEF WaitsOnItself
<1>9. CASE TrackCompletes
  <2>1. exec = NoHook
    BY <1>9, DecisionAssumption DEF TrackCompletes
  <2> QED BY <1>2, <1>9, <2>1 DEF TrackCompletes, Completed, Advance, Running
<1>10. CASE NextStage \/ SwitchToNotify \/ Decide
  <2>1. exec = NoHook
    BY <1>10 DEF NextStage, SwitchToNotify, Decide
  <2> QED BY <1>2, <1>10, <2>1 DEF NextStage, SwitchToNotify, Decide
<1>11. CASE InitReturns
  BY <1>2, <1>11 DEF InitReturns
<1>12. CASE InitParks
  BY <1>1, <1>12 DEF InitParks
<1>13. CASE Resume
  <2>2. AtHook' = AtHook /\ Hook' = Hook
    BY <1>13 DEF Resume, AtHook, Hook, Chain
  <2> QED BY <1>1, <1>13, <2>2 DEF Resume
<1>14. CASE Done \/ UNCHANGED vars
  <2>1. AtHook' = AtHook /\ Hook' = Hook
    BY <1>14 DEF Done, vars, AtHook, Hook, Chain
  <2> QED BY <1>1, <1>14, <2>1 DEF Done, vars
<1> QED
  BY <1>4, <1>5, <1>6, <1>7, <1>8, <1>9, <1>10, <1>11, <1>12, <1>13, <1>14
     DEF Next, Walk

(* A handler that was interrupted is the one that is continued, in every   *)
(* registration and after any number of suspensions, unless a tree node is *)
(* lost in between.                                                        *)
THEOREM MachineOwned == Spec => []HookGoesOn
<1>1. Init => MachineInv
  BY TypingInit DEF Init, MachineInv, MachineTied, MachineIsOurs
<1>2. MachineInv => HookGoesOn
  BY DEF MachineInv, MachineTied, HookGoesOn
<1> QED
  BY <1>1, <1>2, MachineStep, PTL DEF Spec

-----------------------------------------------------------------------------
(* From the switch to the NOTIFY_DENY list on, the verdict refuses.        *)
Refusals == {RESULT_DENY, RESULT_FAKE_ALLOW}

DenialInv ==
  /\ TypeOK
  /\ ehh_list # "VS_DENY"
  /\ ehh_list = "NOTIFY_DENY" => ~isInit /\ pc # "queued" /\ result \in Refusals
  /\ isInit => ehh_list = "NOTIFY_ALLOW"

LEMMA RefusalStands ==
  ASSUME NEW old \in Refusals, NEW new \in Int
  PROVE  evaluate_result(old, new) \in Refusals
BY DEF Refusals, evaluate_result, Verdict, Verdicts, RESULT_ERR,
       RESULT_FORCE_ALLOW, RESULT_DENY, RESULT_FAKE_ALLOW, RESULT_ALLOW

LEMMA DenialStep == DenialInv /\ [Next]_vars => DenialInv'
<1> SUFFICES ASSUME DenialInv, [Next]_vars PROVE DenialInv'
  OBVIOUS
<1>1. TypeOK /\ TypeOK'
  BY TypeStep DEF DenialInv
<1> USE DEF DenialInv
<1>2. ASSUME UNCHANGED <<isInit, ehh_list>>, pc # "queued", pc' # "queued",
             ehh_list = "NOTIFY_DENY" => result' \in Refusals
      PROVE  DenialInv'
  BY <1>1, <1>2
<1>3. ASSUME NEW v \in Int, pc = "walking", Completed(v) PROVE DenialInv'
  BY <1>2, <1>3, RefusalStands DEF Completed, Advance
<1>4. CASE Enter
  BY <1>1, <1>4 DEF Enter
<1>5. CASE ScriptReturns
  BY <1>3, <1>5, DecisionAssumption DEF ScriptReturns, Running
<1>6. CASE EnterDecides
  <2>1. PICK v \in {RESULT_ALLOW, RESULT_DENY} : Completed(v)
    BY <1>6 DEF EnterDecides
  <2> QED BY <1>3, <1>6, <2>1 DEF EnterDecides, Running, RESULT_ALLOW, RESULT_DENY
<1>7. CASE TrackCompletes
  <2>1. result \in Int
    BY <1>1, <1>7, ResultsAreIntegers DEF TrackCompletes, Running, TypeOK
  <2> QED BY <1>3, <1>7, <2>1 DEF TrackCompletes, Running
<1>8. CASE Mismatch \/ EnterFails
  BY <1>2, <1>8 DEF Mismatch, EnterFails, Advance, Running
<1>9. CASE ScriptParks \/ WaitsOnItself
  BY <1>2, <1>9 DEF ScriptParks, WaitsOnItself, Running
<1>10. CASE NextStage \/ Decide \/ InitParks \/ Resume
  BY <1>2, <1>10 DEF NextStage, Decide, InitParks, Resume
<1>11. CASE SwitchToNotify
  <2>1. ehh_list = "VS_ALLOW" /\ ehh_list' = NotifyList(ehh_list, result)
    BY <1>11 DEF SwitchToNotify, VSLists
  <2>2. ehh_list' = "NOTIFY_DENY" => result \in Refusals
    BY <2>1 DEF NotifyList, Refusals
  <2> QED BY <1>1, <1>11, <2>1, <2>2 DEF SwitchToNotify, NotifyList
<1>12. CASE InitReturns
  BY <1>1, <1>12 DEF InitReturns
<1>13. CASE Done \/ UNCHANGED vars
  BY <1>1, <1>13 DEF Done, vars
<1> QED
  BY <1>4, <1>5, <1>6, <1>7, <1>8, <1>9, <1>10, <1>11, <1>12, <1>13
     DEF Next, Walk

(* Once the handlers registered for a refusal are being told of it, no     *)
(* handler can turn the answer into a permission.                          *)
THEOREM DenialStands == Spec => []NotifiedDenialStands
<1>1. Init => DenialInv
  BY TypingInit DEF Init, DenialInv
<1>2. DenialInv => NotifiedDenialStands
  BY DEF DenialInv, NotifiedDenialStands, Refusals
<1> QED
  BY <1>1, <1>2, DenialStep, PTL DEF Spec

-----------------------------------------------------------------------------
(* The walk *)

Places == Lists \X Stages \X Nat

(* The first n hooks of a stage; those of a list up to there.              *)
First(l, s, n) == [i \in 1..n |-> <<l, s, i>>]
Count(l, s) == Len(hooks[l][s])
Gone(l, s, n) ==
  IF s = 1 THEN First(l, 1, n)
  ELSE IF s = 2 THEN First(l, 1, Count(l, 1)) \o First(l, 2, n)
  ELSE First(l, 1, Count(l, 1)) \o First(l, 2, Count(l, 2)) \o First(l, 3, n)

(* The decision list is over when a notify list is walked.                 *)
Before(l) == IF l \in NotifyLists THEN Positions("VS_ALLOW") ELSE <<>>

-----------------------------------------------------------------------------
LEMMA AppendRight ==
  ASSUME NEW a \in Seq(Places), NEW b \in Seq(Places), NEW x \in Places
  PROVE  Append(a \o b, x) = a \o Append(b, x)
<1> HIDE DEF Places
<1>1. /\ a \o b \in Seq(Places) /\ Len(a \o b) = Len(a) + Len(b)
      /\ Len(a) \in Nat /\ Len(b) \in Nat
  BY ConcatProperties, LenProperties
<1>2. /\ Append(b, x) \in Seq(Places) /\ Len(Append(b, x)) = Len(b) + 1
      /\ Append(a \o b, x) \in Seq(Places) /\ Len(Append(a \o b, x)) = Len(a) + Len(b) + 1
  BY <1>1
<1>3. /\ a \o Append(b, x) \in Seq(Places)
      /\ Len(a \o Append(b, x)) = Len(a) + Len(b) + 1
  BY <1>1, <1>2, ConcatProperties
<1>4. ASSUME NEW i \in 1..(Len(a) + Len(b) + 1)
      PROVE  Append(a \o b, x)[i] = (a \o Append(b, x))[i]
  <2>1. (a \o Append(b, x))[i] = IF i <= Len(a) THEN a[i] ELSE Append(b, x)[i - Len(a)]
    <3> DEFINE bx == Append(b, x)
    <3>1. bx \in Seq(Places) /\ i \in 1..(Len(a) + Len(bx))
      BY <1>1, <1>2
    <3> HIDE DEF bx
    <3>2. (a \o bx)[i] = IF i <= Len(a) THEN a[i] ELSE bx[i - Len(a)]
      BY <3>1, ConcatProperties
    <3>3. QED
      BY <3>2 DEF bx
  <2>2. CASE i = Len(a) + Len(b) + 1
    <3>1. Append(a \o b, x)[i] = x
      <4> DEFINE ab == a \o b
      <4>1. ab \in Seq(Places) /\ i = Len(ab) + 1
        BY <1>1, <2>2
      <4> HIDE DEF ab
      <4>2. Append(ab, x)[i] = x
        BY <4>1
      <4>3. QED
        BY <4>2 DEF ab
    <3>2. ~(i <= Len(a)) /\ i - Len(a) = Len(b) + 1
      BY <1>1, <2>2
    <3>3. Append(b, x)[Len(b) + 1] = x
      BY <1>1
    <3>4. QED
      BY <2>1, <3>1, <3>2, <3>3
  <2>3. CASE i \in 1..(Len(a) + Len(b))
    <3>1. Append(a \o b, x)[i] = (a \o b)[i]
      BY <1>1, <2>3
    <3>2. (a \o b)[i] = IF i <= Len(a) THEN a[i] ELSE b[i - Len(a)]
      BY <1>1, <2>3, ConcatProperties
    <3>3. ASSUME ~(i <= Len(a)) PROVE Append(b, x)[i - Len(a)] = b[i - Len(a)]
      <4>1. i - Len(a) \in 1..Len(b)
        BY <1>1, <2>3, <3>3
      <4>2. QED
        BY <1>1, <4>1
    <3>4. QED
      BY <2>1, <3>1, <3>2, <3>3
  <2>4. i = Len(a) + Len(b) + 1 \/ i \in 1..(Len(a) + Len(b))
    BY <1>1
  <2>5. QED
    BY <2>2, <2>3, <2>4
<1>5. QED
  BY <1>2, <1>3, <1>4, SeqEqual

LEMMA FirstIsSeq ==
  ASSUME NEW l \in Lists, NEW s \in Stages, NEW n \in Nat
  PROVE  First(l, s, n) \in Seq(Places) /\ Len(First(l, s, n)) = n
BY DEF First, Places

LEMMA FirstNext ==
  ASSUME NEW l \in Lists, NEW s \in Stages, NEW n \in Nat
  PROVE  Append(First(l, s, n), <<l, s, n + 1>>) = First(l, s, n + 1)
<1>1. <<l, s, n + 1>> \in Places
  BY DEF Places
<1>2. /\ First(l, s, n) \in Seq(Places) /\ Len(First(l, s, n)) = n
      /\ First(l, s, n + 1) \in Seq(Places) /\ Len(First(l, s, n + 1)) = n + 1
  BY FirstIsSeq
<1>3. /\ Append(First(l, s, n), <<l, s, n + 1>>) \in Seq(Places)
      /\ Len(Append(First(l, s, n), <<l, s, n + 1>>)) = n + 1
  BY <1>1, <1>2
<1>4. ASSUME NEW i \in 1..(n + 1)
      PROVE  Append(First(l, s, n), <<l, s, n + 1>>)[i] = First(l, s, n + 1)[i]
  <2>1. First(l, s, n + 1)[i] = <<l, s, i>>
    BY DEF First
  <2>2. CASE i = n + 1
    BY <1>1, <1>2, <2>1, <2>2
  <2>3. CASE i \in 1..n
    <3>1. Append(First(l, s, n), <<l, s, n + 1>>)[i] = First(l, s, n)[i]
      BY <1>1, <1>2, <2>3
    <3>2. First(l, s, n)[i] = <<l, s, i>>
      BY <2>3 DEF First
    <3>3. QED
      BY <2>1, <3>1, <3>2
  <2>4. i = n + 1 \/ i \in 1..n
    OBVIOUS
  <2>5. QED
    BY <2>2, <2>3, <2>4
<1>5. QED
  BY <1>2, <1>3, <1>4, SeqEqual

LEMMA CountIsNat ==
  ASSUME TypeOK, NEW l \in Lists, NEW s \in Stages
  PROVE  Count(l, s) \in Nat /\ DOMAIN hooks[l][s] = 1..Count(l, s)
<1>1. hooks[l][s] \in Seq(Hooks)
  BY DecisionAssumption DEF TypeOK
<1>2. QED
  BY <1>1, LenProperties DEF Count

LEMMA GoneIsSeq ==
  ASSUME TypeOK, NEW l \in Lists, NEW s \in Stages, NEW n \in Nat
  PROVE  Gone(l, s, n) \in Seq(Places)
<1>1. \A t \in Stages : First(l, t, Count(l, t)) \in Seq(Places) /\ First(l, t, n) \in Seq(Places)
  BY FirstIsSeq, CountIsNat
<1>2. First(l, 1, Count(l, 1)) \o First(l, 2, Count(l, 2)) \in Seq(Places)
  BY <1>1, ConcatProperties DEF Stages
<1>3. QED
  BY <1>1, <1>2, ConcatProperties DEF Gone, Stages

(* Going past a hook.                                                      *)
LEMMA GoneNext ==
  ASSUME TypeOK, NEW l \in Lists, NEW s \in Stages, NEW n \in Nat
  PROVE  Append(Gone(l, s, n), <<l, s, n + 1>>) = Gone(l, s, n + 1)
<1>1. \A t \in Stages : First(l, t, Count(l, t)) \in Seq(Places) /\ First(l, t, n) \in Seq(Places)
  BY FirstIsSeq, CountIsNat
<1>2. First(l, 1, Count(l, 1)) \o First(l, 2, Count(l, 2)) \in Seq(Places)
  BY <1>1, ConcatProperties DEF Stages
<1>3. \A t \in Stages : <<l, t, n + 1>> \in Places
  BY DEF Places
<1>4. CASE s = 1
  BY <1>4, FirstNext DEF Gone
<1>5. CASE s = 2
  <2>1. Append(First(l, 1, Count(l, 1)) \o First(l, 2, n), <<l, 2, n + 1>>)
          = First(l, 1, Count(l, 1)) \o Append(First(l, 2, n), <<l, 2, n + 1>>)
    <3>1. /\ First(l, 1, Count(l, 1)) \in Seq(Places) /\ First(l, 2, n) \in Seq(Places)
          /\ <<l, 2, n + 1>> \in Places
      BY <1>1, <1>3 DEF Stages
    <3>2. QED
      BY <3>1, AppendRight
  <2>2. QED
    BY <1>5, <2>1, FirstNext DEF Gone, Stages
<1>6. CASE s = 3
  <2>1. Append((First(l, 1, Count(l, 1)) \o First(l, 2, Count(l, 2))) \o First(l, 3, n),
               <<l, 3, n + 1>>)
          = (First(l, 1, Count(l, 1)) \o First(l, 2, Count(l, 2)))
              \o Append(First(l, 3, n), <<l, 3, n + 1>>)
    <3>1. First(l, 3, n) \in Seq(Places) /\ <<l, 3, n + 1>> \in Places
      BY <1>1, <1>3 DEF Stages
    <3>2. QED
      BY <1>2, <3>1, AppendRight
  <2>2. Append(First(l, 3, n), <<l, 3, n + 1>>) = First(l, 3, n + 1)
    <3>1. 3 \in Stages
      BY DEF Stages
    <3>2. QED
      BY <3>1, FirstNext
  <2>3. \A m : Gone(l, s, m)
           = (First(l, 1, Count(l, 1)) \o First(l, 2, Count(l, 2))) \o First(l, 3, m)
    BY <1>6 DEF Gone
  <2>4. QED
    BY <1>6, <2>1, <2>2, <2>3
<1>7. QED
  BY <1>4, <1>5, <1>6 DEF Stages

LEMMA NoneGone ==
  ASSUME NEW l \in Lists, NEW s \in Stages
  PROVE  First(l, s, 0) = <<>>
BY FirstIsSeq, EmptySeq DEF First

(* A finished stage is the beginning of the next one.                      *)
LEMMA GoneStage ==
  ASSUME TypeOK, NEW l \in Lists, NEW s \in 1..2
  PROVE  Gone(l, s, Count(l, s)) = Gone(l, s + 1, 0)
<1>1. \A t \in Stages : First(l, t, Count(l, t)) \in Seq(Places)
  BY FirstIsSeq, CountIsNat
<1>2. First(l, 1, Count(l, 1)) \o First(l, 2, Count(l, 2)) \in Seq(Places)
  BY <1>1, ConcatProperties DEF Stages
<1>3. First(l, 2, 0) = <<>> /\ First(l, 3, 0) = <<>>
  BY NoneGone DEF Stages
<1>4. CASE s = 1
  BY <1>1, <1>3, <1>4, ConcatEmptySeq DEF Gone, Stages
<1>5. CASE s = 2
  BY <1>2, <1>3, <1>5, ConcatEmptySeq DEF Gone
<1>6. QED
  BY <1>4, <1>5

LEMMA GoneAll ==
  ASSUME TypeOK, NEW l \in Lists
  PROVE  Gone(l, 3, Count(l, 3)) = Positions(l)
<1>1. \A t \in Stages : [i \in DOMAIN hooks[l][t] |-> <<l, t, i>>] = First(l, t, Count(l, t))
  BY CountIsNat DEF First
<1>2. /\ [i \in DOMAIN hooks[l][1] |-> <<l, 1, i>>] = First(l, 1, Count(l, 1))
      /\ [i \in DOMAIN hooks[l][2] |-> <<l, 2, i>>] = First(l, 2, Count(l, 2))
      /\ [i \in DOMAIN hooks[l][3] |-> <<l, 3, i>>] = First(l, 3, Count(l, 3))
  BY <1>1 DEF Stages
<1>3. Gone(l, 3, Count(l, 3))
        = First(l, 1, Count(l, 1)) \o First(l, 2, Count(l, 2)) \o First(l, 3, Count(l, 3))
  BY DEF Gone
<1>4. QED
  BY <1>2, <1>3 DEF Positions

LEMMA PositionsIsSeq ==
  ASSUME TypeOK, NEW l \in Lists
  PROVE  Positions(l) \in Seq(Places)
BY GoneAll, GoneIsSeq, CountIsNat DEF Stages

LEMMA BeforeIsSeq ==
  ASSUME TypeOK, NEW l \in Lists
  PROVE  Before(l) \in Seq(Places)
BY PositionsIsSeq DEF Before, Lists, VSLists

-----------------------------------------------------------------------------
(* While the tree nodes of all operands are known, the walk is where it    *)
(* should be; a decided one is at the end of its notify list.              *)
OnTheWay ==
  /\ hh \in 1..(Count(ehh_list, stage) + 1)
  /\ visited = Before(ehh_list) \o Gone(ehh_list, stage, hh - 1)
  /\ pc = "decided" => /\ ehh_list \in NotifyLists
                       /\ stage = 3 /\ hh = Count(ehh_list, 3) + 1

WalkInv ==
  /\ TypeOK
  /\ ~isInit /\ pc = "queued" => ehh_list = "VS_ALLOW"
  /\ ~isInit => ehh_list # "VS_DENY"
  /\ ~isInit /\ pc # "queued" /\ node = Stages => OnTheWay

(* The walk goes past the hook it stands at.                               *)
LEMMA OnwardStep ==
  ASSUME TypeOK, TypeOK', OnTheWay, Running, Advance, node = Stages
  PROVE  OnTheWay'
<1>1. /\ ehh_list \in Lists /\ stage \in Stages /\ hh \in Nat \ {0} /\ hh - 1 \in Nat
      /\ hh' = hh + 1 /\ UNCHANGED <<hooks, ehh_list, stage, pc>>
      /\ visited' = Append(visited, <<ehh_list, stage, hh>>)
      /\ pc = "walking"
  BY DEF TypeOK, Advance, Running
<1>2. hh \in 1..Count(ehh_list, stage)
  BY <1>1, CountIsNat DEF Running, AtHook, Chain
<1>3. Append(Before(ehh_list) \o Gone(ehh_list, stage, hh - 1), <<ehh_list, stage, hh>>)
        = Before(ehh_list) \o Append(Gone(ehh_list, stage, hh - 1), <<ehh_list, stage, hh>>)
  <2>1. <<ehh_list, stage, hh>> \in Places
    BY <1>1 DEF Places
  <2>2. Before(ehh_list) \in Seq(Places) /\ Gone(ehh_list, stage, hh - 1) \in Seq(Places)
    BY <1>1, BeforeIsSeq, GoneIsSeq
  <2>3. QED
    BY <2>1, <2>2, AppendRight
<1>4. Append(Gone(ehh_list, stage, hh - 1), <<ehh_list, stage, hh>>) = Gone(ehh_list, stage, hh)
  <2>1. (hh - 1) + 1 = hh
    BY <1>1
  <2>2. QED
    BY <1>1, <2>1, GoneNext
<1>5. visited' = Before(ehh_list) \o Gone(ehh_list, stage, hh)
  BY <1>1, <1>3, <1>4 DEF OnTheWay
<1>6. /\ Before(ehh_list)' = Before(ehh_list)
      /\ Gone(ehh_list, stage, hh - 1)' = Gone(ehh_list, stage, hh)
      /\ Count(ehh_list, stage)' = Count(ehh_list, stage)
  <2>1. hh' - 1 = hh
    BY <1>1
  <2>2. QED
    BY <1>1, <2>1 DEF Before, Positions, Gone, Count
<1>7. hh' \in 1..(Count(ehh_list, stage) + 1)
  BY <1>1, <1>2, CountIsNat
<1>8. QED
  BY <1>1, <1>5, <1>6, <1>7 DEF OnTheWay

(* A step that leaves the walk where it is.                                *)
LEMMA StayStep ==
  ASSUME OnTheWay, UNCHANGED <<hooks, ehh_list, stage, hh, visited>>, pc' # "decided" \/ UNCHANGED pc
  PROVE  OnTheWay'
BY DEF OnTheWay, Before, Positions, Gone, Count

(* Without a hook left, the walk is past the last one of the stage.        *)
LEMMA StageOver ==
  ASSUME TypeOK, OnTheWay, node = Stages, ~AtHook
  PROVE  hh = Count(ehh_list, stage) + 1
<1>1. ehh_list \in Lists /\ stage \in Stages
  BY DEF TypeOK
<1>2. Count(ehh_list, stage) \in Nat /\ DOMAIN Chain = 1..Count(ehh_list, stage)
  BY <1>1, CountIsNat DEF Chain
<1>3. QED
  BY <1>2 DEF OnTheWay, AtHook

LEMMA WalkStep == WalkInv /\ [Next]_vars => WalkInv'
<1> SUFFICES ASSUME WalkInv, [Next]_vars, ~isInit' PROVE WalkInv'
  BY TypeStep DEF WalkInv
<1>1. TypeOK /\ TypeOK' /\ (node' = Stages => node = Stages)
  BY TypeStep, NodesShrink DEF WalkInv
<1>2. isInit' = isInit
  BY DEF vars, Next, Walk, Enter, Mismatch, Advance, ScriptReturns, Completed,
         ScriptParks, WaitsOnItself, EnterDecides, EnterFails, TrackCompletes,
         NextStage, SwitchToNotify, Decide, InitReturns, InitParks, Resume, Done
<1>3. ASSUME UNCHANGED ehh_list, pc # "queued", pc' # "queued",
             node' = Stages => OnTheWay'
      PROVE  WalkInv'
  BY <1>1, <1>2, <1>3 DEF WalkInv
<1>4. CASE Mismatch \/ ScriptReturns \/ EnterDecides \/ EnterFails \/ TrackCompletes
  <2>1. Running /\ Advance
    BY <1>4 DEF Mismatch, ScriptReturns, EnterDecides, EnterFails, TrackCompletes, Completed
  <2>2. pc = "walking" /\ pc' = pc /\ UNCHANGED ehh_list
    BY <2>1 DEF Running, Advance
  <2>3. node' = Stages => OnTheWay
    BY <1>1, <1>2, <2>2 DEF WalkInv
  <2>4. QED
    BY <1>1, <1>3, <2>1, <2>2, <2>3, OnwardStep
<1>5. CASE ScriptParks \/ WaitsOnItself \/ Resume
  <2>1. /\ pc # "queued" /\ pc' \notin {"queued", "decided"}
        /\ UNCHANGED <<hooks, ehh_list, stage, hh, visited>>
    BY <1>5 DEF ScriptParks, WaitsOnItself, Resume, Running
  <2>2. QED
    BY <1>1, <1>2, <1>3, <2>1, StayStep DEF WalkInv
<1>6. CASE Enter
  <2>1. /\ stage' = 1 /\ hh' = 1 /\ visited' = <<>> /\ pc' = "walking"
        /\ ehh_list' = ehh_list /\ hooks' = hooks /\ ehh_list = "VS_ALLOW"
    BY <1>2, <1>6 DEF Enter, WalkInv
  <2>2. Before(ehh_list)' = <<>>
    BY <2>1 DEF Before, NotifyLists
  <2>3. Gone(ehh_list, stage, hh - 1)' = <<>>
    <3>1. hh' - 1 = 0 /\ "VS_ALLOW" \in Lists /\ 1 \in Stages
      BY <2>1 DEF Lists, VSLists, Stages
    <3>2. QED
      BY <2>1, <3>1, NoneGone DEF Gone
  <2>4. <<>> \o <<>> = <<>>
    BY EmptySeq, ConcatEmptySeq
  <2>5. hh' \in 1..(Count(ehh_list, stage)' + 1)
    <3>1. Count(ehh_list, stage)' \in Nat
      <4>1. ehh_list \in Lists /\ 1 \in Stages
        BY <1>1 DEF TypeOK, Stages
      <4>2. Count(ehh_list, 1) \in Nat
        BY <1>1, <4>1, CountIsNat
      <4>3. QED
        BY <2>1, <4>2 DEF Count
    <3>2. QED
      BY <2>1, <3>1
  <2>6. OnTheWay'
    BY <2>1, <2>2, <2>3, <2>4, <2>5 DEF OnTheWay
  <2>7. QED
    BY <1>1, <2>1, <2>6 DEF WalkInv
<1>7. CASE NextStage
  <2>1. /\ pc = "walking" /\ pc' = pc /\ stage' = stage + 1 /\ hh' = 1 /\ stage \in 1..2
        /\ UNCHANGED <<hooks, ehh_list, visited>> /\ ~AtHook
        /\ ehh_list \in Lists /\ stage \in Stages /\ stage + 1 \in Stages
    BY <1>1, <1>7 DEF NextStage, TypeOK, Stages
  <2>2. ASSUME node' = Stages PROVE OnTheWay'
    <3>1. OnTheWay /\ node = Stages
      BY <1>1, <1>2, <2>1, <2>2 DEF WalkInv
    <3>2. hh - 1 = Count(ehh_list, stage)
      BY <1>1, <2>1, <3>1, StageOver, CountIsNat
    <3>3. visited = Before(ehh_list) \o Gone(ehh_list, stage + 1, 0)
      BY <1>1, <2>1, <3>1, <3>2, GoneStage DEF OnTheWay
    <3>4. /\ Before(ehh_list)' = Before(ehh_list)
          /\ Gone(ehh_list, stage, hh - 1)' = Gone(ehh_list, stage + 1, 0)
          /\ Count(ehh_list, stage)' = Count(ehh_list, stage + 1)
      <4>1. hh' - 1 = 0
        BY <2>1
      <4>2. QED
        BY <2>1, <4>1 DEF Before, Positions, Gone, Count
    <3>5. hh' \in 1..(Count(ehh_list, stage + 1) + 1)
      BY <1>1, <2>1, CountIsNat
    <3>6. QED
      BY <2>1, <3>3, <3>4, <3>5 DEF OnTheWay
  <2>3. QED
    BY <1>3, <2>1, <2>2
<1>8. CASE SwitchToNotify
  <2>1. /\ pc = "walking" /\ pc' = pc /\ stage = 3 /\ stage' = 1 /\ hh' = 1
        /\ UNCHANGED <<hooks, visited>> /\ ~AtHook
        /\ ehh_list \in VSLists /\ ehh_list' = NotifyList(ehh_list, result)
    BY <1>8 DEF SwitchToNotify
  <2>2. ehh_list = "VS_ALLOW" /\ ehh_list \in Lists /\ ehh_list' \in NotifyLists
    BY <1>2, <2>1 DEF WalkInv, VSLists, Lists, NotifyList, NotifyLists
  <2>3. ASSUME node' = Stages PROVE OnTheWay'
    <3>1. OnTheWay /\ node = Stages
      BY <1>1, <1>2, <2>1, <2>3 DEF WalkInv
    <3>2. hh - 1 = Count(ehh_list, stage)
      BY <1>1, <2>1, <2>2, <3>1, StageOver, CountIsNat DEF Stages
    <3>3. visited = Positions("VS_ALLOW")
      <4>1. visited = <<>> \o Gone("VS_ALLOW", 3, Count("VS_ALLOW", 3))
        BY <2>1, <2>2, <3>1, <3>2 DEF OnTheWay, Before, NotifyLists
      <4>2. QED
        BY <1>1, <2>2, <4>1, GoneAll, PositionsIsSeq, ConcatEmptySeq
    <3>4. Before(ehh_list)' = Positions("VS_ALLOW")
      BY <2>1, <2>2 DEF Before, Positions
    <3>5. Gone(ehh_list, stage, hh - 1)' = <<>>
      <4>1. hh' - 1 = 0 /\ ehh_list' \in Lists /\ 1 \in Stages
        BY <2>1, <2>2 DEF Lists, Stages
      <4>2. QED
        BY <2>1, <4>1, NoneGone DEF Gone
    <3>6. visited' = Before(ehh_list)' \o Gone(ehh_list, stage, hh - 1)'
      BY <1>1, <2>1, <2>2, <3>3, <3>4, <3>5, PositionsIsSeq, ConcatEmptySeq
    <3>7. hh' \in 1..(Count(ehh_list, stage)' + 1)
      <4>1. ehh_list' \in Lists /\ 1 \in Stages
        BY <2>2 DEF Lists, Stages
      <4>2. Count(ehh_list', 1) \in Nat
        BY <1>1, <4>1, CountIsNat
      <4>3. QED
        BY <2>1, <4>2 DEF Count
    <3>8. QED
      BY <2>1, <3>6, <3>7 DEF OnTheWay
  <2>4. QED
    BY <1>1, <2>1, <2>2, <2>3 DEF WalkInv, NotifyLists
<1>9. CASE Decide
  <2>1. /\ pc = "walking" /\ pc' = "decided" /\ stage = 3 /\ ehh_list \in NotifyLists
        /\ UNCHANGED <<hooks, ehh_list, stage, hh, visited>> /\ ~AtHook
    BY <1>9 DEF Decide
  <2>2. ASSUME node' = Stages PROVE OnTheWay'
    <3>1. OnTheWay /\ node = Stages
      BY <1>1, <1>2, <2>1, <2>2 DEF WalkInv
    <3>2. hh = Count(ehh_list, 3) + 1
      BY <1>1, <2>1, <3>1, StageOver
    <3>3. QED
      BY <2>1, <3>1, <3>2 DEF OnTheWay, Before, Positions, Gone, Count
  <2>3. QED
    BY <1>3, <2>1, <2>2
<1>10. CASE InitReturns \/ InitParks
  BY <1>2, <1>10 DEF InitReturns, InitParks, WalkInv
<1>11. CASE Done \/ UNCHANGED vars
  <2>1. UNCHANGED vars
    BY <1>11 DEF Done
  <2>2. OnTheWay => OnTheWay'
    BY <2>1, StayStep DEF vars
  <2>3. QED
    BY <1>1, <2>1, <2>2 DEF vars, WalkInv
<1>12. QED
  BY <1>4, <1>5, <1>6, <1>7, <1>8, <1>9, <1>10, <1>11 DEF Next, Walk

(* No hook of the decision list or of the notify list that follows is left *)
(* out or run twice, in any registration and after any suspensions.        *)
THEOREM NoHookMissed == Spec => []EveryHookOnce
<1>1. Init => WalkInv
  BY TypingInit DEF Init, WalkInv
<1>2. WalkInv => EveryHookOnce
  <2> SUFFICES ASSUME WalkInv, pc = "decided", ~isInit, node = Stages
               PROVE  visited = Positions("VS_ALLOW") \o Positions(ehh_list)
    BY DEF EveryHookOnce
  <2>1. OnTheWay /\ TypeOK
    BY DEF WalkInv
  <2>2. ehh_list \in Lists /\ 3 \in Stages /\ Count(ehh_list, 3) \in Nat
    BY <2>1, CountIsNat DEF TypeOK, Stages
  <2>3. hh - 1 = Count(ehh_list, 3)
    BY <2>1, <2>2 DEF OnTheWay
  <2>4. QED
    BY <2>1, <2>2, <2>3, GoneAll DEF OnTheWay, Before
<1>3. QED
  BY <1>1, <1>2, WalkStep, PTL DEF Spec

=============================================================================
