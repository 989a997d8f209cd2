----------------------------- MODULE AlertProofs -----------------------------
(***************************************************************************)
(* Proofs about AlertEvaluator: one open event per rule, what the channel  *)
(* was told last, and how often, for every set of rules and any number of  *)
(* metric moves, edits and failures.                                       *)
(*                                                                         *)
(* None of the three is inductive: the run decides at the SELECT, commits  *)
(* later and notifies later still.  The invariant below carries what it    *)
(* decided from one step to the next, for as long as the rule exists.      *)
(***************************************************************************)
EXTENDS AlertEvaluator, TLAPS

\* A rule that was never created has left no trace, and is not in hand.
NewIsUntouched ==
    \A r \in Rules : status[r] = "new" =>
        openEvents[r] = 0 /\ last[r] = "none" /\ told[r] = 0 /\ rule # r

\* What is about to be committed still fits the stored event.
StoresWhatItSelected ==
    pc = "store" /\ Exists(rule) => (breached <=> openEvents[rule] = 0)

\* What is about to be sent is what was committed; attempts are counted.
SendsWhatItStored ==
    pc = "notify" =>
        /\ Exists(rule) => (breached <=> openEvents[rule] = 1)
        /\ told[rule] <= attempt /\ attempt <= faults

AttemptsEnd == pc # "notify" => attempt = 0

IInv ==
    /\ TypeOK /\ NewIsUntouched /\ StoresWhatItSelected /\ SendsWhatItStored
    /\ AttemptsEnd /\ OneOpenEvent /\ ChannelTellsTheState /\ AnnouncedOnce

-----------------------------------------------------------------------------
(* Types.                                                                   *)

\* The initial state has the shape.
LEMMA TypeInit == Init => TypeOK
<1> SUFFICES ASSUME Init PROVE TypeOK
    OBVIOUS
<1>1. breached \in BOOLEAN
    BY DEF Init
<1> QED
    BY <1>1, AlertAssumption DEF Init, TypeOK, Levels

\* Every step keeps it.
LEMMA TypeNext == TypeOK /\ [Next]_vars => TypeOK'
<1> SUFFICES ASSUME TypeOK, [Next]_vars PROVE TypeOK'
    OBVIOUS
<1> USE AlertAssumption DEF TypeOK, rules, world, run, channel, Levels
<1>1. CASE UNCHANGED vars
    BY <1>1 DEF vars
<1>2. ASSUME NEW r \in Rules, MetricMoves(r) PROVE TypeOK'
    BY <1>2 DEF MetricMoves, Move
<1>3. ASSUME NEW r \in Rules, CreateRule(r) PROVE TypeOK'
    BY <1>3 DEF CreateRule
<1>4. ASSUME NEW r \in Rules, PatchRule(r) PROVE TypeOK'
    BY <1>4 DEF PatchRule, Exists, Move
<1>5. ASSUME NEW r \in Rules, DeleteRule(r) PROVE TypeOK'
    BY <1>5 DEF DeleteRule, Exists
<1>6. CASE Load
    BY <1>6 DEF Load
<1>7. ASSUME NEW r \in Rules, Evaluate(r) PROVE TypeOK'
    BY <1>7 DEF Evaluate
<1>8. ASSUME NEW r \in Rules, EvaluateFails(r) PROVE TypeOK'
    BY <1>8 DEF EvaluateFails, Fault
<1>b. breached' \in BOOLEAN
  <2>1. ASSUME breached' = FALSE \/ breached' = breached PROVE breached' \in BOOLEAN
    BY <2>1
  <2>2. ASSUME NEW r \in Rules, Evaluate(r) PROVE breached' \in BOOLEAN
    BY <1>7, <2>2
  <2>3. ASSUME NEW r \in Rules, EvaluateFails(r) \/ MetricMoves(r) \/ CreateRule(r)
                                 \/ PatchRule(r) \/ DeleteRule(r)
        PROVE  breached' = breached
    BY <2>3 DEF EvaluateFails, MetricMoves, CreateRule, PatchRule, DeleteRule
  <2>4. CASE EndRun \/ StoreFails \/ Crash
    BY <2>1, <2>4 DEF EndRun, StoreFails, Crash, Leave
  <2>5. CASE SelectOpenEvent \/ Notify \/ NotifyFails
    BY <2>1, <2>5 DEF SelectOpenEvent, Notify, NotifyFails, GoNext
  <2>6. CASE Load \/ StoreEvent \/ UNCHANGED vars
    BY <2>1, <2>6 DEF Load, StoreEvent, vars
  <2> QED
    BY <2>1, <2>2, <2>3, <2>4, <2>5, <2>6 DEF Next, RunOnce
<1>9. CASE EndRun \/ StoreFails
    BY <1>9, <1>b DEF EndRun, StoreFails, Leave
<1>10. CASE SelectOpenEvent
    BY <1>10, <1>b DEF SelectOpenEvent, GoNext
<1>11. CASE StoreEvent
    BY <1>11 DEF StoreEvent
<1>12. CASE Notify
    BY <1>12, <1>b DEF Notify, Deliver, Kind, GoNext
<1>13. CASE NotifyFails
    BY <1>13, <1>b DEF NotifyFails, Deliver, Kind, GoNext, Fault
<1>14. CASE Crash
    BY <1>14, <1>b DEF Crash, Leave, Fault
<1> QED
    BY <1>1, <1>2, <1>3, <1>4, <1>5, <1>6, <1>7, <1>8, <1>9, <1>10, <1>11, <1>12,
       <1>13, <1>14 DEF Next, RunOnce

\* In every reachable state the evaluator's state has its shape, and only rules
\* that were once created are in hand or still to be looked at.
THEOREM TypeCorrect == Spec => []TypeOK
BY TypeInit, TypeNext, PTL DEF Spec

-----------------------------------------------------------------------------
(* Events and notifications.                                                *)

\* The invariant holds initially.
LEMMA IInvInit == Init => IInv
BY TypeInit, AlertAssumption DEF Init, IInv, NewIsUntouched, StoresWhatItSelected, SendsWhatItStored,
   AttemptsEnd, OneOpenEvent, ChannelTellsTheState, AnnouncedOnce, Exists

\* Every step keeps the rest of it.
LEMMA IInvNext == IInv /\ [Next]_vars => IInv'
<1> SUFFICES ASSUME IInv, [Next]_vars PROVE IInv'
    OBVIOUS
<1>0. TypeOK /\ TypeOK'
    BY TypeNext DEF IInv
<1>t. /\ rule \in Rules \cup {NoRule} /\ NoRule \notin Rules
      /\ pc \in {"store", "select", "notify"} => rule \in Rules
      /\ attempt \in 0..2 /\ faults \in Nat
      /\ told \in [Rules -> Nat] /\ openEvents \in [Rules -> Nat]
      /\ last \in [Rules -> {"none", "firing", "resolved"}]
      /\ status \in [Rules -> {"new", "on", "off", "gone"}]
      /\ todo \subseteq Rules /\ \A r \in todo : status[r] # "new"
    BY <1>0, AlertAssumption DEF TypeOK
<1> USE <1>t DEF IInv, NewIsUntouched, StoresWhatItSelected, SendsWhatItStored,
         AttemptsEnd, OneOpenEvent, ChannelTellsTheState, AnnouncedOnce, Exists,
         rules, world, run, channel
<1>1. CASE UNCHANGED vars
    BY <1>0, <1>1 DEF vars
<1>2. ASSUME NEW r \in Rules, MetricMoves(r) PROVE IInv'
    BY <1>0, <1>2 DEF MetricMoves
<1>3. ASSUME NEW r \in Rules, CreateRule(r) PROVE IInv'
    BY <1>0, <1>3 DEF CreateRule
<1>4. ASSUME NEW r \in Rules, PatchRule(r) PROVE IInv'
    BY <1>0, <1>4 DEF PatchRule
<1>5. ASSUME NEW r \in Rules, DeleteRule(r) PROVE IInv'
    BY <1>0, <1>5 DEF DeleteRule
<1>6. CASE Load
    BY <1>0, <1>6 DEF Load
<1>7. ASSUME NEW r \in Rules, Evaluate(r) PROVE IInv'
    BY <1>0, <1>7 DEF Evaluate
<1>8. ASSUME NEW r \in Rules, EvaluateFails(r) PROVE IInv'
    BY <1>0, <1>8 DEF EvaluateFails, Fault
<1>9. CASE EndRun \/ StoreFails
    BY <1>0, <1>9 DEF EndRun, StoreFails, Leave
<1>10. CASE SelectOpenEvent
    BY <1>0, <1>10 DEF SelectOpenEvent, GoNext
<1>11. CASE StoreEvent
    BY <1>0, <1>11 DEF StoreEvent
<1>12. CASE Notify
    BY <1>0, <1>12 DEF Notify, Deliver, Kind, GoNext
<1>13. CASE NotifyFails
    BY <1>0, <1>13 DEF NotifyFails, Deliver, Kind, GoNext, Fault
<1>14. CASE Crash
    BY <1>0, <1>14 DEF Crash, Leave, Fault
<1> QED
    BY <1>1, <1>2, <1>3, <1>4, <1>5, <1>6, <1>7, <1>8, <1>9, <1>10, <1>11, <1>12,
       <1>13, <1>14 DEF Next, RunOnce

\* A rule never has two open events, nor an event without the rule.
THEOREM NeverTwoOpenEvents == Spec => []OneOpenEvent
<1>1. IInv => OneOpenEvent
    BY DEF IInv
<1> QED
    BY <1>1, IInvInit, IInvNext, PTL DEF Spec

\* While nothing fails, the last message about a rule tells whether an event is
\* open, whatever is edited or deleted under the run.
THEOREM ChannelIsRight == Spec => []ChannelTellsTheState
<1>1. IInv => ChannelTellsTheState
    BY DEF IInv
<1> QED
    BY <1>1, IInvInit, IInvNext, PTL DEF Spec

\* Copies of an announcement are owed to failed attempts, three at most.
THEOREM CopiesHaveCauses == Spec => []AnnouncedOnce
<1>1. IInv => AnnouncedOnce
    BY DEF IInv
<1> QED
    BY <1>1, IInvInit, IInvNext, PTL DEF Spec

=============================================================================
