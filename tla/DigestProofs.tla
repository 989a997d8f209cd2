---------------------------- MODULE DigestProofs ----------------------------
(***************************************************************************)
(* Proofs about Digest: the ledger only holds what went out, and a digest  *)
(* goes out twice only for a cause, for any number of members, days,       *)
(* subscriptions and failures.                                             *)
(*                                                                         *)
(* The second is the harder one: the run works on a snapshot, so what went *)
(* out and is not in the ledger has to be followed until the run is over.  *)
(***************************************************************************)
EXTENDS Digest, TLAPS

\* The snapshot holds only subscriptions that were once created.
KnownIds ==
    /\ \A s \in todo : s.id <= lastSub
    /\ hand # NoOne => hand.id <= lastSub

TypeInv == TypeOK /\ KnownIds

\* The digest in hand was due, and went out before its row is committed.
HandFollowsTheDigest ==
    /\ pc \in {"mail", "commit"} => Due(hand.cadence, now)
    /\ pc = "commit" => <<hand.user, hand.id, <<hand.cadence, now>>>> \in mailed

\* The run looks at each subscription once.
OneLookEach ==
    /\ \A s, t \in todo : s.id = t.id => s = t
    /\ hand # NoOne => \A s \in todo : s.id # hand.id
    /\ pc = "mail" => Row(hand) \notin ledger

\* Without a failure, what went out is in the ledger, or about to be, or its
\* subscription is gone and out of the run's reach.
MailedIsFollowed ==
    faults = 0 => \A u \in Users, i \in 1..MaxSubs, p \in Periods :
        <<u, i, p>> \in mailed =>
            \/ <<i, p>> \in ledger
            \/ pc = "commit" /\ hand.id = i /\ p = <<hand.cadence, now>>
            \/ /\ ~IsLive(i)
               /\ \A s \in todo : s.id # i
               /\ hand # NoOne => hand.id # i

IInv ==
    /\ TypeInv /\ HandFollowsTheDigest /\ OneLookEach /\ MailedIsFollowed
    /\ LedgerMeansMailed /\ TwiceNeedsACause

-----------------------------------------------------------------------------
(* Types.                                                                   *)

\* The initial state has the shape.
LEMMA TypeInit == Init => TypeInv
BY DigestAssumption DEF Init, TypeInv, TypeOK, KnownIds, Days, Cadences, Hand

\* The period of the digest in hand is one.
LEMMA HandPeriod ==
    ASSUME TypeInv, hand # NoOne
    PROVE  /\ hand \in Snapshot /\ hand.user \in Users
           /\ hand.id \in 1..lastSub /\ hand.id \in 1..MaxSubs
           /\ <<hand.cadence, now>> \in Periods
<1>1. hand \in Snapshot
    BY DEF TypeInv, TypeOK, Hand
<1>2. hand.user \in Users /\ hand.id \in 1..MaxSubs /\ hand.cadence \in Cadences
    BY <1>1 DEF Snapshot
<1>3. now \in 1..MaxDays
    BY DigestAssumption DEF TypeInv, TypeOK, Days
<1>4. hand.id \in 1..lastSub
    BY <1>2 DEF TypeInv, TypeOK, KnownIds
<1> QED
    BY <1>1, <1>2, <1>3, <1>4 DEF Periods, Days

\* Every step keeps the shape.
LEMMA TypeNext == TypeInv /\ [Next]_vars => TypeInv'
<1> SUFFICES ASSUME TypeInv, [Next]_vars PROVE TypeInv'
    OBVIOUS
<1> USE DigestAssumption DEF TypeInv, TypeOK, KnownIds, prefs, run, post
<1>1. CASE UNCHANGED vars
    BY <1>1 DEF vars
<1>2. CASE NewDay
    BY <1>2 DEF NewDay, Days
<1>3. ASSUME NEW u \in Users, SetDigestPref(u) PROVE TypeInv'
  <2>1. lastSub' \in lastSub..MaxSubs /\ UNCHANGED <<todo, hand>>
    BY <1>3 DEF SetDigestPref
  <2>2. /\ sub' \in [Users -> 0..lastSub']
        /\ \A v, w \in Users : sub'[v] = sub'[w] => v = w \/ sub'[v] = 0
    BY <1>3 DEF SetDigestPref
  <2>3. cadence' \in [Users -> Cadences] /\ wish' \in [Users -> {"in", "out"}]
    BY <1>3 DEF SetDigestPref
  <2>4. ledger' \subseteq (1..lastSub') \X Periods
    BY <1>3, <2>1 DEF SetDigestPref
  <2>5. mailed' \subseteq Users \X (1..lastSub') \X Periods
    BY <1>3, <2>1 DEF SetDigestPref
  <2>6. hand' # NoOne => hand'.id <= lastSub'
    <3>1. hand # NoOne => hand.id \in Int
      BY HandPeriod
    <3> QED
      BY <2>1, <3>1
  <2>7. \A s \in todo' : s.id <= lastSub'
    BY <2>1 DEF Snapshot
  <2> QED
    BY <1>3, <2>1, <2>2, <2>3, <2>4, <2>5, <2>6, <2>7 DEF SetDigestPref
<1>4. ASSUME NEW u \in Users, Unsubscribe(u) \/ UnsubscribeRefused(u) PROVE TypeInv'
    BY <1>4 DEF Unsubscribe, UnsubscribeRefused
<1>5. CASE LoadSubscriptions
  <2>1. \A s \in todo' : s \in Snapshot /\ s.id <= lastSub
    BY <1>5 DEF LoadSubscriptions, Snapshot
  <2> QED
    BY <1>5, <2>1 DEF LoadSubscriptions, Days
<1>6. ASSUME NEW s \in Snapshot, Take(s) PROVE TypeInv'
  <2>1. s # NoOne /\ s \in Hand
    BY <1>6 DEF Hand
  <2> QED
    BY <1>6, <2>1 DEF Take
<1>7. CASE EndRun
    BY <1>7 DEF EndRun, Leave, Hand
<1>8. ASSUME hand # NoOne, MailGoesOut(hand), UNCHANGED lastSub
      PROVE  /\ mailed' \subseteq Users \X (1..lastSub') \X Periods
             /\ twice' \subseteq Users \X Periods
  <2>1. /\ hand.user \in Users /\ hand.id \in 1..lastSub
        /\ <<hand.cadence, now>> \in Periods
    BY <1>8, HandPeriod
  <2>2. /\ mailed' = mailed \cup {<<hand.user, hand.id, <<hand.cadence, now>>>>}
        /\ twice' \subseteq twice \cup {<<hand.user, <<hand.cadence, now>>>>}
    BY <1>8 DEF MailGoesOut
  <2> QED
    BY <1>8, <2>1, <2>2
<1>9. CASE Mail
    BY <1>8, <1>9 DEF Mail
<1>10. CASE Commit
  <2>1. Row(hand) \in (1..lastSub) \X Periods
    BY <1>10, HandPeriod DEF Commit, Row
  <2> QED
    BY <1>10, <2>1 DEF Commit, GoNext, Hand
<1>11. CASE CommitRefused
    BY <1>11 DEF CommitRefused, GoNext, Hand
<1>12. CASE MailFails
  <2>1. /\ mailed' \subseteq Users \X (1..lastSub') \X Periods
        /\ twice' \subseteq Users \X Periods
    BY <1>8, <1>12 DEF MailFails
  <2> QED
    BY <1>12, <2>1 DEF MailFails, Fault, Leave, Hand
<1>13. CASE RunLost
    BY <1>13 DEF RunLost, Fault, Leave, Hand
<1> QED
    BY <1>1, <1>2, <1>3, <1>4, <1>5, <1>6, <1>7, <1>9, <1>10, <1>11, <1>12, <1>13
    DEF Next, RunDigests

\* In every reachable state subscriptions are told apart by their ids, and the
\* ledger and the mails speak of subscriptions that existed.
THEOREM TypeCorrect == Spec => []TypeOK
<1>1. TypeInv => TypeOK
    BY DEF TypeInv
<1> QED
    BY <1>1, TypeInit, TypeNext, PTL DEF Spec

-----------------------------------------------------------------------------
(* What goes out, and what is recorded.                                     *)

\* It holds initially.
LEMMA IInvInit == Init => IInv
<1> SUFFICES ASSUME Init PROVE IInv
    OBVIOUS
<1>1. TypeInv
    BY TypeInit
<1> QED
    BY <1>1 DEF Init, IInv, HandFollowsTheDigest, OneLookEach, MailedIsFollowed,
                LedgerMeansMailed, TwiceNeedsACause

\* A digest is in hand exactly between the ledger's look and its row.
LEMMA HandFollowsNext ==
    ASSUME TypeInv, HandFollowsTheDigest, [Next]_vars
    PROVE  HandFollowsTheDigest'
<1> USE DEF HandFollowsTheDigest, Due, prefs, run, post
<1>1. CASE UNCHANGED vars
    BY <1>1 DEF vars
<1>2. CASE NewDay
    BY <1>2 DEF NewDay
<1>3. ASSUME NEW u \in Users,
             SetDigestPref(u) \/ Unsubscribe(u) \/ UnsubscribeRefused(u)
      PROVE  HandFollowsTheDigest'
    BY <1>3 DEF SetDigestPref, Unsubscribe, UnsubscribeRefused
<1>4. CASE LoadSubscriptions
    BY <1>4 DEF LoadSubscriptions
<1>5. ASSUME NEW s \in Snapshot, Take(s) PROVE HandFollowsTheDigest'
    BY <1>5 DEF Take
<1>6. CASE EndRun
    BY <1>6 DEF EndRun, Leave
<1>7. CASE Mail
    BY <1>7 DEF Mail, MailGoesOut
<1>8. CASE Commit \/ CommitRefused
    BY <1>8 DEF Commit, CommitRefused, GoNext
<1>9. CASE MailFails \/ RunLost
    BY <1>9 DEF MailFails, RunLost, Leave
<1> QED
    BY <1>1, <1>2, <1>3, <1>4, <1>5, <1>6, <1>7, <1>8, <1>9 DEF Next, RunDigests

\* A subscription is in the snapshot once, and not after it was in hand.
LEMMA OneLookNext ==
    ASSUME TypeInv, OneLookEach, [Next]_vars
    PROVE  OneLookEach'
<1> USE DEF OneLookEach, Row, prefs, run, post
<1>1. CASE UNCHANGED vars
    BY <1>1 DEF vars
<1>2. CASE NewDay
    BY <1>2 DEF NewDay
<1>3. ASSUME NEW u \in Users,
             SetDigestPref(u) \/ Unsubscribe(u) \/ UnsubscribeRefused(u)
      PROVE  OneLookEach'
    BY <1>3 DEF SetDigestPref, Unsubscribe, UnsubscribeRefused
<1>4. CASE LoadSubscriptions
  <2>1. ASSUME NEW s \in todo', NEW t \in todo', s.id = t.id PROVE s = t
    <3>1. /\ s \in Snapshot /\ s.id = sub[s.user] /\ s.cadence = cadence[s.user]
          /\ t \in Snapshot /\ t.id = sub[t.user] /\ t.cadence = cadence[t.user]
      BY <1>4, <2>1 DEF LoadSubscriptions
    <3>2. s.user \in Users /\ t.user \in Users /\ s.id # 0
      BY <3>1, DigestAssumption DEF Snapshot
    <3>3. s.user = t.user
      <4>1. sub[s.user] = sub[t.user] /\ sub[s.user] # 0
        BY <2>1, <3>1, <3>2
      <4> QED
        BY <3>2, <4>1 DEF TypeInv, TypeOK
    <3> QED
      BY <2>1, <3>1, <3>3 DEF Snapshot
  <2> QED
    BY <1>4, <2>1 DEF LoadSubscriptions, TypeInv, TypeOK
<1>5. ASSUME NEW s \in Snapshot, Take(s) PROVE OneLookEach'
    BY <1>5 DEF Take
<1>6. CASE EndRun
    BY <1>6 DEF EndRun, Leave
<1>7. CASE Mail
    BY <1>7 DEF Mail
<1>8. CASE Commit \/ CommitRefused
    BY <1>8 DEF Commit, CommitRefused, GoNext
<1>9. CASE MailFails \/ RunLost
    BY <1>9 DEF MailFails, RunLost, Leave
<1> QED
    BY <1>1, <1>2, <1>3, <1>4, <1>5, <1>6, <1>7, <1>8, <1>9 DEF Next, RunDigests

\* What went out stays followed.
LEMMA FollowedNext ==
    ASSUME TypeInv, OneLookEach, MailedIsFollowed, [Next]_vars
    PROVE  MailedIsFollowed'
<1> SUFFICES ASSUME faults' = 0,
                    NEW u \in Users, NEW i \in 1..MaxSubs, NEW p \in Periods,
                    <<u, i, p>> \in mailed'
             PROVE  \/ <<i, p>> \in ledger'
                    \/ pc' = "commit" /\ hand'.id = i /\ p = <<hand'.cadence, now'>>
                    \/ /\ ~IsLive(i)'
                       /\ \A s \in todo' : s.id # i
                       /\ hand' # NoOne => hand'.id # i
    BY DEF MailedIsFollowed
<1> DEFINE Gone == /\ ~IsLive(i)
                   /\ \A s \in todo : s.id # i
                   /\ hand # NoOne => hand.id # i
           InHand == pc = "commit" /\ hand.id = i /\ p = <<hand.cadence, now>>
<1>0. ASSUME faults = 0, mailed' = mailed
      PROVE  <<i, p>> \in ledger \/ InHand \/ Gone
    BY <1>0 DEF MailedIsFollowed
<1>1. CASE UNCHANGED vars
    BY <1>0, <1>1 DEF vars, prefs, run, post, IsLive
<1>2. CASE NewDay
    BY <1>0, <1>2 DEF NewDay, prefs, run, post, IsLive
<1>3. ASSUME NEW v \in Users, SetDigestPref(v) PROVE Gone => Gone'
  <2>1. i # lastSub + 1
    <3>1. <<u, i, p>> \in mailed
      BY <1>3 DEF SetDigestPref, post
    <3> QED
      BY <3>1 DEF TypeInv, TypeOK
  <2> QED
    BY <1>3, <2>1 DEF SetDigestPref, run, IsLive, TypeInv, TypeOK
<1>4. ASSUME NEW v \in Users, Unsubscribe(v) \/ UnsubscribeRefused(v)
      PROVE  Gone => Gone'
    BY <1>4 DEF Unsubscribe, UnsubscribeRefused, run, IsLive, TypeInv, TypeOK
<1>5. ASSUME NEW v \in Users,
             SetDigestPref(v) \/ Unsubscribe(v) \/ UnsubscribeRefused(v)
      PROVE  <<i, p>> \in ledger' \/ InHand' \/ Gone'
  <2>1. UNCHANGED <<faults, mailed, ledger, pc, hand, now>>
    BY <1>5 DEF SetDigestPref, Unsubscribe, UnsubscribeRefused, run, post
  <2>2. Gone => Gone'
    BY <1>3, <1>4, <1>5
  <2>3. InHand => InHand'
    BY <2>1
  <2>4. <<i, p>> \in ledger \/ InHand \/ Gone
    BY <1>0, <2>1
  <2> QED
    BY <2>1, <2>2, <2>3, <2>4
<1>6. CASE LoadSubscriptions
  <2>1. hand = NoOne /\ hand' = hand /\ ~InHand
    BY <1>6 DEF LoadSubscriptions, TypeInv, TypeOK
  <2>2. \A s \in todo' : s.user \in Users /\ s.id = sub[s.user]
    BY <1>6 DEF LoadSubscriptions, Snapshot
  <2>3. ASSUME Gone PROVE Gone'
    BY <1>6, <2>1, <2>2, <2>3 DEF LoadSubscriptions, prefs, IsLive
  <2> QED
    BY <1>0, <1>6, <2>1, <2>3 DEF LoadSubscriptions, post
<1>7. ASSUME NEW s \in Snapshot, Take(s)
      PROVE  <<i, p>> \in ledger' \/ InHand' \/ Gone'
  <2>1. ASSUME Gone PROVE Gone'
    BY <1>7, <2>1 DEF Take, prefs, IsLive
  <2>2. ~InHand
    BY <1>7 DEF Take
  <2> QED
    BY <1>0, <1>7, <2>1, <2>2 DEF Take, post
<1>8. CASE EndRun
    BY <1>0, <1>8 DEF EndRun, Leave, prefs, post, IsLive
<1>9. CASE Mail
  <2>1. CASE <<u, i, p>> \in mailed
    BY <1>9, <2>1 DEF Mail, MailedIsFollowed, prefs, IsLive
  <2>2. CASE <<u, i, p>> \notin mailed
    <3>1. <<u, i, p>> = <<hand.user, hand.id, <<hand.cadence, now>>>>
      BY <1>9, <2>2 DEF Mail, MailGoesOut
    <3> QED
      BY <1>9, <3>1 DEF Mail
  <2> QED
    BY <2>1, <2>2
<1>10. CASE Commit
    BY <1>0, <1>10 DEF Commit, GoNext, Row, prefs, post, IsLive
<1>11. CASE CommitRefused
  <2>1. /\ UNCHANGED <<faults, mailed, ledger, sub, todo>>
        /\ hand' = NoOne /\ hand # NoOne
    BY <1>11 DEF CommitRefused, GoNext, prefs, post, TypeInv, TypeOK
  <2>2. CASE InHand
    BY <1>11, <2>1, <2>2 DEF CommitRefused, Row, OneLookEach, IsLive
  <2>3. CASE Gone
    BY <2>1, <2>3 DEF IsLive
  <2> QED
    BY <1>0, <2>1, <2>2, <2>3
<1>12. ~(MailFails \/ RunLost)
    BY DEF MailFails, RunLost, Fault, TypeInv, TypeOK
<1> QED
    BY <1>1, <1>2, <1>5, <1>6, <1>7, <1>8, <1>9, <1>10, <1>11, <1>12
    DEF Next, RunDigests

\* Only a commit adds to the ledger, and it adds the digest in hand.
LEMMA LedgerNext ==
    ASSUME TypeInv, HandFollowsTheDigest, LedgerMeansMailed, [Next]_vars
    PROVE  LedgerMeansMailed'
<1>1. ledger' = ledger \/ Commit
    BY DEF Next, RunDigests, vars, prefs, NewDay, SetDigestPref, Unsubscribe,
           UnsubscribeRefused, LoadSubscriptions, Take, EndRun, Mail, CommitRefused,
           MailFails, RunLost
<1>2. mailed \subseteq mailed'
    BY DEF Next, RunDigests, vars, post, NewDay, SetDigestPref, Unsubscribe,
           UnsubscribeRefused, LoadSubscriptions, Take, EndRun, Mail, Commit,
           CommitRefused, MailFails, RunLost, MailGoesOut
<1>3. CASE ledger' = ledger
    BY <1>2, <1>3 DEF LedgerMeansMailed, Due
<1>4. CASE Commit
  <2>1. hand.user \in Users /\ Due(hand.cadence, now)
        /\ <<hand.user, hand.id, <<hand.cadence, now>>>> \in mailed
    BY <1>4, HandPeriod DEF Commit, HandFollowsTheDigest, TypeInv, TypeOK
  <2>2. ledger' = ledger \cup {<<hand.id, <<hand.cadence, now>>>>}
    BY <1>4 DEF Commit, Row
  <2> QED
    BY <1>2, <2>1, <2>2 DEF LedgerMeansMailed, Due
<1> QED
    BY <1>1, <1>3, <1>4

\* A second mail for a period needs a failure or a second subscription.
LEMMA TwiceNext ==
    ASSUME TypeInv, OneLookEach, MailedIsFollowed, TwiceNeedsACause, [Next]_vars
    PROVE  TwiceNeedsACause'
<1>1. twice' = twice \/ Mail \/ MailFails
    BY DEF Next, RunDigests, vars, post, NewDay, SetDigestPref, Unsubscribe,
           UnsubscribeRefused, LoadSubscriptions, Take, EndRun, Commit,
           CommitRefused, RunLost
<1>2. mailed \subseteq mailed'
    BY DEF Next, RunDigests, vars, post, NewDay, SetDigestPref, Unsubscribe,
           UnsubscribeRefused, LoadSubscriptions, Take, EndRun, Mail, Commit,
           CommitRefused, MailFails, RunLost, MailGoesOut
<1>3. faults \in Nat /\ faults' \in Nat /\ (faults > 0 => faults' > 0)
    BY DEF Next, RunDigests, vars, prefs, NewDay, SetDigestPref, Unsubscribe,
           UnsubscribeRefused, LoadSubscriptions, Take, EndRun, Mail, Commit,
           CommitRefused, MailFails, RunLost, Fault, TypeInv, TypeOK
<1>4. CASE twice' = twice
    BY <1>2, <1>3, <1>4 DEF TwiceNeedsACause
<1>5. CASE MailFails
  <2>1. faults' > 0
    BY <1>5 DEF MailFails, Fault, TypeInv, TypeOK
  <2> QED
    BY <2>1 DEF TwiceNeedsACause
<1>6. CASE Mail
  <2> DEFINE period == <<hand.cadence, now>>
  <2>1. /\ hand # NoOne /\ hand.user \in Users /\ hand.id \in 1..MaxSubs
        /\ period \in Periods /\ faults' = faults
    BY <1>6, HandPeriod DEF Mail, TypeInv, TypeOK
  <2>2. ASSUME NEW u \in Users, NEW p \in Periods, <<u, p>> \in twice',
               <<u, p>> \notin twice, faults = 0
        PROVE  \E i, j \in 1..MaxSubs :
                   i # j /\ {<<u, i, p>>, <<u, j, p>>} \subseteq mailed'
    <3>1. u = hand.user /\ p = period
      BY <1>6, <2>2 DEF Mail, MailGoesOut
    <3>2. PICK i \in 1..MaxSubs : <<hand.user, i, period>> \in mailed
      BY <1>6, <2>2 DEF Mail, MailGoesOut
    <3>3. i # hand.id
      BY <1>6, <2>1, <2>2, <3>2 DEF Mail, MailedIsFollowed, OneLookEach, Row
    <3>4. <<hand.user, hand.id, period>> \in mailed'
      BY <1>6 DEF Mail, MailGoesOut
    <3>5. {<<u, i, p>>, <<u, hand.id, p>>} \subseteq mailed'
      BY <1>2, <3>1, <3>2, <3>4
    <3> HIDE DEF period
    <3> QED
      BY <2>1, <3>3, <3>5
  <2> QED
    BY <1>2, <1>3, <2>1, <2>2 DEF TwiceNeedsACause
<1> QED
    BY <1>1, <1>4, <1>5, <1>6

\* The parts together.
LEMMA IInvNext == IInv /\ [Next]_vars => IInv'
BY TypeNext, HandFollowsNext, OneLookNext, FollowedNext, LedgerNext, TwiceNext
   DEF IInv

\* A row of the ledger stands for a digest that went out on a day it was due,
\* so that skipping the period later deprives nobody, whatever members, days
\* and failures do between the steps of a run.
THEOREM LedgerIsTrue == Spec => []LedgerMeansMailed
<1>1. IInv => LedgerMeansMailed
    BY DEF IInv
<1> QED
    BY <1>1, IInvInit, IInvNext, PTL DEF Spec

\* Nobody gets a period twice without a failure, or a second subscription taken
\* out between the mail and the commit.
THEOREM TwiceHasACause == Spec => []TwiceNeedsACause
<1>1. IInv => TwiceNeedsACause
    BY DEF IInv
<1> QED
    BY <1>1, IInvInit, IInvNext, PTL DEF Spec

=============================================================================
