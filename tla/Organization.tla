---------------------------- MODULE Organization ----------------------------
(***************************************************************************)
(* The requests of one organization that take several steps against its    *)
(* rows in PostgreSQL: a member edits the roles (add_member in             *)
(* oriflux/api/admin.py), and a question or a background job calls the     *)
(* model within the monthly budget (oriflux/ai, ask in api/main.py).        *)
(*                                                                         *)
(* Transactions are READ COMMITTED: a request decides on the roles it has  *)
(* read, and its UPDATE or INSERT meets those of the moment.  The budget   *)
(* is compared before a call with the tokens recorded after the others.    *)
(***************************************************************************)
EXTENDS Integers, FiniteSets

CONSTANTS Users,      \* those who have an account, or may be given one
          Slots,      \* requests and jobs in hand at a time
          Budget,     \* ai_token_budget, or the default
          MaxTokens   \* bound on the tokens of a call

ASSUME OrganizationAssumption ==
    /\ IsFiniteSet(Slots)
    /\ Budget \in Nat /\ MaxTokens \in Nat

VARIABLES
    role,     \* memberships: each user's role, or "none"
    spent,    \* tokens of this month in ai_usage
    pc,       \* where each request is
    calling,  \* those that wait for the model
    edit      \* what an edit asks for and has read

orgVars == <<role, spent, pc, calling, edit>>

Roles  == {"viewer", "admin", "owner"}
Calls  == {"compile", "repair", "phrase", "prose"}
Places == {"idle", "load", "commit", "query"} \cup Calls

Edits  == [actor : Users, target : Users, new : Roles, held : Roles, was : Roles \cup {"none"}]
NoEdit == [new |-> "none"]

\* create_org makes its caller the owner.
OrgInit ==
    /\ \E u \in Users : role = [v \in Users |-> IF v = u THEN "owner" ELSE "none"]
    /\ spent = 0
    /\ pc = [s \in Slots |-> "idle"]
    /\ calling = {}
    /\ edit = [s \in Slots |-> NoEdit]

Goto(s, place) == pc' = [pc EXCEPT ![s] = place]
Done(s) == Goto(s, "idle") /\ edit' = [edit EXCEPT ![s] = NoEdit]

-----------------------------------------------------------------------------
(* add_member.                                                              *)

\* require_role: whoever asks has to be an admin at least.
AddMember(s, u, v, r) ==
    /\ pc[s] = "idle" /\ role[u] \in {"admin", "owner"}
    /\ edit' = [edit EXCEPT ![s] = [actor |-> u, target |-> v, new |-> r,
                                    held |-> role[u], was |-> "none"]]
    /\ Goto(s, "load")
    /\ UNCHANGED <<role, spent, calling>>

\* Slip: only the role that is granted is looked at.
GrantsOwner(e) == e.new = "owner"

TouchesOwner(e) == e.new = "owner" \/ e.was = "owner"

\* The membership is read, unless it is the actor's, which the session has already.
LoadMembership(s) ==
    LET e == [edit[s] EXCEPT !.was = IF edit[s].target = edit[s].actor
                                     THEN edit[s].held ELSE role[edit[s].target]]
    IN  /\ pc[s] = "load"
        /\ IF TouchesOwner(e) /\ e.held # "owner"
           THEN Done(s)
           ELSE edit' = [edit EXCEPT ![s] = e] /\ Goto(s, "commit")
        /\ UNCHANGED <<role, spent, calling>>

\* An INSERT, which fails if there is a row by now, or an UPDATE, which is left out
\* if the role is the one that was read.
Writes(e) == IF e.was = "none" THEN role[e.target] = "none" ELSE e.new # e.was

CommitMembership(s) ==
    /\ pc[s] = "commit"
    /\ role' = IF Writes(edit[s]) THEN [role EXCEPT ![edit[s].target] = edit[s].new] ELSE role
    /\ Done(s)
    /\ UNCHANGED <<spent, calling>>

-----------------------------------------------------------------------------
(* Questions, and the prose of alerts, anomalies, insights and digests.     *)

Begin(s) ==
    /\ pc[s] = "idle"
    /\ \E place \in {"compile", "prose"} : Goto(s, place)
    /\ UNCHANGED <<role, spent, calling, edit>>

\* Slip: a question is checked once, when it comes.
CheckOnArrival(s) ==
    /\ pc[s] \in Calls /\ s \notin calling
    /\ IF spent >= Budget /\ pc[s] \in {"compile", "prose"}
       THEN Done(s) /\ UNCHANGED calling
       ELSE calling' = calling \cup {s} /\ UNCHANGED <<pc, edit>>
    /\ UNCHANGED <<role, spent>>

\* _check_budget, before every call: 429, or an answer without words.
Check(s) ==
    /\ pc[s] \in Calls /\ s \notin calling
    /\ IF spent >= Budget
       THEN Done(s) /\ UNCHANGED calling
       ELSE calling' = calling \cup {s} /\ UNCHANGED <<pc, edit>>
    /\ UNCHANGED <<role, spent>>

\* The model answers and its tokens are recorded.  An answer that does not compile is
\* sent back once, and then refused (422).
Answer(s, tokens) ==
    /\ s \in calling
    /\ spent' = spent + tokens
    /\ calling' = calling \ {s}
    /\ CASE pc[s] = "compile" -> \E place \in {"query", "repair"} : Goto(s, place)
         [] pc[s] = "repair"  -> \E place \in {"query", "idle"} : Goto(s, place)
         [] OTHER             -> Goto(s, "idle")
    /\ UNCHANGED <<role, edit>>

\* The query that was compiled is run; what is left is to phrase its answer.
Query(s) ==
    /\ pc[s] = "query"
    /\ Goto(s, "phrase")
    /\ UNCHANGED <<role, spent, calling, edit>>

-----------------------------------------------------------------------------
\* A statement, a query or the model fails, or its answer, once recorded, has no
\* content: the request is over, and its transaction rolled back.
Fail(s, tokens) ==
    /\ pc[s] # "idle"
    /\ spent' \in IF s \in calling THEN {spent, spent + tokens} ELSE {spent}
    /\ calling' = calling \ {s}
    /\ Done(s)
    /\ UNCHANGED role

\* The usage of another month does not count.
NewMonth ==
    /\ spent' = 0
    /\ UNCHANGED <<role, pc, calling, edit>>

OrgNext ==
    \/ \E s \in Slots :
          \/ \E u, v \in Users, r \in Roles : AddMember(s, u, v, r)
          \/ LoadMembership(s) \/ CommitMembership(s)
          \/ Begin(s) \/ Check(s) \/ Query(s)
          \/ \E tokens \in 0..MaxTokens : Answer(s, tokens) \/ Fail(s, tokens)
    \/ NewMonth

OrgSpec == OrgInit /\ [][OrgNext]_orgVars

-----------------------------------------------------------------------------
(* Properties.                                                              *)

\* Type invariant; only calls wait for the model.
OrgTypeOK ==
    /\ role \in [Users -> Roles \cup {"none"}]
    /\ spent \in Nat
    /\ pc \in [Slots -> Places]
    /\ calling \subseteq Slots /\ \A s \in calling : pc[s] \in Calls
    /\ edit \in [Slots -> Edits \cup {NoEdit}]
    /\ \A s \in Slots : pc[s] \in {"load", "commit"} => edit[s] \in Edits

\* "Monthly AI budget" (gateway.py): the check and the record of a call are apart, yet a
\* month is overspent by no more than one call of each request in hand.
OverspendIsBounded == spent > 0 => spent < Budget + Cardinality(Slots) * MaxTokens

\* "Owner is not grantable/revocable by admins" (add_member): whoever makes or unmakes
\* an owner was one when it asked, unless the membership changed under the request.
OwnersAnswerForOwners ==
    [][\A u \in Users :
          (role[u] = "owner") # (role'[u] = "owner") =>
              \E s \in Slots :
                  /\ pc[s] = "commit" /\ edit[s].target = u /\ pc'[s] = "idle"
                  /\ edit[s].held = "owner" \/ edit[s].was # role[u]]_orgVars

=============================================================================
