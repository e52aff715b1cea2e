------------------------------- MODULE Spaces -------------------------------
(***************************************************************************)
(* Spaces and the Issues counted against them: create_space, delete_space   *)
(* (mixins/space.py), create_issue, delete_issue (mixins/issue.py) and the  *)
(* retry of a call that met a transaction (util.py).                        *)
(*                                                                         *)
(* A transact_write_items holds its keys from the moment DynamoDB accepts   *)
(* it to the moment it commits or is cancelled; any other write to one of   *)
(* them is rejected meanwhile, and the call that made it starts again, up   *)
(* to TRANSACT_RETRY_ATTEMPTS times.  create_issue draws a new id when the  *)
(* one it drew is taken, up to RETRY_ISSUE_ID_COLLISIONS times.  The rows   *)
(* of an Issue other than its info row are in IssueBlocking and             *)
(* Attachments; names, descriptions and versions are in Updates.            *)
(***************************************************************************)
EXTENDS Integers, FiniteSets

CONSTANTS
    SpaceIds,                   \* ids callers give to Spaces
    IssueIds,                   \* what gen_issue_id may draw
    Callers,                    \* concurrent callers
    RETRY_ISSUE_ID_COLLISIONS,
    TRANSACT_RETRY_ATTEMPTS

ASSUME IdsAssumption == IsFiniteSet(IssueIds)
ASSUME RetriesAssumption ==
    RETRY_ISSUE_ID_COLLISIONS \in Nat \ {0} /\ TRANSACT_RETRY_ATTEMPTS \in Nat \ {0}

VARIABLES
    spaces,       \* the ids with a SpaceInfo row
    issue_count,  \* SpaceInfo.issue_count; read only where the row exists
    issues,       \* the IssueInfo rows, as <<space_id, issue_id>>
    call          \* the call each caller is in

vars == <<spaces, issue_count, issues, call>>

IssueKeys == SpaceIds \X IssueIds
Inside(s) == {k \in issues : k[1] = s}

Transactions == {"create_issue", "delete_issue"}
Writes == {"create_space", "delete_space"}

\* A call before its write, or holding the keys of its transaction.
Idle == [op |-> "none"]
Calls == [op : Transactions \cup Writes, at : {"ready", "held"}, space : SpaceIds,
          id : IssueIds, rolls : 1 .. RETRY_ISSUE_ID_COLLISIONS,
          attempts : 1 .. TRANSACT_RETRY_ATTEMPTS]

Init ==
    /\ spaces = {}
    /\ issue_count = [s \in SpaceIds |-> 0]
    /\ issues = {}
    /\ call = [c \in Callers |-> Idle]

-----------------------------------------------------------------------------
Begin(c, op, s, i) ==
    /\ call[c] = Idle
    /\ call' = [call EXCEPT ![c] =
          [op |-> op, at |-> "ready", space |-> s, id |-> i,
           rolls |-> RETRY_ISSUE_ID_COLLISIONS, attempts |-> TRANSACT_RETRY_ATTEMPTS]]
    /\ UNCHANGED <<spaces, issue_count, issues>>

Ready(c, op) == call[c] # Idle /\ call[c].op = op /\ call[c].at = "ready"
Held(c, op) == call[c] # Idle /\ call[c].op = op /\ call[c].at = "held"

\* The keys of Spaces and of Issues that c's transaction holds.
InFlight(c) == call[c] # Idle /\ call[c].at = "held"
HoldsSpace(s) == \E d \in Callers : InFlight(d) /\ call[d].space = s
HoldsIssue(s, i) == \E d \in Callers : InFlight(d) /\ call[d].space = s /\ call[d].id = i

Return(c) == call' = [call EXCEPT ![c] = Idle]

\* TransactionConflict: the whole call again, the rolls of create_issue included.
MutantRetry(c) == call' = [call EXCEPT ![c].rolls = RETRY_ISSUE_ID_COLLISIONS]
Retry(c) ==
    IF call[c].attempts = 1
      THEN Return(c)
      ELSE call' = [call EXCEPT ![c].attempts = @ - 1,
                                ![c].rolls = RETRY_ISSUE_ID_COLLISIONS]

\* A transaction is accepted with an id, or meets another on one of its keys.
Prepare(c, i) ==
    /\ \E op \in Transactions : Ready(c, op)
    /\ call[c].op = "delete_issue" => i = call[c].id
    /\ IF HoldsSpace(call[c].space) \/ HoldsIssue(call[c].space, i)
         THEN Retry(c)
         ELSE call' = [call EXCEPT ![c].at = "held", ![c].id = i]
    /\ UNCHANGED <<spaces, issue_count, issues>>

\* space_issue_count_update, which refuses when there is no Space.
MutantCountable(s) == TRUE
Countable(s) == s \in spaces

Count(s, d) == issue_count' = [issue_count EXCEPT ![s] = @ + d]

CommitCreateIssue(c) ==
    LET s == call[c].space key == <<call[c].space, call[c].id>> IN
    /\ Held(c, "create_issue")
    /\ \/ /\ Countable(s) /\ key \notin issues
          /\ issues' = issues \cup {key}
          /\ Count(s, 1)
          /\ Return(c)
       \/ /\ ~Countable(s)
          /\ Return(c)
          /\ UNCHANGED <<issues, issue_count>>
       \/ /\ Countable(s) /\ key \in issues
          /\ IF call[c].rolls = 1
               THEN Return(c)
               ELSE call' = [call EXCEPT ![c].at = "ready", ![c].rolls = @ - 1]
          /\ UNCHANGED <<issues, issue_count>>
    /\ UNCHANGED spaces

\* The Delete of the info row, conditioned on its being there.
MutantDeletable(s, i) == Countable(s)
Deletable(s, i) == <<s, i>> \in issues /\ Countable(s)

CommitDeleteIssue(c) ==
    LET s == call[c].space i == call[c].id IN
    /\ Held(c, "delete_issue")
    /\ IF Deletable(s, i)
         THEN issues' = issues \ {<<s, i>>} /\ Count(s, -1)
         ELSE UNCHANGED <<issues, issue_count>>
    /\ Return(c)
    /\ UNCHANGED spaces

CreateSpace(c) ==
    LET s == call[c].space IN
    /\ Ready(c, "create_space")
    /\ IF HoldsSpace(s)
         THEN Retry(c) /\ UNCHANGED <<spaces, issue_count>>
         ELSE /\ Return(c)
              /\ IF s \in spaces
                   THEN UNCHANGED <<spaces, issue_count>>
                   ELSE /\ spaces' = spaces \cup {s}
                        /\ issue_count' = [issue_count EXCEPT ![s] = 0]
    /\ UNCHANGED issues

\* The condition of delete_space.
MutantEmpty(s) == s \in spaces
Empty(s) == s \in spaces /\ issue_count[s] = 0

DeleteSpace(c) ==
    LET s == call[c].space IN
    /\ Ready(c, "delete_space")
    /\ IF HoldsSpace(s)
         THEN Retry(c) /\ UNCHANGED spaces
         ELSE /\ Return(c)
              /\ spaces' = IF Empty(s) THEN spaces \ {s} ELSE spaces
    /\ UNCHANGED <<issues, issue_count>>

\* Any other error: the write did not happen, and its keys are free again.
Fail(c) ==
    /\ call[c] # Idle
    /\ Return(c)
    /\ UNCHANGED <<spaces, issue_count, issues>>

Step(c) ==
    \/ \E i \in IssueIds : Prepare(c, i)
    \/ CommitCreateIssue(c) \/ CommitDeleteIssue(c)
    \/ CreateSpace(c) \/ DeleteSpace(c)

Next ==
    \E c \in Callers :
       \/ \E op \in Transactions \cup Writes, s \in SpaceIds, i \in IssueIds :
             Begin(c, op, s, i)
       \/ Step(c)
       \/ Fail(c)

Spec == Init /\ [][Next]_vars

\* A call that was made goes on; nobody has to make one, or to fail.
FairSpec == Spec /\ \A c \in Callers : WF_vars(Step(c))

-----------------------------------------------------------------------------
(***************************************************************************)
(* Properties                                                              *)
(***************************************************************************)
\* The type of every variable; an Issue is counted, or refused, never owed.
TypeOK ==
    /\ spaces \subseteq SpaceIds
    /\ issue_count \in [SpaceIds -> Nat]
    /\ issues \subseteq IssueKeys
    /\ call \in [Callers -> Calls \cup {Idle}]

\* issue_count is the number of Issues the Space has, whatever calls cross.
CountExact == \A s \in spaces : issue_count[s] = Cardinality(Inside(s))

\* No Issue without its Space: what delete_issue calls unreachable stays so.
NoHomelessIssue == \A k \in issues : k[1] \in spaces

\* Every call returns: a conflict is retried a bounded number of times, and no
\* two calls keep one another out for ever.
Returns == \A c \in Callers : call[c] # Idle ~> call[c] = Idle
=============================================================================
