------------------------------ MODULE Updates ------------------------------
(***************************************************************************)
(* Edits of one row under a version fence: update_space, update_issue,      *)
(* transition_issue and update_issue_comment, which build their write with  *)
(* _build_update and send it with apply_update (manager.py), retried by     *)
(* retry_on_transaction_conflict (util.py).                                 *)
(*                                                                         *)
(* A caller reads a row, and later edits it on the version it read or on no *)
(* version.  Meanwhile the row is edited, deleted and created again by      *)
(* others, and held by transactions that count children of it (its version  *)
(* stays) or, for an Issue, move num_active_blockers (its version moves).   *)
(*                                                                         *)
(* The reply to a write may be lost: the AWS client then sends the same     *)
(* write again, which meets what the first one left, or gives up.           *)
(*                                                                         *)
(* edition and birth are history variables.  edition is a number the row    *)
(* never had before, drawn whenever its content is written; birth is the    *)
(* edition of the row's creation.  The code has no such thing.              *)
(***************************************************************************)
EXTENDS Integers, FiniteSets

CONSTANTS
    Rows,
    Kind,         \* what each row is: "Space", "Issue" or "IssueComment"
    Callers,
    TRANSACT_RETRY_ATTEMPTS,
    MaxEditions,  \* bound on the writes to one row
    MaxLost       \* bound on the replies lost in one call

ASSUME KindAssumption == Kind \in [Rows -> {"Space", "Issue", "IssueComment"}]
ASSUME AttemptsAssumption == TRANSACT_RETRY_ATTEMPTS \in Nat \ {0}
ASSUME BoundAssumption == MaxEditions \in Nat /\ MaxLost \in Nat

VARIABLES
    version,   \* the version of each row, NoRow where there is none
    edition,   \* the content of each row
    birth,     \* the content each row was created with
    lagging,   \* the <<version, content, birth>> a lagging copy shows
    held,      \* rows held by a transaction in flight
    call       \* the call each caller is in, or has returned from

vars == <<version, edition, birth, lagging, held, call>>

NoRow == 0
Live(r) == version[r] # NoRow
Copy(r) == <<version[r], edition[r], birth[r]>>

NoCall == [at |-> "none"]
Unfenced == 0
Outcomes == {"written", "missing", "stale", "conflict", "failed"}

Init ==
    /\ version = [r \in Rows |-> NoRow]
    /\ edition = [r \in Rows |-> 0]
    /\ birth = edition
    /\ lagging = [r \in Rows |-> <<NoRow, 0, 0>>]
    /\ held = {}
    /\ call = [c \in Callers |-> NoCall]

\* The row's content becomes one it never had.
Rewrite(r, v) ==
    /\ edition[r] < MaxEditions
    /\ edition' = [edition EXCEPT ![r] = @ + 1]
    /\ version' = [version EXCEPT ![r] = v]

-----------------------------------------------------------------------------
(***************************************************************************)
(* What others do to a row.                                                *)
(***************************************************************************)
\* A row starts at version 1.  The id of a comment is never drawn twice.
Create(r) ==
    /\ ~Live(r) /\ r \notin held
    /\ edition[r] = 0 \/ Kind[r] # "IssueComment"
    /\ Rewrite(r, 1)
    /\ birth' = [birth EXCEPT ![r] = edition'[r]]
    /\ UNCHANGED <<lagging, held, call>>

Delete(r) ==
    /\ Live(r) /\ r \notin held
    /\ version' = [version EXCEPT ![r] = NoRow]
    /\ UNCHANGED <<edition, birth, lagging, held, call>>

Hold(r) ==
    /\ r \notin held
    /\ held' = held \cup {r}
    /\ UNCHANGED <<version, edition, birth, lagging, call>>

\* issue_count, num_comments and num_attachments move without the version.
MutantCounted(r) ==
    IF Live(r) THEN version' = [version EXCEPT ![r] = @ + 1] ELSE UNCHANGED version
Counted(r) == UNCHANGED version

CountChildren(r) ==
    /\ r \in held
    /\ held' = held \ {r}
    /\ Counted(r)
    /\ UNCHANGED <<edition, birth, lagging, call>>

\* num_active_blockers moves with it, and with the status it may change.
MoveActiveBlockers(r) ==
    /\ r \in held /\ Live(r) /\ Kind[r] = "Issue"
    /\ held' = held \ {r}
    /\ Rewrite(r, version[r] + 1)
    /\ UNCHANGED <<birth, lagging, call>>

Propagate(r) ==
    /\ lagging[r] # Copy(r)
    /\ lagging' = [lagging EXCEPT ![r] = Copy(r)]
    /\ UNCHANGED <<version, edition, birth, held, call>>

-----------------------------------------------------------------------------
(***************************************************************************)
(* What a caller does.                                                     *)
(***************************************************************************)
\* update_issue_comment has no retry_on_transaction_conflict.
MutantAttempts(r) == TRANSACT_RETRY_ATTEMPTS - 1
Attempts(r) == IF Kind[r] = "IssueComment" THEN 1 ELSE TRANSACT_RETRY_ATTEMPTS

\* The caller reads the row, and calls with the version it found or with none.
Read(c, r) ==
    /\ call[c] = NoCall
    /\ \E copy \in {Copy(r), lagging[r]} :
          /\ copy[1] # NoRow
          /\ \E fence \in {copy[1], Unfenced} :
                call' = [call EXCEPT ![c] =
                   [at |-> "writing", row |-> r, fence |-> fence, read |-> copy[2],
                    life |-> copy[3], met |-> 0, lost |-> 0, left |-> Attempts(r)]]
    /\ UNCHANGED <<version, edition, birth, lagging, held>>

Outcome(c, result) == call' = [call EXCEPT ![c].at = result]

\* The version clause of the ConditionExpression.
FenceHolds(r, fence) == fence = Unfenced \/ version[r] = fence

\* Every write bumps the version.
MutantBumped(r) == version[r]
Bumped(r) == version[r] + 1

Conflict(c) ==
    /\ call[c].at = "writing" /\ call[c].row \in held
    /\ call' = [call EXCEPT ![c].at = IF call[c].left = 1 THEN "conflict" ELSE @,
                            ![c].left = @ - 1, ![c].met = @ + 1]
    /\ UNCHANGED <<version, edition, birth, lagging, held>>

Apply(c) ==
    LET r == call[c].row IN
    /\ call[c].at = "writing" /\ r \notin held
    /\ \/ /\ ~Live(r) /\ Outcome(c, "missing")
          /\ UNCHANGED <<version, edition>>
       \/ /\ Live(r) /\ ~FenceHolds(r, call[c].fence) /\ Outcome(c, "stale")
          /\ UNCHANGED <<version, edition>>
       \/ /\ Live(r) /\ FenceHolds(r, call[c].fence) /\ Outcome(c, "written")
          /\ Rewrite(r, Bumped(r))
    /\ UNCHANGED <<birth, lagging, held>>

\* The write is applied and its reply lost.  What a refusal leaves, when its reply
\* is lost, is what was there: it is as if it had not been sent yet.
LoseReply(c) ==
    LET r == call[c].row IN
    /\ call[c].at = "writing" /\ call[c].lost < MaxLost
    /\ r \notin held /\ Live(r) /\ FenceHolds(r, call[c].fence)
    /\ Rewrite(r, Bumped(r))
    /\ \E next \in {"writing", "failed"} :
          call' = [call EXCEPT ![c].at = next, ![c].lost = @ + 1]
    /\ UNCHANGED <<birth, lagging, held>>

Return(c) ==
    /\ call[c].at \in Outcomes
    /\ call' = [call EXCEPT ![c] = NoCall]
    /\ UNCHANGED <<version, edition, birth, lagging, held>>

Next ==
    \/ \E r \in Rows : \/ Create(r) \/ Delete(r) \/ Hold(r) \/ CountChildren(r)
                       \/ MoveActiveBlockers(r) \/ Propagate(r)
    \/ \E c \in Callers, r \in Rows : Read(c, r)
    \/ \E c \in Callers : Conflict(c) \/ Apply(c) \/ LoseReply(c) \/ Return(c)

Spec == Init /\ [][Next]_vars

-----------------------------------------------------------------------------
(***************************************************************************)
(* Properties                                                              *)
(***************************************************************************)
Editions == 0 .. MaxEditions
Calls == {NoCall} \cup
    [at : {"writing"} \cup Outcomes, row : Rows, fence : Editions, read : Editions,
     life : Editions, lost : 0 .. MaxLost,
     met : 0 .. TRANSACT_RETRY_ATTEMPTS, left : 0 .. TRANSACT_RETRY_ATTEMPTS]

\* The type of every variable.
TypeOK ==
    /\ version \in [Rows -> Editions] /\ edition \in [Rows -> Editions]
    /\ birth \in [Rows -> Editions]
    /\ lagging \in [Rows -> Editions \X Editions \X Editions]
    /\ held \subseteq Rows
    /\ call \in [Callers -> Calls]

Fenced(c) == call[c].at \in {"writing"} \cup Outcomes /\ call[c].fence # Unfenced
Became(c, result) == call[c].at = "writing" /\ call'[c].at = result

Wrote(c) == call'[c] # call[c] /\ edition' # edition

\* A fenced write is applied only to the content its caller read, or to a row
\* created under the same id since: a version numbers the edits of one row, not of
\* the ones that had its id before.  A write sent again after a lost reply is no
\* exception: it is applied once, and overwrites no edit made in between.
FencedIsFresh ==
    [][\A c \in Callers : Fenced(c) /\ Wrote(c)
          => \/ edition[call[c].row] = call[c].read
             \/ birth[call[c].row] # call[c].life]_vars

\* A fenced write is refused as stale only if the content did change since: no
\* traffic of children, and no counting of them, fails it.  The change may be its own.
StaleIsStale ==
    [][\A c \in Callers : Became(c, "stale") => edition[call[c].row] # call[c].read]_vars

\* DDBTransactionConflictError reaches a caller only after every retry.
RetriedBeforeConflict ==
    \A c \in Callers : call[c].at = "conflict" => call[c].met = TRANSACT_RETRY_ATTEMPTS
=============================================================================
