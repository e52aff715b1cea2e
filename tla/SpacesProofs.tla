---------------------------- MODULE SpacesProofs ----------------------------
(***************************************************************************)
(* What Spaces promises, for any number of Spaces, ids, callers and         *)
(* retries.  Inv is inductive as it stands: that a Space is deleted only at *)
(* issue_count 0 keeps every Issue in a Space because the count is exact,   *)
(* and the count stays exact, and never negative, because no Issue is       *)
(* created or deleted without the Space that counts it.                     *)
(***************************************************************************)
EXTENDS Spaces, FiniteSetTheorems, TLAPS

Inv == TypeOK /\ CountExact /\ NoHomelessIssue

-----------------------------------------------------------------------------
\* A Space has finitely many Issues: gen_issue_id draws from a finite alphabet.
LEMMA InsideFinite ==
    ASSUME issues \subseteq IssueKeys, NEW s \in SpaceIds
    PROVE  IsFiniteSet(Inside(s))
<1>1. IsFiniteSet({s})
  BY FS_Singleton
<1>2. IsFiniteSet({s} \X IssueIds)
  BY <1>1, IdsAssumption, FS_Product
<1>3. Inside(s) \subseteq {s} \X IssueIds
  BY DEF Inside, IssueKeys
<1> QED
  BY <1>2, <1>3, FS_Subset

\* Retry, and every other end of a step, leaves each caller in a call or idle.
LEMMA RetryTyped ==
    ASSUME TypeOK, NEW c \in Callers, call[c] \in Calls, Retry(c)
    PROVE  call' \in [Callers -> Calls \cup {Idle}]
<1>1. CASE call[c].attempts = 1
  BY <1>1 DEF TypeOK, Retry, Return
<1>2. CASE call[c].attempts # 1
  <2>1. [call[c] EXCEPT !.attempts = @ - 1, !.rolls = RETRY_ISSUE_ID_COLLISIONS] \in Calls
    <3>1. call[c].attempts - 1 \in 1 .. TRANSACT_RETRY_ATTEMPTS
      <4>1. call[c].attempts \in 1 .. TRANSACT_RETRY_ATTEMPTS
        BY DEF Calls
      <4> QED
        BY <1>2, <4>1, RetriesAssumption
    <3>2. RETRY_ISSUE_ID_COLLISIONS \in 1 .. RETRY_ISSUE_ID_COLLISIONS
      BY RetriesAssumption
    <3> QED
      BY <3>1, <3>2 DEF Calls
  <2>2. call' = [call EXCEPT ![c] =
             [call[c] EXCEPT !.attempts = @ - 1, !.rolls = RETRY_ISSUE_ID_COLLISIONS]]
    BY <1>2 DEF Retry, TypeOK
  <2> QED
    BY <2>1, <2>2 DEF TypeOK
<1> QED
  BY <1>1, <1>2

\* Idle is no call of any operation, so a caller in one has a whole record.
LEMMA InCall ==
    ASSUME TypeOK, NEW c \in Callers, call[c] # Idle
    PROVE  call[c] \in Calls
BY DEF TypeOK

-----------------------------------------------------------------------------
\* The empty table satisfies the invariant.
LEMMA InitInv == Init => Inv
<1> SUFFICES ASSUME Init PROVE Inv
  OBVIOUS
<1>1. TypeOK
  BY DEF Init, TypeOK
<1>2. CountExact /\ NoHomelessIssue
  BY DEF Init, CountExact, NoHomelessIssue
<1> QED
  BY <1>1, <1>2 DEF Inv

\* Whatever leaves the three tables alone keeps the invariant.
LEMMA SameTables ==
    ASSUME Inv, UNCHANGED <<spaces, issue_count, issues>>,
           call' \in [Callers -> Calls \cup {Idle}]
    PROVE  Inv'
BY DEF Inv, TypeOK, CountExact, NoHomelessIssue, Inside

\* create_issue: the Put and the count of its Space move as one.
LEMMA CreateIssueStep ==
    ASSUME Inv, NEW c \in Callers, CommitCreateIssue(c)
    PROVE  Inv'
<1> DEFINE s == call[c].space
           i == call[c].id
           key == <<s, i>>
<1>1. call[c] \in Calls
  BY InCall DEF Inv, CommitCreateIssue, Held
<1>2. s \in SpaceIds /\ i \in IssueIds
  BY <1>1 DEF Calls
<1>3. CASE /\ Countable(s) /\ key \notin issues
           /\ issues' = issues \cup {key}
           /\ Count(s, 1) /\ Return(c) /\ UNCHANGED spaces
  <2>1. TypeOK'
    BY <1>2, <1>3 DEF Inv, TypeOK, Count, Return, IssueKeys
  <2>2. CountExact'
    <3> SUFFICES ASSUME NEW t \in spaces
                 PROVE  issue_count'[t] = Cardinality(Inside(t)')
      BY <1>3 DEF CountExact
    <3>1. t \in SpaceIds /\ issue_count[t] = Cardinality(Inside(t))
      BY DEF Inv, TypeOK, CountExact
    <3>2. CASE t = s
      <4>1. Inside(t)' = Inside(t) \cup {key}
        BY <1>3, <3>2 DEF Inside
      <4>2. key \notin Inside(t)
        BY <1>3 DEF Inside
      <4>3. Cardinality(Inside(t) \cup {key}) = Cardinality(Inside(t)) + 1
        <5>1. IsFiniteSet(Inside(t))
          BY <3>1, InsideFinite DEF Inv, TypeOK
        <5> QED
          BY <4>2, <5>1, FS_AddElement
      <4>4. issue_count'[t] = issue_count[t] + 1
        BY <1>2, <1>3, <3>2 DEF Inv, TypeOK, Count
      <4> QED
        BY <3>1, <4>1, <4>3, <4>4
    <3>3. CASE t # s
      <4>1. Inside(t)' = Inside(t)
        BY <1>3, <3>3 DEF Inside
      <4>2. issue_count'[t] = issue_count[t]
        BY <1>3, <3>1, <3>3 DEF Inv, TypeOK, Count
      <4> QED
        BY <3>1, <4>1, <4>2
    <3> QED
      BY <3>2, <3>3
  <2>3. NoHomelessIssue'
    BY <1>3 DEF Inv, NoHomelessIssue, Countable
  <2> QED
    BY <2>1, <2>2, <2>3 DEF Inv
<1>4. CASE ~Countable(s) /\ Return(c) /\ UNCHANGED <<spaces, issues, issue_count>>
  BY <1>4, SameTables DEF Inv, TypeOK, Return
<1>5. CASE /\ Countable(s) /\ key \in issues
           /\ IF call[c].rolls = 1
                THEN Return(c)
                ELSE call' = [call EXCEPT ![c].at = "ready", ![c].rolls = @ - 1]
           /\ UNCHANGED <<spaces, issues, issue_count>>
  <2>1. call' \in [Callers -> Calls \cup {Idle}]
    <3>1. CASE call[c].rolls = 1
      BY <1>5, <3>1 DEF Inv, TypeOK, Return
    <3>2. CASE call[c].rolls # 1
      <4>1. [call[c] EXCEPT !.at = "ready", !.rolls = @ - 1] \in Calls
        <5>1. call[c].rolls - 1 \in 1 .. RETRY_ISSUE_ID_COLLISIONS
          <6>1. call[c].rolls \in 1 .. RETRY_ISSUE_ID_COLLISIONS
            BY <1>1 DEF Calls
          <6> QED
            BY <3>2, <6>1, RetriesAssumption
        <5> QED
          BY <1>1, <5>1 DEF Calls
      <4>2. call' = [call EXCEPT ![c] = [call[c] EXCEPT !.at = "ready", !.rolls = @ - 1]]
        BY <1>5, <3>2 DEF Inv, TypeOK
      <4> QED
        BY <4>1, <4>2 DEF Inv, TypeOK
    <3> QED
      BY <3>1, <3>2
  <2> QED
    BY <1>5, <2>1, SameTables
<1> QED
  BY <1>3, <1>4, <1>5 DEF CommitCreateIssue

\* delete_issue: the Delete and the count move as one, and the count had it.
LEMMA DeleteIssueStep ==
    ASSUME Inv, NEW c \in Callers, CommitDeleteIssue(c)
    PROVE  Inv'
<1> DEFINE s == call[c].space
           key == <<s, call[c].id>>
<1>1. call[c] \in Calls
  BY InCall DEF Inv, CommitDeleteIssue, Held
<1>2. s \in SpaceIds
  BY <1>1 DEF Calls
<1>3. call' \in [Callers -> Calls \cup {Idle}]
  BY DEF Inv, TypeOK, CommitDeleteIssue, Return
<1>4. CASE ~Deletable(s, call[c].id)
  BY <1>3, <1>4, SameTables DEF CommitDeleteIssue
<1>5. CASE Deletable(s, call[c].id)
  <2>1. /\ key \in issues /\ s \in spaces
        /\ issues' = issues \ {key} /\ spaces' = spaces
        /\ issue_count' = [issue_count EXCEPT ![s] = @ - 1]
    <3>1. key \in issues /\ s \in spaces
      BY <1>5 DEF Deletable, Countable
    <3>2. issues' = issues \ {key} /\ spaces' = spaces
      BY <1>5 DEF CommitDeleteIssue
    <3>3. issue_count' = [issue_count EXCEPT ![s] = @ + (-1)]
      BY <1>5 DEF CommitDeleteIssue, Count
    <3>4. issue_count[s] \in Nat
      BY <1>2 DEF Inv, TypeOK
    <3>5. issue_count[s] + (-1) = issue_count[s] - 1
      BY <3>4
    <3> QED
      BY <3>1, <3>2, <3>3, <3>5
  <2>2. IsFiniteSet(Inside(s)) /\ key \in Inside(s)
    BY <1>2, <2>1, InsideFinite DEF Inv, TypeOK, Inside
  <2>3. /\ Cardinality(Inside(s) \ {key}) = Cardinality(Inside(s)) - 1
        /\ Cardinality(Inside(s) \ {key}) \in Nat
    BY <2>2, FS_RemoveElement, FS_CardinalityType
  <2>4. issue_count[s] = Cardinality(Inside(s))
    BY <2>1 DEF Inv, CountExact
  <2>5. issue_count'[s] = Cardinality(Inside(s) \ {key})
    BY <1>2, <2>1, <2>3, <2>4 DEF Inv, TypeOK
  <2>6. TypeOK'
    <3>1. issue_count' \in [SpaceIds -> Nat]
      BY <2>1, <2>3, <2>4 DEF Inv, TypeOK
    <3> QED
      BY <1>3, <2>1, <3>1 DEF Inv, TypeOK
  <2>7. CountExact'
    <3> SUFFICES ASSUME NEW t \in spaces
                 PROVE  issue_count'[t] = Cardinality(Inside(t)')
      BY <2>1 DEF CountExact
    <3>1. CASE t = s
      <4>1. Inside(t)' = Inside(s) \ {key}
        BY <2>1, <3>1 DEF Inside
      <4> QED
        BY <2>5, <3>1, <4>1
    <3>2. CASE t # s
      <4>1. Inside(t)' = Inside(t)
        BY <2>1, <3>2 DEF Inside
      <4>2. issue_count'[t] = issue_count[t]
        BY <2>1, <3>2 DEF Inv, TypeOK
      <4> QED
        BY <4>1, <4>2 DEF Inv, CountExact
    <3> QED
      BY <3>1, <3>2
  <2>8. NoHomelessIssue'
    BY <2>1 DEF Inv, NoHomelessIssue
  <2> QED
    BY <2>6, <2>7, <2>8 DEF Inv
<1> QED
  BY <1>4, <1>5

\* create_space: a new Space has no Issue, because no Issue is without a Space.
LEMMA CreateSpaceStep ==
    ASSUME Inv, NEW c \in Callers, CreateSpace(c)
    PROVE  Inv'
<1> DEFINE s == call[c].space
<1>1. call[c] \in Calls
  BY InCall DEF Inv, CreateSpace, Ready
<1>2. s \in SpaceIds
  BY <1>1 DEF Calls
<1>3. call' \in [Callers -> Calls \cup {Idle}]
  <2>1. Retry(c) \/ Return(c)
    BY DEF CreateSpace
  <2> QED
    BY <1>1, <2>1, RetryTyped DEF Inv, TypeOK, Return
<1>4. CASE HoldsSpace(s) \/ s \in spaces
  BY <1>3, <1>4, SameTables DEF CreateSpace
<1>5. CASE ~HoldsSpace(s) /\ s \notin spaces
  <2>1. /\ spaces' = spaces \cup {s} /\ issues' = issues
        /\ issue_count' = [issue_count EXCEPT ![s] = 0]
    BY <1>5 DEF CreateSpace
  <2>2. TypeOK'
    BY <1>2, <1>3, <2>1 DEF Inv, TypeOK
  <2>3. CountExact'
    <3> SUFFICES ASSUME NEW t \in spaces \cup {s}
                 PROVE  issue_count'[t] = Cardinality(Inside(t)')
      BY <2>1 DEF CountExact
    <3>1. Inside(t)' = Inside(t)
      BY <2>1 DEF Inside
    <3>2. CASE t = s
      <4>1. Inside(t) = {}
        BY <1>5, <3>2 DEF Inv, NoHomelessIssue, Inside
      <4>2. issue_count'[t] = 0
        BY <1>2, <2>1, <3>2 DEF Inv, TypeOK
      <4> QED
        BY <3>1, <4>1, <4>2, FS_EmptySet
    <3>3. CASE t # s
      <4>1. t \in spaces /\ issue_count'[t] = issue_count[t]
        BY <2>1, <3>3 DEF Inv, TypeOK
      <4> QED
        BY <3>1, <4>1 DEF Inv, CountExact
    <3> QED
      BY <3>2, <3>3
  <2>4. NoHomelessIssue'
    BY <2>1 DEF Inv, NoHomelessIssue
  <2> QED
    BY <2>2, <2>3, <2>4 DEF Inv
<1> QED
  BY <1>4, <1>5

\* delete_space: a count of 0 that is exact means that there is no Issue.
LEMMA DeleteSpaceStep ==
    ASSUME Inv, NEW c \in Callers, DeleteSpace(c)
    PROVE  Inv'
<1> DEFINE s == call[c].space
<1>1. call[c] \in Calls
  BY InCall DEF Inv, DeleteSpace, Ready
<1>2. s \in SpaceIds
  BY <1>1 DEF Calls
<1>3. call' \in [Callers -> Calls \cup {Idle}]
  <2>1. Retry(c) \/ Return(c)
    BY DEF DeleteSpace
  <2> QED
    BY <1>1, <2>1, RetryTyped DEF Inv, TypeOK, Return
<1>4. CASE spaces' = spaces
  BY <1>3, <1>4, SameTables DEF DeleteSpace
<1>5. CASE spaces' # spaces
  <2>1. /\ Empty(s) /\ spaces' = spaces \ {s}
        /\ issues' = issues /\ issue_count' = issue_count
    BY <1>5 DEF DeleteSpace
  <2>2. Inside(s) = {}
    <3>1. Cardinality(Inside(s)) = 0
      BY <2>1 DEF Empty, Inv, CountExact
    <3>2. IsFiniteSet(Inside(s))
      BY <1>2, InsideFinite DEF Inv, TypeOK
    <3> QED
      BY <3>1, <3>2, FS_EmptySet
  <2>3. TypeOK'
    BY <1>3, <2>1 DEF Inv, TypeOK
  <2>4. CountExact'
    BY <2>1 DEF Inv, CountExact, Inside
  <2>5. NoHomelessIssue'
    BY <2>1, <2>2 DEF Inv, NoHomelessIssue, Inside
  <2> QED
    BY <2>3, <2>4, <2>5 DEF Inv
<1> QED
  BY <1>4, <1>5

\* A call that begins, is accepted, or fails, changes no row.
LEMMA CallStep ==
    ASSUME Inv, NEW c \in Callers,
           \/ \E op \in Transactions \cup Writes, s \in SpaceIds, i \in IssueIds :
                 Begin(c, op, s, i)
           \/ \E i \in IssueIds : Prepare(c, i)
           \/ Fail(c)
    PROVE  Inv'
<1>1. UNCHANGED <<spaces, issue_count, issues>>
  BY DEF Begin, Prepare, Fail
<1>2. call' \in [Callers -> Calls \cup {Idle}]
  <2>1. CASE \E op \in Transactions \cup Writes, s \in SpaceIds, i \in IssueIds :
                Begin(c, op, s, i)
    BY <2>1, RetriesAssumption DEF Inv, TypeOK, Begin, Calls
  <2>2. CASE \E i \in IssueIds : Prepare(c, i)
    <3>1. PICK i \in IssueIds : Prepare(c, i)
      BY <2>2
    <3>2. call[c] \in Calls
      BY <3>1, InCall DEF Inv, Prepare, Ready
    <3>3. CASE Retry(c)
      BY <3>2, <3>3, RetryTyped DEF Inv
    <3>4. CASE call' = [call EXCEPT ![c].at = "held", ![c].id = i]
      <4>1. [call[c] EXCEPT !.at = "held", !.id = i] \in Calls
        BY <3>2 DEF Calls
      <4>2. call' = [call EXCEPT ![c] = [call[c] EXCEPT !.at = "held", !.id = i]]
        BY <3>4 DEF Inv, TypeOK
      <4> QED
        BY <4>1, <4>2 DEF Inv, TypeOK
    <3> QED
      BY <3>1, <3>3, <3>4 DEF Prepare
  <2>3. CASE Fail(c)
    BY <2>3 DEF Inv, TypeOK, Fail, Return
  <2> QED
    BY <2>1, <2>2, <2>3
<1> QED
  BY <1>1, <1>2, SameTables

-----------------------------------------------------------------------------
\* Every step keeps the invariant.
THEOREM Inductive == Inv /\ [Next]_vars => Inv'
<1> SUFFICES ASSUME Inv, [Next]_vars PROVE Inv'
  OBVIOUS
<1>1. CASE UNCHANGED vars
  BY <1>1, SameTables DEF vars, Inv, TypeOK
<1>2. CASE Next
  <2>1. PICK c \in Callers :
           \/ \E op \in Transactions \cup Writes, s \in SpaceIds, i \in IssueIds :
                 Begin(c, op, s, i)
           \/ Step(c)
           \/ Fail(c)
    BY <1>2 DEF Next
  <2>2. CASE CommitCreateIssue(c)
    BY <2>2, CreateIssueStep
  <2>3. CASE CommitDeleteIssue(c)
    BY <2>3, DeleteIssueStep
  <2>4. CASE CreateSpace(c)
    BY <2>4, CreateSpaceStep
  <2>5. CASE DeleteSpace(c)
    BY <2>5, DeleteSpaceStep
  <2>6. CASE \E i \in IssueIds : Prepare(c, i)
    BY <2>6, CallStep
  <2>7. CASE \/ \E op \in Transactions \cup Writes, s \in SpaceIds, i \in IssueIds :
                   Begin(c, op, s, i)
             \/ Fail(c)
    BY <2>7, CallStep
  <2> QED
    BY <2>1, <2>2, <2>3, <2>4, <2>5, <2>6, <2>7 DEF Step
<1> QED
  BY <1>1, <1>2

\* The invariant holds in every reachable state.
THEOREM Invariant == Spec => []Inv
<1> QED
  BY InitInv, Inductive, PTL DEF Spec

\* Every variable keeps its type: issue_count in particular is never negative.
THEOREM TypeCorrect == Spec => []TypeOK
<1>1. Inv => TypeOK
  BY DEF Inv
<1> QED
  BY <1>1, Invariant, PTL

\* issue_count is the number of Issues of its Space in every reachable state.
THEOREM CountIsExact == Spec => []CountExact
<1>1. Inv => CountExact
  BY DEF Inv
<1> QED
  BY <1>1, Invariant, PTL

\* An Issue is never without its Space: the branch of delete_issue that finds the
\* Space missing is unreachable.
THEOREM NoIssueIsHomeless == Spec => []NoHomelessIssue
<1>1. Inv => NoHomelessIssue
  BY DEF Inv
<1> QED
  BY <1>1, Invariant, PTL
=============================================================================
