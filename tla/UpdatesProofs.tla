--------------------------- MODULE UpdatesProofs ---------------------------
(***************************************************************************)
(* What the version fence of Updates promises, for any number of rows,      *)
(* callers, retries, lost replies and writes.                              *)
(*                                                                         *)
(* The version of a row numbers the edits of its life: it is the edition    *)
(* less the one the row was created with, plus one.  Whoever holds a copy   *)
(* of the row, lagging or read, holds the version, edition and birth of one *)
(* moment: the copy obeys the same equation, and as long as the row was not *)
(* created again since, its birth is the row's.  Two copies of one life are *)
(* then of one version exactly when they are of one edition.               *)
(***************************************************************************)
EXTENDS Updates, TLAPS

\* A copy <<v, e, b>> of a row that now is at edition ed of the life begun at bi.
Sound(v, e, b, ed, bi) ==
    v # NoRow => /\ v = e - b + 1 /\ b \in 1 .. e /\ e <= ed
                 /\ bi <= e => b = bi

RowsInv == \A r \in Rows : Sound(version[r], edition[r], birth[r], edition[r], birth[r])
LagInv ==
    \A r \in Rows :
        Sound(lagging[r][1], lagging[r][2], lagging[r][3], edition[r], birth[r])
\* NoRow is Unfenced: nothing is claimed of what an unfenced call read.
CallInv(c) ==
    call[c] # NoCall =>
        Sound(call[c].fence, call[c].read, call[c].life,
              edition[call[c].row], birth[call[c].row])
CallsInv == \A c \in Callers : CallInv(c)

\* Every try but the last one to come has met a conflict.
RetryInv ==
    \A c \in Callers :
        /\ call[c].at = "writing" => /\ call[c].left \in 1 .. Attempts(call[c].row)
                                     /\ call[c].met = Attempts(call[c].row) - call[c].left
        /\ call[c].at = "conflict" => call[c].met = Attempts(call[c].row)

Inv == TypeOK /\ RowsInv /\ LagInv /\ CallsInv /\ RetryInv

-----------------------------------------------------------------------------
\* A row never returns to an edition, and one created again is born past them all.
Onward ==
    \A r \in Rows : /\ edition[r] <= edition'[r]
                    /\ birth'[r] = birth[r] \/ edition[r] < birth'[r]

LEMMA StillSound ==
    ASSUME NEW v \in Int, NEW e \in Int, NEW b \in Int, NEW ed \in Int, NEW bi \in Int,
           NEW ed2 \in Int, NEW bi2 \in Int,
           Sound(v, e, b, ed, bi), ed <= ed2, bi2 = bi \/ ed < bi2
    PROVE  Sound(v, e, b, ed2, bi2)
BY DEF Sound

\* A caller that is in a call has a whole record.
LEMMA InCall ==
    ASSUME TypeOK, NEW c \in Callers, call[c].at \in {"writing"} \cup Outcomes
    PROVE  call[c] \in Calls \ {NoCall}
BY DEF TypeOK, Outcomes, NoCall

LEMMA CallTyped ==
    ASSUME TypeOK, NEW c \in Callers, call[c] # NoCall
    PROVE  /\ call[c].row \in Rows
           /\ call[c].fence \in Editions /\ call[c].read \in Editions
           /\ call[c].life \in Editions
           /\ call[c].met \in Nat /\ call[c].left \in Nat
           /\ call[c].met <= TRANSACT_RETRY_ATTEMPTS
           /\ call[c].left <= TRANSACT_RETRY_ATTEMPTS
           /\ call[c].at \in {"writing"} \cup Outcomes
BY AttemptsAssumption DEF TypeOK, Calls

LEMMA LagKept ==
    ASSUME Inv, TypeOK', Onward, UNCHANGED lagging
    PROVE  LagInv'
<1> SUFFICES ASSUME NEW r \in Rows
             PROVE  Sound(lagging[r][1], lagging[r][2], lagging[r][3],
                          edition'[r], birth'[r])
  BY DEF LagInv
<1>1. /\ lagging[r][1] \in Int /\ lagging[r][2] \in Int /\ lagging[r][3] \in Int
      /\ edition[r] \in Int /\ birth[r] \in Int /\ edition'[r] \in Int /\ birth'[r] \in Int
  BY DEF Inv, TypeOK, Editions
<1>2. Sound(lagging[r][1], lagging[r][2], lagging[r][3], edition[r], birth[r])
  BY DEF Inv, LagInv
<1> QED
  BY <1>1, <1>2, StillSound DEF Onward

LEMMA CallKept ==
    ASSUME Inv, TypeOK', Onward, NEW c \in Callers, call[c] # NoCall,
           call'[c].row = call[c].row, call'[c].fence = call[c].fence,
           call'[c].read = call[c].read, call'[c].life = call[c].life
    PROVE  CallInv(c)'
<1> DEFINE r == call[c].row
<1>1. /\ r \in Rows /\ call[c].fence \in Int /\ call[c].read \in Int /\ call[c].life \in Int
  BY CallTyped DEF Inv, Editions
<1>2. /\ edition[r] \in Int /\ birth[r] \in Int /\ edition'[r] \in Int /\ birth'[r] \in Int
  BY <1>1 DEF Inv, TypeOK, Editions
<1>3. Sound(call[c].fence, call[c].read, call[c].life, edition[r], birth[r])
  BY DEF Inv, CallsInv, CallInv
<1>4. edition[r] <= edition'[r] /\ (birth'[r] = birth[r] \/ edition[r] < birth'[r])
  BY <1>1 DEF Onward
<1>5. Sound(call[c].fence, call[c].read, call[c].life, edition'[r], birth'[r])
  BY <1>1, <1>2, <1>3, <1>4, StillSound
<1> QED
  BY <1>5 DEF CallInv

LEMMA CallsKept ==
    ASSUME Inv, TypeOK', Onward, UNCHANGED call
    PROVE  CallsInv' /\ RetryInv'
<1>1. ASSUME NEW c \in Callers PROVE CallInv(c)'
  <2>1. CASE call[c] = NoCall
    BY <2>1 DEF CallInv
  <2>2. CASE call[c] # NoCall
    BY <2>2, CallKept
  <2> QED
    BY <2>1, <2>2
<1>2. RetryInv'
  BY DEF Inv, RetryInv, Attempts
<1> QED
  BY <1>1, <1>2 DEF CallsInv

-----------------------------------------------------------------------------
\* The empty table satisfies the invariant.
LEMMA InitInv == Init => Inv
<1> SUFFICES ASSUME Init PROVE Inv
  OBVIOUS
<1>1. TypeOK
  BY BoundAssumption DEF Init, TypeOK, Editions, Calls, NoRow
<1>2. RowsInv
  BY DEF Init, RowsInv, Sound
<1>3. LagInv
  BY DEF Init, LagInv, Sound
<1>4. CallsInv
  BY DEF Init, CallsInv, CallInv
<1>5. RetryInv
  BY DEF Init, RetryInv, NoCall
<1> QED
  BY <1>1, <1>2, <1>3, <1>4, <1>5 DEF Inv

\* Whatever leaves every row's content and birth alone, and the calls.
LEMMA SameContent ==
    ASSUME Inv, TypeOK', UNCHANGED <<edition, birth, call>>
    PROVE  Onward /\ CallsInv' /\ RetryInv'
<1>1. Onward
  BY DEF Inv, TypeOK, Editions, Onward
<1> QED
  BY <1>1, CallsKept

\* A row's next write numbers its next edition: one rule for every writer.
LEMMA RewriteStep ==
    ASSUME Inv, NEW r \in Rows, Live(r), Rewrite(r, version[r] + 1), UNCHANGED birth
    PROVE  /\ version' \in [Rows -> Editions] /\ edition' \in [Rows -> Editions]
           /\ RowsInv' /\ Onward
<1>1. /\ version[r] = edition[r] - birth[r] + 1 /\ birth[r] \in 1 .. edition[r]
      /\ edition[r] < MaxEditions
  BY DEF Inv, RowsInv, Sound, Live, Rewrite
<1>2. /\ edition[r] \in Int /\ birth[r] \in Int /\ version[r] \in Int
      /\ \A q \in Rows : edition[q] \in Int /\ birth[q] \in Int /\ version[q] \in Int
  BY DEF Inv, TypeOK, Editions
<1>3. /\ version' = [version EXCEPT ![r] = version[r] + 1]
      /\ edition' = [edition EXCEPT ![r] = edition[r] + 1]
  BY DEF Rewrite
<1>4. version' \in [Rows -> Editions] /\ edition' \in [Rows -> Editions]
  <2>1. version[r] + 1 \in Editions /\ edition[r] + 1 \in Editions
    BY <1>1, <1>2, BoundAssumption DEF Editions
  <2> QED
    BY <1>3, <2>1 DEF Inv, TypeOK
<1>5. Onward
  BY <1>2, <1>3 DEF Inv, TypeOK, Onward
<1>6. RowsInv'
  <2> SUFFICES ASSUME NEW q \in Rows
               PROVE  Sound(version'[q], edition'[q], birth[q], edition'[q], birth[q])
    BY DEF RowsInv
  <2>1. CASE q = r
    BY <1>1, <1>2, <1>3, <2>1 DEF Inv, TypeOK, Sound
  <2>2. CASE q # r
    BY <1>3, <2>2 DEF Inv, TypeOK, RowsInv
  <2> QED
    BY <2>1, <2>2
<1> QED
  BY <1>4, <1>5, <1>6

-----------------------------------------------------------------------------
(***************************************************************************)
(* What others do.                                                         *)
(***************************************************************************)
LEMMA CreateStep ==
    ASSUME Inv, NEW r \in Rows, Create(r)
    PROVE  Inv'
<1>1. /\ \A q \in Rows : edition[q] \in Int /\ birth[q] \in Int /\ version[q] \in Int
      /\ edition[r] >= 0 /\ edition[r] < MaxEditions
  BY DEF Inv, TypeOK, Editions, Create, Rewrite
<1>2. /\ version' = [version EXCEPT ![r] = 1]
      /\ edition' = [edition EXCEPT ![r] = edition[r] + 1]
      /\ birth' = [birth EXCEPT ![r] = edition[r] + 1]
      /\ UNCHANGED <<lagging, held, call>>
  BY DEF Inv, TypeOK, Create, Rewrite
<1>3. TypeOK'
  <2>1. 1 \in Editions /\ edition[r] + 1 \in Editions
    BY <1>1, BoundAssumption DEF Editions
  <2> QED
    BY <1>2, <2>1 DEF Inv, TypeOK
<1>4. Onward
  BY <1>1, <1>2 DEF Inv, TypeOK, Onward
<1>5. RowsInv'
  <2> SUFFICES ASSUME NEW q \in Rows
               PROVE  Sound(version'[q], edition'[q], birth'[q], edition'[q], birth'[q])
    BY DEF RowsInv
  <2>1. CASE q = r
    BY <1>1, <1>2, <2>1 DEF Inv, TypeOK, Sound
  <2>2. CASE q # r
    BY <1>2, <2>2 DEF Inv, TypeOK, RowsInv
  <2> QED
    BY <2>1, <2>2
<1>6. LagInv'
  BY <1>2, <1>3, <1>4, LagKept
<1>7. CallsInv' /\ RetryInv'
  BY <1>2, <1>3, <1>4, CallsKept
<1> QED
  BY <1>3, <1>5, <1>6, <1>7 DEF Inv

LEMMA DeleteStep ==
    ASSUME Inv, NEW r \in Rows, Delete(r)
    PROVE  Inv'
<1>1. /\ version' = [version EXCEPT ![r] = NoRow]
      /\ UNCHANGED <<edition, birth, lagging, held, call>>
  BY DEF Delete
<1>2. TypeOK'
  <2>1. NoRow \in Editions
    BY BoundAssumption DEF Editions, NoRow
  <2> QED
    BY <1>1, <2>1 DEF Inv, TypeOK
<1>3. Onward /\ CallsInv' /\ RetryInv'
  BY <1>1, <1>2, SameContent
<1>4. LagInv'
  BY <1>1, <1>2, <1>3, LagKept
<1>5. RowsInv'
  <2> SUFFICES ASSUME NEW q \in Rows
               PROVE  Sound(version'[q], edition[q], birth[q], edition[q], birth[q])
    BY <1>1 DEF RowsInv
  <2>1. CASE q = r
    BY <1>1, <2>1 DEF Inv, TypeOK, Sound
  <2>2. CASE q # r
    BY <1>1, <2>2 DEF Inv, TypeOK, RowsInv
  <2> QED
    BY <2>1, <2>2
<1> QED
  BY <1>2, <1>3, <1>4, <1>5 DEF Inv

\* Transactions that begin, and those that count children.
LEMMA HoldStep ==
    ASSUME Inv, NEW r \in Rows, Hold(r) \/ CountChildren(r)
    PROVE  Inv'
<1>1. /\ UNCHANGED <<version, edition, birth, lagging, call>>
      /\ held' \subseteq Rows
  BY DEF Inv, TypeOK, Hold, CountChildren, Counted
<1>2. TypeOK'
  BY <1>1 DEF Inv, TypeOK
<1>3. Onward /\ CallsInv' /\ RetryInv'
  BY <1>1, <1>2, SameContent
<1>4. LagInv'
  BY <1>1, <1>2, <1>3, LagKept
<1>5. RowsInv'
  BY <1>1 DEF Inv, RowsInv
<1> QED
  BY <1>2, <1>3, <1>4, <1>5 DEF Inv

LEMMA MoveActiveBlockersStep ==
    ASSUME Inv, NEW r \in Rows, MoveActiveBlockers(r)
    PROVE  Inv'
<1>1. /\ Live(r) /\ Rewrite(r, version[r] + 1)
      /\ held' = held \ {r} /\ UNCHANGED <<birth, lagging, call>>
  BY DEF MoveActiveBlockers
<1>2. /\ version' \in [Rows -> Editions] /\ edition' \in [Rows -> Editions]
      /\ RowsInv' /\ Onward
  BY <1>1, RewriteStep
<1>3. TypeOK'
  BY <1>1, <1>2 DEF Inv, TypeOK
<1>4. LagInv' /\ CallsInv' /\ RetryInv'
  BY <1>1, <1>2, <1>3, LagKept, CallsKept
<1> QED
  BY <1>2, <1>3, <1>4 DEF Inv

LEMMA PropagateStep ==
    ASSUME Inv, NEW r \in Rows, Propagate(r)
    PROVE  Inv'
<1>1. /\ lagging' = [lagging EXCEPT ![r] = <<version[r], edition[r], birth[r]>>]
      /\ UNCHANGED <<version, edition, birth, held, call>>
  BY DEF Propagate, Copy
<1>2. TypeOK'
  <2>1. <<version[r], edition[r], birth[r]>> \in Editions \X Editions \X Editions
    BY DEF Inv, TypeOK
  <2> QED
    BY <1>1, <2>1 DEF Inv, TypeOK
<1>3. Onward /\ CallsInv' /\ RetryInv'
  BY <1>1, <1>2, SameContent
<1>4. LagInv'
  <2> SUFFICES ASSUME NEW q \in Rows
               PROVE  Sound(lagging'[q][1], lagging'[q][2], lagging'[q][3],
                            edition[q], birth[q])
    BY <1>1 DEF LagInv
  <2>1. CASE q = r
    BY <1>1, <2>1 DEF Inv, TypeOK, RowsInv
  <2>2. CASE q # r
    BY <1>1, <2>2 DEF Inv, TypeOK, LagInv
  <2> QED
    BY <2>1, <2>2
<1>5. RowsInv'
  BY <1>1 DEF Inv, RowsInv
<1> QED
  BY <1>2, <1>3, <1>4, <1>5 DEF Inv

-----------------------------------------------------------------------------
(***************************************************************************)
(* What a caller does.  CallerStep is what its steps have in common: one    *)
(* call moves, from a sound and well-counted record to another.            *)
(***************************************************************************)
LEMMA CallerStep ==
    ASSUME Inv, NEW c \in Callers, NEW next \in Calls, call' = [call EXCEPT ![c] = next],
           version' \in [Rows -> Editions], edition' \in [Rows -> Editions],
           RowsInv', Onward, UNCHANGED <<birth, lagging, held>>,
           next # NoCall =>
               Sound(next.fence, next.read, next.life, edition'[next.row], birth[next.row]),
           next.at = "writing" => /\ next.left \in 1 .. Attempts(next.row)
                                  /\ next.met = Attempts(next.row) - next.left,
           next.at = "conflict" => next.met = Attempts(next.row)
    PROVE  Inv'
<1>1. TypeOK'
  BY DEF Inv, TypeOK
<1>2. LagInv'
  BY <1>1, LagKept
<1>3. call'[c] = next /\ \A d \in Callers \ {c} : call'[d] = call[d]
  BY DEF Inv, TypeOK
<1>4. CallsInv'
  <2> SUFFICES ASSUME NEW d \in Callers PROVE CallInv(d)'
    BY DEF CallsInv
  <2>1. CASE d = c
    BY <1>3, <2>1 DEF CallInv
  <2>2. CASE d # c /\ call[d] = NoCall
    BY <1>3, <2>2 DEF CallInv
  <2>3. CASE d # c /\ call[d] # NoCall
    BY <1>1, <1>3, <2>3, CallKept
  <2> QED
    BY <2>1, <2>2, <2>3
<1>5. RetryInv'
  BY <1>3 DEF Inv, RetryInv, Attempts
<1> QED
  BY <1>1, <1>2, <1>4, <1>5 DEF Inv

\* Attempts is a number of tries the record has room for.
LEMMA AttemptsTyped ==
    ASSUME NEW r \in Rows
    PROVE  Attempts(r) \in Nat \ {0} /\ Attempts(r) <= TRANSACT_RETRY_ATTEMPTS
BY AttemptsAssumption DEF Attempts

LEMMA SameRows ==
    ASSUME Inv, UNCHANGED <<version, edition, birth>>
    PROVE  /\ version' \in [Rows -> Editions] /\ edition' \in [Rows -> Editions]
           /\ RowsInv' /\ Onward
BY DEF Inv, TypeOK, Editions, RowsInv, Onward

LEMMA ReadStep ==
    ASSUME Inv, NEW c \in Callers, NEW r \in Rows, Read(c, r)
    PROVE  Inv'
<1>1. PICK copy \in {Copy(r), lagging[r]} :
         /\ copy[1] # NoRow
         /\ \E fence \in {copy[1], Unfenced} :
               call' = [call EXCEPT ![c] =
                   [at |-> "writing", row |-> r, fence |-> fence, read |-> copy[2],
                    life |-> copy[3], met |-> 0, lost |-> 0, left |-> Attempts(r)]]
  BY DEF Read
<1>2. PICK fence \in {copy[1], Unfenced} :
         call' = [call EXCEPT ![c] =
             [at |-> "writing", row |-> r, fence |-> fence, read |-> copy[2],
              life |-> copy[3], met |-> 0, lost |-> 0, left |-> Attempts(r)]]
  BY <1>1
<1> DEFINE next == [at |-> "writing", row |-> r, fence |-> fence, read |-> copy[2],
                    life |-> copy[3], met |-> 0, lost |-> 0, left |-> Attempts(r)]
<1>3. UNCHANGED <<version, edition, birth, lagging, held>>
  BY DEF Read
<1>4. copy \in Editions \X Editions \X Editions
  BY <1>1 DEF Inv, TypeOK, Copy
<1>5. Sound(copy[1], copy[2], copy[3], edition[r], birth[r])
  BY DEF Inv, RowsInv, LagInv, Copy
<1>6. next \in Calls
  <2>1. fence \in Editions
    BY <1>4, BoundAssumption DEF Editions, Unfenced
  <2>2. Attempts(r) \in 0 .. TRANSACT_RETRY_ATTEMPTS
    BY AttemptsTyped, AttemptsAssumption
  <2>3. 0 \in 0 .. MaxLost /\ 0 \in 0 .. TRANSACT_RETRY_ATTEMPTS
    BY BoundAssumption, AttemptsAssumption
  <2> QED
    BY <1>4, <2>1, <2>2, <2>3 DEF Calls
<1>7. Sound(next.fence, next.read, next.life, edition'[next.row], birth[next.row])
  BY <1>3, <1>5 DEF Sound, Unfenced, NoRow
<1>8. next.left \in 1 .. Attempts(next.row) /\ next.met = Attempts(next.row) - next.left
  BY AttemptsTyped
<1> HIDE DEF next
<1>9. next.at = "writing"
  BY DEF next
<1> QED
  BY <1>2, <1>3, <1>6, <1>7, <1>8, <1>9, SameRows, CallerStep DEF next

LEMMA ConflictStep ==
    ASSUME Inv, NEW c \in Callers, Conflict(c)
    PROVE  Inv'
<1> DEFINE next == [call[c] EXCEPT !.at = IF call[c].left = 1 THEN "conflict" ELSE @,
                                   !.left = @ - 1, !.met = @ + 1]
<1>1. /\ call[c].at = "writing" /\ call' = [call EXCEPT ![c] = next]
      /\ UNCHANGED <<version, edition, birth, lagging, held>>
  BY DEF Conflict, Inv, TypeOK
<1>2. call[c] \in Calls \ {NoCall}
  BY <1>1, InCall DEF Inv
<1>3. /\ call[c].row \in Rows
      /\ call[c].left \in 1 .. Attempts(call[c].row)
      /\ call[c].met = Attempts(call[c].row) - call[c].left
  BY <1>1, <1>2, CallTyped DEF Inv, RetryInv
<1>4. /\ Attempts(call[c].row) \in Nat \ {0}
      /\ Attempts(call[c].row) <= TRANSACT_RETRY_ATTEMPTS
  BY <1>3, AttemptsTyped
<1>5. next \in Calls
  <2>1. /\ call[c].left - 1 \in 0 .. TRANSACT_RETRY_ATTEMPTS
        /\ call[c].met + 1 \in 0 .. TRANSACT_RETRY_ATTEMPTS
    BY <1>3, <1>4, AttemptsAssumption
  <2> QED
    BY <1>1, <1>2, <2>1 DEF Calls, Outcomes
<1>6. /\ next.row = call[c].row /\ next.fence = call[c].fence
      /\ next.read = call[c].read /\ next.life = call[c].life
      /\ next.left = call[c].left - 1 /\ next.met = call[c].met + 1
      /\ next.at = IF call[c].left = 1 THEN "conflict" ELSE "writing"
  BY <1>1, <1>2 DEF Calls
<1> HIDE DEF next
<1>7. Sound(next.fence, next.read, next.life, edition'[next.row], birth[next.row])
  BY <1>1, <1>2, <1>6 DEF Inv, CallsInv, CallInv
<1>8. next.at = "writing" => /\ next.left \in 1 .. Attempts(next.row)
                             /\ next.met = Attempts(next.row) - next.left
  BY <1>3, <1>4, <1>6
<1>9. next.at = "conflict" => next.met = Attempts(next.row)
  BY <1>3, <1>4, <1>6
<1> QED
  BY <1>1, <1>5, <1>7, <1>8, <1>9, SameRows, CallerStep

\* A call that ends, or goes on as it was, after a write or a refusal.
LEMMA OutcomeStep ==
    ASSUME Inv, NEW c \in Callers, call[c].at = "writing",
           NEW result \in {"written", "missing", "stale", "failed", "writing"},
           NEW lost \in 0 .. MaxLost,
           call' = [call EXCEPT ![c] = [call[c] EXCEPT !.at = result, !.lost = lost]],
           version' \in [Rows -> Editions], edition' \in [Rows -> Editions],
           RowsInv', Onward, UNCHANGED <<birth, lagging, held>>
    PROVE  Inv'
<1> DEFINE next == [call[c] EXCEPT !.at = result, !.lost = lost]
<1>1. call[c] \in Calls \ {NoCall}
  BY InCall DEF Inv
<1>2. next \in Calls
  BY <1>1 DEF Calls, Outcomes
<1>3. /\ next.row = call[c].row /\ next.fence = call[c].fence
      /\ next.read = call[c].read /\ next.life = call[c].life
      /\ next.left = call[c].left /\ next.met = call[c].met
      /\ next.at = result
  BY <1>1 DEF Calls
<1>4. call' = [call EXCEPT ![c] = next]
  OBVIOUS
<1> HIDE DEF next
<1>5. Sound(next.fence, next.read, next.life, edition'[next.row], birth[next.row])
  <2> DEFINE r == call[c].row
  <2>1. /\ r \in Rows /\ call[c].fence \in Int /\ call[c].read \in Int
        /\ call[c].life \in Int
    BY <1>1, CallTyped DEF Inv, Editions
  <2>2. edition[r] \in Int /\ birth[r] \in Int /\ edition'[r] \in Int
    BY <2>1 DEF Inv, TypeOK, Editions
  <2>3. Sound(call[c].fence, call[c].read, call[c].life, edition[r], birth[r])
    BY <1>1 DEF Inv, CallsInv, CallInv
  <2>4. edition[r] <= edition'[r]
    BY <2>1 DEF Onward
  <2>5. Sound(call[c].fence, call[c].read, call[c].life, edition'[r], birth[r])
    BY <2>1, <2>2, <2>3, <2>4, StillSound
  <2> QED
    BY <1>3, <2>5
<1>6. next.at = "writing" => /\ next.left \in 1 .. Attempts(next.row)
                             /\ next.met = Attempts(next.row) - next.left
  BY <1>3 DEF Inv, RetryInv
<1>7. next.at # "conflict"
  BY <1>3
<1> QED
  BY <1>2, <1>4, <1>5, <1>6, <1>7, CallerStep

LEMMA ApplyStep ==
    ASSUME Inv, NEW c \in Callers, Apply(c)
    PROVE  Inv'
<1> DEFINE r == call[c].row
<1>1. call[c].at = "writing" /\ UNCHANGED <<birth, lagging, held>>
  BY DEF Apply
<1>2. call[c] \in Calls \ {NoCall}
  BY <1>1, InCall DEF Inv
<1>3. r \in Rows /\ call[c].lost \in 0 .. MaxLost
  BY <1>2 DEF Calls
<1>4. ASSUME NEW result, Outcome(c, result)
      PROVE  call' = [call EXCEPT ![c] =
                        [call[c] EXCEPT !.at = result, !.lost = call[c].lost]]
  <2>1. [call[c] EXCEPT !.at = result] =
            [call[c] EXCEPT !.at = result, !.lost = call[c].lost]
    BY <1>2 DEF Calls
  <2> QED
    BY <1>4, <2>1 DEF Outcome
<1>5. CASE /\ Outcome(c, "missing") \/ Outcome(c, "stale")
           /\ UNCHANGED <<version, edition>>
  <2>1. /\ version' \in [Rows -> Editions] /\ edition' \in [Rows -> Editions]
        /\ RowsInv' /\ Onward
    BY <1>1, <1>5, SameRows
  <2> QED
    BY <1>1, <1>3, <1>4, <1>5, <2>1, OutcomeStep
<1>6. CASE Live(r) /\ Outcome(c, "written") /\ Rewrite(r, Bumped(r))
  <2>1. /\ version' \in [Rows -> Editions] /\ edition' \in [Rows -> Editions]
        /\ RowsInv' /\ Onward
    BY <1>1, <1>3, <1>6, RewriteStep DEF Bumped
  <2> QED
    BY <1>1, <1>3, <1>4, <1>6, <2>1, OutcomeStep
<1> QED
  BY <1>5, <1>6 DEF Apply

LEMMA LoseReplyStep ==
    ASSUME Inv, NEW c \in Callers, LoseReply(c)
    PROVE  Inv'
<1> DEFINE r == call[c].row
<1>1. /\ call[c].at = "writing" /\ UNCHANGED <<birth, lagging, held>>
      /\ call[c].lost < MaxLost
      /\ Live(r) /\ Rewrite(r, version[r] + 1)
  BY DEF LoseReply, Bumped
<1>2. call[c] \in Calls \ {NoCall}
  BY <1>1, InCall DEF Inv
<1>3. r \in Rows /\ call[c].lost \in 0 .. MaxLost
  BY <1>2 DEF Calls
<1>4. call[c].lost + 1 \in 0 .. MaxLost
  BY <1>1, <1>3, BoundAssumption
<1>5. PICK next \in {"writing", "failed"} :
         call' = [call EXCEPT ![c].at = next, ![c].lost = @ + 1]
  BY DEF LoseReply
<1>6. call' = [call EXCEPT ![c] = [call[c] EXCEPT !.at = next, !.lost = call[c].lost + 1]]
  BY <1>2, <1>5 DEF Inv, TypeOK, Calls
<1>7. /\ version' \in [Rows -> Editions] /\ edition' \in [Rows -> Editions]
      /\ RowsInv' /\ Onward
  BY <1>1, <1>3, RewriteStep
<1> QED
  BY <1>1, <1>4, <1>5, <1>6, <1>7, OutcomeStep

LEMMA ReturnStep ==
    ASSUME Inv, NEW c \in Callers, Return(c)
    PROVE  Inv'
<1>1. /\ call' = [call EXCEPT ![c] = NoCall]
      /\ UNCHANGED <<version, edition, birth, lagging, held>>
  BY DEF Return
<1>2. NoCall \in Calls /\ NoCall.at = "none"
  BY DEF NoCall, Calls
<1> QED
  BY <1>1, <1>2, SameRows, CallerStep

\* Every step keeps the invariant.
LEMMA NextInv == Inv /\ [Next]_vars => Inv'
<1> SUFFICES ASSUME Inv, [Next]_vars PROVE Inv'
  OBVIOUS
<1>1. ASSUME NEW r \in Rows,
             \/ Create(r) \/ Delete(r) \/ Hold(r) \/ CountChildren(r)
             \/ MoveActiveBlockers(r) \/ Propagate(r)
      PROVE  Inv'
  BY <1>1, CreateStep, DeleteStep, HoldStep, MoveActiveBlockersStep, PropagateStep
<1>2. ASSUME NEW c \in Callers,
             \/ \E r \in Rows : Read(c, r)
             \/ Conflict(c) \/ Apply(c) \/ LoseReply(c) \/ Return(c)
      PROVE  Inv'
  BY <1>2, ReadStep, ConflictStep, ApplyStep, LoseReplyStep, ReturnStep
<1>3. CASE UNCHANGED vars
  BY <1>3 DEF vars, Inv, TypeOK, RowsInv, LagInv, CallsInv, CallInv, RetryInv, Attempts
<1> QED
  BY <1>1, <1>2, <1>3 DEF Next

LEMMA Inductive == Spec => []Inv
<1> QED
  BY InitInv, NextInv, PTL DEF Spec

-----------------------------------------------------------------------------
(***************************************************************************)
(* Theorems                                                                *)
(***************************************************************************)
\* Every variable keeps its type: a version never runs past the writes of its row,
\* and no call is tried more often than TRANSACT_RETRY_ATTEMPTS allows.
THEOREM TypeCorrect == Spec => []TypeOK
<1>1. Inv => TypeOK
  BY DEF Inv
<1> QED
  BY <1>1, Inductive, PTL

\* Who writes a row in a step: one caller, in Apply or LoseReply, or others.
LEMMA WriterOf ==
    ASSUME Inv, [Next]_vars, NEW c \in Callers, Wrote(c)
    PROVE  /\ Live(call[c].row)
           /\ FenceHolds(call[c].row, call[c].fence)
<1>1. ASSUME NEW d \in Callers, d # c,
             \/ \E r \in Rows : Read(d, r)
             \/ Conflict(d) \/ Apply(d) \/ LoseReply(d) \/ Return(d)
      PROVE  FALSE
  <2>1. call'[c] = call[c]
    BY <1>1 DEF Inv, TypeOK, Read, Conflict, Apply, Outcome, LoseReply, Return
  <2> QED
    BY <2>1 DEF Wrote
<1>2. ASSUME (\E r \in Rows : Read(c, r)) \/ Conflict(c) \/ Return(c)
      PROVE  FALSE
  BY <1>2 DEF Wrote, Read, Conflict, Return
<1>3. ASSUME NEW r \in Rows,
             \/ Create(r) \/ Delete(r) \/ Hold(r) \/ CountChildren(r)
             \/ MoveActiveBlockers(r) \/ Propagate(r)
      PROVE  FALSE
  BY <1>3 DEF Wrote, Create, Delete, Hold, CountChildren, MoveActiveBlockers, Propagate
<1>4. CASE Apply(c) \/ LoseReply(c)
  BY <1>4 DEF Apply, LoseReply, Wrote
<1>5. CASE UNCHANGED vars
  BY <1>5 DEF vars, Wrote
<1> QED
  BY <1>1, <1>2, <1>3, <1>4, <1>5 DEF Next

\* A call becomes "stale" only in Apply, of a row that is there under another version.
LEMMA StaleStep ==
    ASSUME Inv, [Next]_vars, NEW c \in Callers, call[c] \in Calls \ {NoCall},
           call[c].at = "writing", call'[c].at = "stale"
    PROVE  Live(call[c].row) /\ ~FenceHolds(call[c].row, call[c].fence)
<1>1. ASSUME NEW d \in Callers, d # c,
             \/ \E r \in Rows : Read(d, r)
             \/ Conflict(d) \/ Apply(d) \/ LoseReply(d) \/ Return(d)
      PROVE  FALSE
  <2>1. call'[c] = call[c]
    BY <1>1 DEF Inv, TypeOK, Read, Conflict, Apply, Outcome, LoseReply, Return
  <2> QED
    BY <2>1
<1>2. ASSUME (\E r \in Rows : Read(c, r)) \/ Return(c)
      PROVE  FALSE
  BY <1>2 DEF Read, Return, NoCall, Outcomes
<1>3. ASSUME Conflict(c) \/ LoseReply(c)
      PROVE  FALSE
  <2>1. call'[c].at \in {"writing", "conflict", "failed"}
    BY <1>3 DEF Inv, TypeOK, Calls, Conflict, LoseReply
  <2> QED
    BY <2>1
<1>4. ASSUME NEW r \in Rows,
             \/ Create(r) \/ Delete(r) \/ Hold(r) \/ CountChildren(r)
             \/ MoveActiveBlockers(r) \/ Propagate(r)
      PROVE  FALSE
  BY <1>4 DEF Create, Delete, Hold, CountChildren, MoveActiveBlockers, Propagate
<1>5. CASE Apply(c)
  <2>1. ASSUME NEW result \in {"missing", "written"}, Outcome(c, result)
        PROVE  FALSE
    <3>1. call'[c].at = result
      BY <2>1 DEF Inv, TypeOK, Calls, Outcome
    <3> QED
      BY <3>1
  <2> QED
    BY <1>5, <2>1 DEF Apply
<1>6. CASE UNCHANGED vars
  BY <1>6 DEF vars
<1> QED
  BY <1>1, <1>2, <1>3, <1>4, <1>5, <1>6 DEF Next

\* FencedIsFresh: a fenced write lands only on the content its caller read, or on a row
\* created again under the same id, replies lost and sent again included.
THEOREM FencedWritesAreFresh == Spec => FencedIsFresh
<1> SUFFICES ASSUME Inv, [Next]_vars, NEW c \in Callers, Fenced(c), Wrote(c)
             PROVE  \/ edition[call[c].row] = call[c].read
                    \/ birth[call[c].row] # call[c].life
  <2>1. Inv /\ [Next]_vars => (\A c \in Callers : Fenced(c) /\ Wrote(c)
          => \/ edition[call[c].row] = call[c].read
             \/ birth[call[c].row] # call[c].life)
    OBVIOUS
  <2>2. Spec => [][Next]_vars
    BY PTL DEF Spec
  <2> QED
    BY <2>1, <2>2, Inductive, PTL DEF FencedIsFresh
<1> DEFINE r == call[c].row
<1>1. Live(r) /\ version[r] = call[c].fence /\ call[c].fence # NoRow
  BY WriterOf DEF FenceHolds, Fenced, Unfenced, NoRow
<1>2. call[c] \in Calls \ {NoCall}
  BY InCall DEF Inv, Fenced
<1>3. /\ r \in Rows /\ call[c].read \in Int /\ call[c].life \in Int
      /\ edition[r] \in Int /\ birth[r] \in Int
  BY <1>2, CallTyped DEF Inv, TypeOK, Editions
<1>4. version[r] = edition[r] - birth[r] + 1
  BY <1>1, <1>3 DEF Inv, RowsInv, Sound, Live
<1>5. call[c].fence = call[c].read - call[c].life + 1
  BY <1>1, <1>2 DEF Inv, CallsInv, CallInv, Sound
<1>6. edition[r] - birth[r] + 1 = call[c].read - call[c].life + 1
  BY <1>1, <1>4, <1>5
<1> QED
  BY <1>3, <1>6

\* StaleIsStale: DDBVersionConflictError reaches a caller only if the row's content
\* changed since it read it; no traffic of children fails a fence.
THEOREM StaleFencesAreStale == Spec => StaleIsStale
<1> SUFFICES ASSUME Inv, [Next]_vars, NEW c \in Callers, Became(c, "stale")
             PROVE  edition[call[c].row] # call[c].read
  <2>1. Inv /\ [Next]_vars => (\A c \in Callers : Became(c, "stale")
          => edition[call[c].row] # call[c].read)
    OBVIOUS
  <2>2. Spec => [][Next]_vars
    BY PTL DEF Spec
  <2> QED
    BY <2>1, <2>2, Inductive, PTL DEF StaleIsStale
<1> DEFINE r == call[c].row
<1>1. call[c].at = "writing" /\ call'[c].at = "stale"
  BY DEF Became
<1>2. call[c] \in Calls \ {NoCall}
  BY <1>1, InCall DEF Inv
<1>3. Live(r) /\ ~FenceHolds(r, call[c].fence)
  BY <1>1, <1>2, StaleStep
<1>4. /\ r \in Rows /\ call[c].read \in Int /\ call[c].life \in Int
      /\ edition[r] \in Int /\ birth[r] \in Int /\ version[r] \in Int
  BY <1>2, CallTyped DEF Inv, TypeOK, Editions
<1>5. version[r] = edition[r] - birth[r] + 1 /\ birth[r] <= edition[r]
  BY <1>3, <1>4 DEF Inv, RowsInv, Sound, Live
<1>6. /\ call[c].fence # version[r]
      /\ call[c].fence = call[c].read - call[c].life + 1
      /\ birth[r] <= call[c].read => call[c].life = birth[r]
  BY <1>2, <1>3 DEF Inv, CallsInv, CallInv, Sound, FenceHolds, Unfenced, NoRow
<1> QED
  BY <1>4, <1>5, <1>6

\* RetriedBeforeConflict: every update but that of a comment gives a conflict to its
\* caller only after its last attempt.
THEOREM ConflictsAreRetried ==
    ASSUME \A r \in Rows : Kind[r] # "IssueComment"
    PROVE  Spec => []RetriedBeforeConflict
<1>1. Inv => RetriedBeforeConflict
  <2> SUFFICES ASSUME Inv, NEW c \in Callers, call[c].at = "conflict"
               PROVE  call[c].met = TRANSACT_RETRY_ATTEMPTS
    BY DEF RetriedBeforeConflict
  <2>1. call[c] \in Calls \ {NoCall}
    BY InCall DEF Inv, Outcomes
  <2>2. Attempts(call[c].row) = TRANSACT_RETRY_ATTEMPTS
    BY <2>1, CallTyped DEF Inv, Attempts
  <2> QED
    BY <2>2 DEF Inv, RetryInv
<1> QED
  BY <1>1, Inductive, PTL
=============================================================================
