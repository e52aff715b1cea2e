--------------------------- MODULE IssueBlocking ---------------------------
(***************************************************************************)
(* Issues that block one another, as mixins/issue.py keeps them in one     *)
(* DynamoDB table.                                                         *)
(*                                                                         *)
(* An IssueInfo row holds a status and num_active_blockers; an             *)
(* IssueBlocker row <<blocking, blocked>> lives in the blocking Issue's    *)
(* partition and is indexed under the blocked Issue by GSI1.  Client calls *)
(* write both kinds of row in transactions.  The DynamoDB stream turns     *)
(* some of those writes into events, delivered at least once and in no     *)
(* order to workers, which run the handle_* methods: long loops over pages *)
(* of rows, one small transaction per row, with everybody else's writes in *)
(* between.  The partition query of the delete sweep is consistent; every  *)
(* other query may answer from a lagging copy.                             *)
(*                                                                         *)
(* A definition named Mutant... is the one that follows it with a          *)
(* plausible bug put in.  Nothing uses it here: it is what a property must *)
(* reject.                                                                 *)
(***************************************************************************)
EXTENDS Integers, FiniteSets

CONSTANTS
    Issues,       \* (space_id, issue_id) pairs
    Links,        \* the <<blocking, blocked>> pairs clients ask for
    Statuses,     \* the IssueStatus values clients use
    Workers,      \* concurrent executions of the event consumer
    MaxReuse,     \* times create_issue draws the id of an Issue deleted earlier
    MaxFaults     \* crashes of a handler plus duplicate deliveries, in all

ASSUME IssuesAssumption == IsFiniteSet(Issues)
ASSUME LinksAssumption == Links \subseteq Issues \X Issues
ASSUME StatusesAssumption == {"TODO", "BLOCKED", "DONE"} \subseteq Statuses
ASSUME AbsentAssumption == "ABSENT" \notin Statuses
ASSUME BoundsAssumption == MaxReuse \in Nat /\ MaxFaults \in Nat

VARIABLES
    status,               \* IssueInfo.status, "ABSENT" where there is no row
    num_active_blockers,  \* IssueInfo.num_active_blockers, 0 where no row
    blocker,              \* IssueBlocker rows, by is_blocking_issue_done
    replica,              \* the copy eventually consistent queries may read
    deleted,              \* Issues deleted at least once
    reused,               \* ids drawn again so far, at most MaxReuse
    queue,                \* events on their way to a worker
    worker,               \* the handler each worker is running
    fallback,             \* delete_issue_blocker calls between their two writes
    faults,               \* faults so far, at most MaxFaults
    held,                 \* history: BLOCKED by add_issue_blocker, see below
    missed                \* history: rows left out of a handler's page, see below

table == <<status, num_active_blockers, blocker, deleted, reused>>
vars == <<status, num_active_blockers, blocker, replica, deleted, reused, queue,
          worker, fallback, faults, held, missed>>

-----------------------------------------------------------------------------
Absent == "ABSENT"
Live(i) == status[i] # Absent

Outbound(i) == {p \in Links : p[1] = i}    \* rows in the partition of i
Inbound(i)  == {p \in Links : p[2] = i}    \* rows under i in GSI1
ActiveInto(i) == {p \in Inbound(i) : blocker[p] = "active"}

EventTypes == {"IssueDone", "IssueDeleted", "IssueNumActiveBlockersZeroed"}
Event(t, i) == [type |-> t, issue |-> i]
Events == [type : EventTypes, issue : Issues]

\* What a worker is doing: handle_issue_done ("done"), the three stretches of
\* handle_issue_deleted (nothing read yet, its own partition, GSI1), or
\* handle_issue_num_active_blockers_zeroed ("wake").  unread are the rows whose
\* page has not come yet; counted and plain the rows of the page in hand that
\* await a transaction with a decrement, or a bare delete.
Phases == {"done", "sweep", "out", "in", "wake"}
NoJob == [phase |-> "idle", issue |-> "none", unread |-> {}, counted |-> {}, plain |-> {}]
Jobs == {NoJob} \cup [phase : Phases, issue : Issues, unread : SUBSET Links,
                      counted : SUBSET Links, plain : SUBSET Links]

Job(w) == worker[w]
PageDone(w) == Job(w).counted = {} /\ Job(w).plain = {}
Return(w) == worker' = [worker EXCEPT ![w] = NoJob]

\* The rows of ps an eventually consistent query shows in state s, when it
\* answers for the rows in stale from the lagging copy.
Seen(ps, stale, s) == {p \in ps : (IF p \in stale THEN replica ELSE blocker)[p] = s}

\* The rows a handler's page leaves out because the copy has not got them yet:
\* missed keeps them, with the loop that missed them, until they are deleted.
\* No guard reads it.
Miss(w, stale) ==
    missed' = missed \cup
       {Job(w).phase} \X {p \in stale : replica[p] = "none" /\ blocker[p] # "none"}
ForgetMiss(p) == missed' = missed \ ({"done", "in"} \X {p})

Init ==
    /\ status = [i \in Issues |-> Absent]
    /\ num_active_blockers = [i \in Issues |-> 0]
    /\ blocker = [p \in Links |-> "none"]
    /\ replica = [p \in Links |-> "none"]
    /\ deleted = {}
    /\ reused = 0
    /\ queue = {}
    /\ worker = [w \in Workers |-> NoJob]
    /\ fallback = {}
    /\ faults = 0
    /\ held = {}
    /\ missed = {}

-----------------------------------------------------------------------------
(***************************************************************************)
(* The stream.  A write and the event it gives rise to are one step; the   *)
(* delay is between the event's birth and its delivery.                    *)
(***************************************************************************)
Emit(events) == queue' = queue \cup events

\* num_active_blockers of i moves by d.
Adjust(i, d) == num_active_blockers' = [num_active_blockers EXCEPT ![i] = @ + d]
ZeroedBy(i, d) ==
    {e \in {Event("IssueNumActiveBlockersZeroed", i)} : num_active_blockers[i] + d = 0}

-----------------------------------------------------------------------------
(***************************************************************************)
(* Clients                                                                 *)
(***************************************************************************)
CreateIssue(i, s) ==
    /\ ~Live(i)
    /\ i \in deleted => reused < MaxReuse
    /\ reused' = reused + (IF i \in deleted THEN 1 ELSE 0)
    /\ status' = [status EXCEPT ![i] = s]
    /\ num_active_blockers' = [num_active_blockers EXCEPT ![i] = 0]
    /\ UNCHANGED <<blocker, replica, deleted, queue, worker, fallback, faults, held, missed>>

\* The write's condition: excluded_vals, then expected_vals.
MutantMayMoveFromDone(i, s) == s # "BLOCKED" => num_active_blockers[i] = 0
MutantMayMoveWhileBlocked(i, s) == s # "DONE" => status[i] # "DONE"
MayMove(i, s) ==
    /\ s # "DONE" => status[i] # "DONE"
    /\ s # "BLOCKED" => num_active_blockers[i] = 0

TransitionIssue(i, s) ==
    /\ Live(i) /\ MayMove(i, s)
    /\ status' = [status EXCEPT ![i] = s]
    /\ Emit({e \in {Event("IssueDone", i)} : s = "DONE" /\ status[i] # "DONE"})
    /\ held' = IF num_active_blockers[i] = 0 THEN held \ {i} ELSE held
    /\ UNCHANGED <<num_active_blockers, blocker, replica, deleted, reused, worker,
                   fallback, faults, missed>>

DeleteIssue(i) ==
    /\ Live(i)
    /\ status' = [status EXCEPT ![i] = Absent]
    /\ num_active_blockers' = [num_active_blockers EXCEPT ![i] = 0]
    /\ deleted' = deleted \cup {i}
    /\ Emit({Event("IssueDeleted", i)})
    /\ held' = held \ {i}
    /\ UNCHANGED <<blocker, replica, reused, worker, fallback, faults, missed>>

\* The conditions of the transaction's three items, after the self-block check.
MutantMayBlockWhenDone(p) ==
    /\ p[1] # p[2]
    /\ Live(p[1]) /\ Live(p[2]) /\ status[p[2]] # "DONE"
    /\ blocker[p] = "none"
MayBlock(p) ==
    /\ p[1] # p[2]
    /\ Live(p[1]) /\ status[p[1]] # "DONE"
    /\ Live(p[2]) /\ status[p[2]] # "DONE"
    /\ blocker[p] = "none"

AddIssueBlocker(p) ==
    /\ MayBlock(p)
    /\ status' = [status EXCEPT ![p[2]] = "BLOCKED"]
    /\ Adjust(p[2], 1)
    /\ Emit(ZeroedBy(p[2], 1))
    /\ blocker' = [blocker EXCEPT ![p] = "active"]
    /\ held' = held \cup {p[2]}
    /\ UNCHANGED <<replica, deleted, reused, worker, fallback, faults, missed>>

\* delete_issue_blocker and delete_blocker_for_sweep: the row goes together with
\* the count it stood for.
DropActiveBlocker(p) ==
    /\ blocker[p] = "active" /\ Live(p[2])
    /\ blocker' = [blocker EXCEPT ![p] = "none"]
    /\ Adjust(p[2], -1)
    /\ Emit(ZeroedBy(p[2], -1))
    /\ ForgetMiss(p)

DeleteIssueBlocker(p) ==
    /\ DropActiveBlocker(p)
    /\ UNCHANGED <<status, replica, deleted, reused, worker, fallback, faults, held>>

\* The transaction found no active row: the call goes on to the bare delete.
\* A missing blocked Issue is an error instead, and the row stays.
DeleteIssueBlockerMiss(p) ==
    /\ blocker[p] # "active" /\ Live(p[2])
    /\ p \notin fallback
    /\ fallback' = fallback \cup {p}
    /\ UNCHANGED <<table, replica, queue, worker, faults, held, missed>>

DeleteIssueBlockerFallback(p) ==
    /\ p \in fallback
    /\ fallback' = fallback \ {p}
    /\ blocker' = [blocker EXCEPT ![p] = IF @ = "done" THEN "none" ELSE @]
    /\ IF blocker[p] = "active" THEN UNCHANGED missed ELSE ForgetMiss(p)
    /\ UNCHANGED <<status, num_active_blockers, replica, deleted, reused, queue, worker,
                   faults, held>>

Client ==
    \/ \E i \in Issues, s \in Statuses : CreateIssue(i, s) \/ TransitionIssue(i, s)
    \/ \E i \in Issues : DeleteIssue(i)
    \/ \E p \in Links : \/ AddIssueBlocker(p)
                        \/ DeleteIssueBlocker(p)
                        \/ DeleteIssueBlockerMiss(p)
                        \/ DeleteIssueBlockerFallback(p)

-----------------------------------------------------------------------------
(***************************************************************************)
(* DynamoDB copies a row to the place eventually consistent reads look at. *)
(***************************************************************************)
Propagate(p) ==
    /\ replica[p] # blocker[p]
    /\ replica' = [replica EXCEPT ![p] = blocker[p]]
    /\ UNCHANGED <<table, queue, worker, fallback, faults, held, missed>>

-----------------------------------------------------------------------------
(***************************************************************************)
(* The event consumer                                                      *)
(***************************************************************************)
JobFor(e) ==
    [phase   |-> CASE e.type = "IssueDone" -> "done"
                   [] e.type = "IssueDeleted" -> "sweep"
                   [] e.type = "IssueNumActiveBlockersZeroed" -> "wake",
     issue   |-> e.issue,
     unread  |-> IF e.type = "IssueNumActiveBlockersZeroed" THEN {} ELSE Outbound(e.issue),
     counted |-> {},
     plain   |-> {}]

EventOf(job) ==
    Event(CASE job.phase = "done" -> "IssueDone"
            [] job.phase \in {"sweep", "out", "in"} -> "IssueDeleted"
            [] job.phase = "wake" -> "IssueNumActiveBlockersZeroed",
          job.issue)

Deliver(w, e) ==
    /\ Job(w) = NoJob /\ e \in queue
    /\ queue' = queue \ {e}
    /\ worker' = [worker EXCEPT ![w] = JobFor(e)]
    /\ UNCHANGED <<table, replica, fallback, faults, held, missed>>

\* At-least-once: the event is delivered and will be delivered again.
DeliverTwice(w, e) ==
    /\ Job(w) = NoJob /\ e \in queue /\ faults < MaxFaults
    /\ faults' = faults + 1
    /\ worker' = [worker EXCEPT ![w] = JobFor(e)]
    /\ UNCHANGED <<table, replica, queue, fallback, held, missed>>

\* The handler dies, or raises once its retries are spent: the event comes back.
Crash(w) ==
    /\ Job(w) # NoJob /\ faults < MaxFaults
    /\ faults' = faults + 1
    /\ Emit({EventOf(Job(w))})
    /\ Return(w)
    /\ UNCHANGED <<table, replica, fallback, held, missed>>

\* paginate returns once a page carries no cursor.
MutantLastPage(w) == PageDone(w)
LastPage(w) == PageDone(w) /\ Job(w).unread = {}

Finish(w) ==
    /\ Job(w).phase \in {"done", "in"} /\ LastPage(w)
    /\ Return(w)
    /\ UNCHANGED <<table, replica, queue, fallback, faults, held, missed>>

-----------------------------------------------------------------------------
\* handle_issue_done: the next page of get_issue_blocking, rows already
\* satisfied skipped.
ReadBlocking(w, page, stale) ==
    /\ Job(w).phase = "done" /\ PageDone(w)
    /\ page # {} /\ page \subseteq Job(w).unread /\ stale \subseteq page
    /\ Miss(w, stale)
    /\ worker' = [worker EXCEPT ![w].unread = @ \ page,
                                ![w].counted = Seen(page, stale, "active")]
    /\ UNCHANGED <<table, replica, queue, fallback, faults, held>>

MutantSatisfiableAgain(p) ==
    status[p[1]] = "DONE" /\ blocker[p] # "none" /\ Live(p[2])
Satisfiable(p) == status[p[1]] = "DONE" /\ blocker[p] = "active" /\ Live(p[2])

SatisfyIssueBlocker(w, p) ==
    /\ Job(w).phase = "done" /\ p \in Job(w).counted
    /\ worker' = [worker EXCEPT ![w].counted = @ \ {p}]
    /\ IF Satisfiable(p)
         THEN /\ blocker' = [blocker EXCEPT ![p] = "done"]
              /\ Adjust(p[2], -1)
              /\ Emit(ZeroedBy(p[2], -1))
         ELSE UNCHANGED <<blocker, num_active_blockers, queue>>
    /\ UNCHANGED <<status, replica, deleted, reused, fallback, faults, held, missed>>

-----------------------------------------------------------------------------
\* handle_issue_deleted.  The info row is the first row of its partition, so a
\* live Issue under the deleted one's id shows on the first page or never.
SkipLivePartition(w) ==
    /\ Job(w).phase = "sweep" /\ Live(Job(w).issue)
    /\ Return(w)
    /\ UNCHANGED <<table, replica, queue, fallback, faults, held, missed>>

\* A consistent page of the partition; empty only when no row is left.
ReadPartition(w, page) ==
    /\ \/ Job(w).phase = "sweep" /\ ~Live(Job(w).issue)
       \/ Job(w).phase = "out" /\ PageDone(w) /\ Job(w).unread # {}
    /\ page \subseteq Job(w).unread
    /\ page = {} => Job(w).unread = {}
    /\ worker' = [worker EXCEPT ![w].phase = "out",
                                ![w].unread = @ \ page,
                                ![w].counted = {p \in page : blocker[p] = "active"},
                                ![w].plain = {p \in page : blocker[p] = "done"}]
    /\ UNCHANGED <<table, replica, queue, fallback, faults, held, missed>>

\* A failed transaction falls through to the plain delete.
MutantFallThrough(p) == {}
FallThrough(p) == {p}

DeleteBlockerForSweep(w, p) ==
    /\ Job(w).phase = "out" /\ p \in Job(w).counted
    /\ \/ /\ DropActiveBlocker(p)
          /\ worker' = [worker EXCEPT ![w].counted = @ \ {p}]
       \/ /\ ~(blocker[p] = "active" /\ Live(p[2]))
          /\ worker' = [worker EXCEPT ![w].counted = @ \ {p},
                                      ![w].plain = @ \cup FallThrough(p)]
          /\ UNCHANGED <<blocker, num_active_blockers, queue, missed>>
    /\ UNCHANGED <<status, replica, deleted, reused, fallback, faults, held>>

DeleteRow(w, p) ==
    /\ p \in Job(w).plain
    /\ worker' = [worker EXCEPT ![w].plain = @ \ {p}]
    /\ blocker' = [blocker EXCEPT ![p] = "none"]
    /\ ForgetMiss(p)
    /\ UNCHANGED <<status, num_active_blockers, replica, deleted, reused, queue,
                   fallback, faults, held>>

\* Phase 2: from here on the rows under the deleted Issue in GSI1.
MutantBeginInbound(w) ==
    /\ Job(w).phase = "out" /\ LastPage(w)
    /\ Return(w)
    /\ UNCHANGED <<table, replica, queue, fallback, faults, held, missed>>
BeginInbound(w) ==
    /\ Job(w).phase = "out" /\ LastPage(w)
    /\ worker' = [worker EXCEPT ![w].phase = "in",
                                ![w].unread = Inbound(Job(w).issue)]
    /\ UNCHANGED <<table, replica, queue, fallback, faults, held, missed>>

ReadBlockers(w, page, stale) ==
    /\ Job(w).phase = "in" /\ PageDone(w)
    /\ page # {} /\ page \subseteq Job(w).unread /\ stale \subseteq page
    /\ Miss(w, stale)
    /\ worker' = [worker EXCEPT ![w].unread = @ \ page,
                                ![w].plain = page \ Seen(page, stale, "none")]
    /\ UNCHANGED <<table, replica, queue, fallback, faults, held>>

-----------------------------------------------------------------------------
\* handle_issue_num_active_blockers_zeroed: one conditional write.
MutantWakesEarly(i) == status[i] = "BLOCKED"
MutantWakesWithoutRows(i) ==
    /\ status[i] = "BLOCKED"
    /\ \A p \in Inbound(i) : blocker[p] = "none"
Wakes(i) == status[i] = "BLOCKED" /\ num_active_blockers[i] = 0

HandleZeroed(w) ==
    /\ Job(w).phase = "wake"
    /\ IF Wakes(Job(w).issue)
         THEN /\ status' = [status EXCEPT ![Job(w).issue] = "TODO"]
              /\ held' = held \ {Job(w).issue}
         ELSE UNCHANGED <<status, held>>
    /\ Return(w)
    /\ UNCHANGED <<num_active_blockers, blocker, replica, deleted, reused, queue,
                   fallback, faults, missed>>

Handle(w) ==
    \/ \E page \in SUBSET Job(w).unread : ReadPartition(w, page)
    \/ \E page \in SUBSET Job(w).unread : \E stale \in SUBSET page :
          ReadBlocking(w, page, stale) \/ ReadBlockers(w, page, stale)
    \/ \E p \in Job(w).counted : SatisfyIssueBlocker(w, p) \/ DeleteBlockerForSweep(w, p)
    \/ \E p \in Job(w).plain : DeleteRow(w, p)
    \/ SkipLivePartition(w)
    \/ BeginInbound(w)
    \/ HandleZeroed(w)
    \/ Finish(w)

Next ==
    \/ Client
    \/ \E p \in Links : Propagate(p)
    \/ \E w \in Workers, e \in Events : Deliver(w, e) \/ DeliverTwice(w, e)
    \/ \E w \in Workers : Handle(w) \/ Crash(w)

Spec == Init /\ [][Next]_vars

\* The consumer keeps working, every queued event is delivered in the end, and
\* the copy catches up.  Nothing is promised of clients or of faults.
Fairness ==
    /\ \A w \in Workers : WF_vars(Handle(w))
    /\ \A e \in Events : SF_vars(\E w \in Workers : Deliver(w, e))
    /\ \A p \in Links : WF_vars(Propagate(p))

FairSpec == Spec /\ Fairness

-----------------------------------------------------------------------------
(***************************************************************************)
(* Properties                                                              *)
(***************************************************************************)
RowStates == {"none", "active", "done"}

\* The type of every variable; a count is never negative.
TypeOK ==
    /\ status \in [Issues -> Statuses \cup {Absent}]
    /\ num_active_blockers \in [Issues -> Nat]
    /\ blocker \in [Links -> RowStates]
    /\ replica \in [Links -> RowStates]
    /\ deleted \subseteq Issues
    /\ reused \in 0 .. MaxReuse
    /\ queue \subseteq Events
    /\ worker \in [Workers -> Jobs]
    /\ fallback \subseteq Links
    /\ faults \in 0 .. MaxFaults
    /\ held \subseteq Issues
    /\ missed \subseteq {"done", "in"} \X Links

\* num_active_blockers of a live Issue counts its active IssueBlocker rows, in
\* every state: add, delete, satisfy and sweep each move row and count in one
\* transaction, and no replay or stale page moves the count twice.
CounterExact ==
    \A i \in Issues : Live(i) => num_active_blockers[i] = Cardinality(ActiveInto(i))

\* An Issue with an active blocker row is BLOCKED: no transition takes it out
\* while one remains, and the wake-up of an earlier blocker never overtakes a
\* later add_issue_blocker.
BlockedWhileHeld ==
    \A i \in Issues : Live(i) /\ ActiveInto(i) # {} => status[i] = "BLOCKED"

\* A row is marked satisfied only for a blocking Issue that is DONE, for good;
\* is_blocking_issue_done never runs ahead of the Issue it speaks of.
SatisfiedMeansDone ==
    \A p \in Links : blocker[p] = "done" => status[p[1]] \in {"DONE", Absent}

\* An event for handle_issue_done (or ..._deleted) of i that is still to act on
\* row p: queued, or in the hands of a worker that has p ahead of it.
DonePending(p) ==
    \/ Event("IssueDone", p[1]) \in queue
    \/ \E w \in Workers : /\ Job(w).phase = "done" /\ Job(w).issue = p[1]
                          /\ p \in Job(w).unread \cup Job(w).counted

Ahead(job, p) == p \in job.unread \cup job.counted \cup job.plain

SweepPending(i, p) ==
    \/ Event("IssueDeleted", i) \in queue
    \/ \E w \in Workers :
          /\ Job(w).issue = i
          /\ \/ Job(w).phase = "sweep"
             \/ Job(w).phase = "out" /\ (p[2] = i \/ Ahead(Job(w), p))
             \/ Job(w).phase = "in" /\ p[2] = i /\ Ahead(Job(w), p)

\* An active row of a live Issue whose blocking Issue is DONE, with no event left
\* that would satisfy it.
Forgotten(p) ==
    blocker[p] = "active" /\ status[p[1]] = "DONE" /\ Live(p[2]) /\ ~DonePending(p)

\* handle_issue_done satisfies every blocker of the Issue, as it says: none is
\* ever left with nothing to satisfy it.
MarksEveryBlocker == \A p \in Links : ~Forgotten(p)

\* Through crashes, duplicates and handlers that cross each other, a blocker of a
\* DONE Issue is forgotten in one way only: a page of get_issue_blocking was read
\* from a copy that had not got its row yet.
NoForgottenBlocker == \A p \in Links : Forgotten(p) => <<"done", p>> \in missed

\* An IssueBlocker row that names a deleted Issue, on either side, still has the
\* sweep of that Issue ahead of it, unless the sweep's page of GSI1 had not got
\* the row yet: no other row outlives both its Issue and the sweep.
NoOrphanRow ==
    \A p \in Links : \A i \in {p[1], p[2]} :
       blocker[p] # "none" /\ ~Live(i) =>
          SweepPending(i, p) \/ (i = p[2] /\ <<"in", p>> \in missed)

\* An Issue that add_issue_blocker moved to BLOCKED, and whose last blocker has
\* cleared with no status write since, has its wake-up queued or in progress.
NoLostWakeup ==
    \A i \in held : num_active_blockers[i] = 0 =>
       \/ Event("IssueNumActiveBlockersZeroed", i) \in queue
       \/ \E w \in Workers : Job(w).phase = "wake" /\ Job(w).issue = i

\* DONE is terminal: only deletion takes an Issue out of it.
DoneIsFinal ==
    [][\A i \in Issues : status[i] = "DONE" => status'[i] \in {"DONE", Absent}]_vars

\* Whatever ids are reused, an Issue with a positive count is BLOCKED, never DONE.
CountedIsBlocked ==
    \A i \in Issues : num_active_blockers[i] > 0 => status[i] = "BLOCKED"

\* A held Issue with no blocker left is woken, blocked again, or moved by hand.
Woken == \A i \in Issues : (i \in held /\ num_active_blockers[i] = 0)
                              ~> ~(i \in held /\ num_active_blockers[i] = 0)

\* A blocker of a DONE Issue is satisfied in the end, goes with the Issue it blocks
\* (Swept), or was left out of a page.
Settled ==
    \A p \in Links : (blocker[p] = "active" /\ status[p[1]] = "DONE" /\ Live(p[2]))
        ~> (blocker[p] # "active" \/ ~Live(p[2]) \/ <<"done", p>> \in missed)

\* The rows of a deleted Issue are gone in the end, on both sides: all of those in
\* its own partition, and those in GSI1 but for what the page left out.
Swept ==
    \A p \in Links : (blocker[p] # "none" /\ ~(Live(p[1]) /\ Live(p[2])))
        ~> (blocker[p] = "none" \/ (Live(p[1]) /\ <<"in", p>> \in missed))

-----------------------------------------------------------------------------
(***************************************************************************)
(* The abstract specification this one implements: a blocked Issue waits   *)
(* for the set of its active blockers.                                     *)
(***************************************************************************)
Waits == {p \in Links : blocker[p] = "active" /\ Live(p[2])}
Abstract == INSTANCE BlockedIssues WITH waits <- Waits

\* Counters, rows, events and pages together behave like one set of blockers
\* per Issue that every status change consults.
ImplementsBlockedIssues == Abstract!Spec

-----------------------------------------------------------------------------
(***************************************************************************)
(* What makes the safety properties inductive when no id is drawn twice.   *)
(***************************************************************************)
\* The count of a live Issue, and 0 kept for an Issue without a row.
CountInv ==
    \A i \in Issues :
       num_active_blockers[i] = IF Live(i) THEN Cardinality(ActiveInto(i)) ELSE 0

\* A row names two Issues that exist or did; a deleted Issue stays deleted.
RowsInv ==
    /\ \A p \in Links : blocker[p] # "none" =>
          \A i \in {p[1], p[2]} : Live(i) \/ i \in deleted
    /\ \A i \in deleted : ~Live(i)

\* Only a deleted Issue is swept, and its sweep holds its own rows.
SweepInv ==
    /\ \A i \in Issues : Event("IssueDeleted", i) \in queue => i \in deleted
    /\ \A w \in Workers : Job(w).phase \in {"sweep", "out", "in"} =>
          /\ Job(w).issue \in deleted
          /\ Job(w).unread \cup Job(w).counted \subseteq
                IF Job(w).phase = "in" THEN Inbound(Job(w).issue)
                                       ELSE Outbound(Job(w).issue)

\* A row up for a bare delete names a deleted Issue, and is no row a live Issue
\* counts: the delete leaves every counter right.
PlainInv ==
    \A w \in Workers : \A p \in Job(w).plain :
       /\ p[1] \in deleted \/ p[2] \in deleted
       /\ blocker[p] = "active" => ~Live(p[2])

Inv == TypeOK /\ CountInv /\ RowsInv /\ SweepInv /\ PlainInv /\
       BlockedWhileHeld /\ SatisfiedMeansDone
=============================================================================
