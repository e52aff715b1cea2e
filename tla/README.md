# A formal model of PL8

PL8 (`src/src/pl8_base`) is an issue tracker kept in one DynamoDB table. This
directory holds TLA+ models of its rules, TLC runs that check them on small
instances, and TLAPS proofs that most of them hold for every size. Paths below
are relative to `src/src/pl8_base` unless they say otherwise.

## 1. Inventory

Every operation is a method of one manager class. It reads or writes the
table with single conditional requests or with one DynamoDB transaction, and
keeps nothing in memory between calls. Anything concurrent is therefore an
interleaving of whole requests of different callers. What makes it hard is
what lies between two requests.

| Component | State | Operations | Hard behaviour |
| --- | --- | --- | --- |
| Issue blocking (`mixins/issue.py`) | `IssueInfo.status`, `num_active_blockers`, `IssueBlocker` rows (`is_blocking_issue_done`) | `create_issue`, `transition_issue`, `delete_issue`, `add_issue_blocker`, `delete_issue_blocker`, `handle_issue_done`, `handle_issue_deleted`, `handle_issue_num_active_blockers_zeroed` | the flag, the counter and the status move in different transactions, some of them driven by events that come late, twice, out of order; pages are stale; a handler dies half way; a random id is drawn again |
| Comments (`mixins/comment.py`) | `IssueComment` rows, `IssueInfo.num_comments` | create, update, delete, pages of a thread, sync after a comment | deletes crossing the sweep; ids drawn before rows commit |
| Attachments (`mixins/attachment.py`) | `IssueAttachment` rows (PENDING, UPLOADED), `num_attachments` of the Issue and of the comment, S3 objects | initiate, resign, confirm, delete, two sweeps, removal of the object | a confirm increments between a read and a delete; either owner may be gone; TTL and presigned POSTs act on their own |
| Spaces (`mixins/space.py`) | `SpaceInfo.issue_count` | create, update, delete, and the Issues counted against it | the delete races a create; calls that conflict retry on one another |
| Conditional updates (`manager.py`) | `version` of every row | `_build_update`, `apply_update`, `get_primary_item`, `delete_row` | a fence must fail on an edit and only on an edit |
| Conflict retry (`util.py`) | none | `retry_on_transaction_conflict` | bounded, and of the right unit of work |
| Queries (`manager.py`) | none | `run_query`, `paginate`, cursors; threads, listings by GSI1 | rows come, go and move between two pages |
| Refusals (`errors.py`, `raise_for_...` and `failed_reason_item` of `manager.py`) | none | the error raised for a refused request, from old items and positions in `CancellationReasons` | a call sends several requests, the rows move in between, a reply is lost and the write sent again |
| Events (`types/events.py`, `util.py`) | none | `send_event`, `parse_event` | conversions; delivery is outside |
| Types, validation | none | conversions and predicates | none with state |
| DynamoDB streams, TTL and replication, EventBridge, SQS, S3 | outside | deliver events, delete expired rows, keep objects | at-least-once, unordered |

How they interact: a write commits; DynamoDB's stream shows it to
`pl8-stream-handler`, which publishes an event; SQS hands it to
`pl8-event-handler`, which calls a `handle_*` method; the method's writes are
shown by the stream in turn. Neither service is in this repository; both are
modelled as external, from what the docstring of `IssueMixin` asks of them.

What makes each component correct:

- blocking: a counter equal to the active rows, an Issue held BLOCKED while one
  is left and woken when none is, DONE final, no row that outlives an Issue,
  every blocker of a DONE Issue satisfied;
- comments, attachments: exact counts, no row without a parent, no UPLOADED row
  without its bytes, no bytes without a row, a delete that deletes;
- Spaces: exact count, no Issue without a Space, every call returns;
- updates: a fenced write lands only on what its caller read, and is refused
  only for a real change;
- queries: a reading returns each row once, in order, and misses none that stood
  all along;
- refusals: the error names a row that was in the state it says while the call
  ran, and a call that was refused changed nothing.

`PROJECT.json` lists the hazards of the code, each at its line, with the
properties that cover it.

## 2. Modules

| Module | Contents |
| --- | --- |
| `IssueBlocking` | Issues, blockers, the three handlers, replication, delivery |
| `BlockedIssues` | what blocking promises: each Issue has a set of Issues it waits for |
| `IssueBlockingProofs` | the inductive invariant of `IssueBlocking` when ids are drawn once; `IssueBlocking` implements `BlockedIssues` |
| `IssueBlockingEventProofs` | no wake-up, satisfaction or sweep that is due is lost |
| `Attachments` | comments, attachments and objects of one Issue and of the Issues that have its id later, the delete ladder, the two sweeps |
| `AttachmentsProofs` | types, rows against objects; sweeps pass no row by; the ladder has attempts enough |
| `AttachmentCountsProofs` | the counts are exact |
| `Spaces`, `SpacesProofs` | Spaces, `issue_count`, transactions that hold keys, retries; its invariant proved |
| `Updates`, `UpdatesProofs` | the version fence on one row, counters that do not move it, retries, lost replies; its properties proved |
| `Queries`, `QueriesProofs` | pages of a thread, syncing after a comment, listings over GSI1; readings miss nothing |
| `Refusals`, `RefusalsProofs` | one call of one of fifteen operations (`Calls`), its requests one by one, and the error it reports; every error is true |
| `MC_IssueBlocking`, `MC_Updates` | the constants TLC needs that a configuration cannot write |

The operations of `Calls` are `get`, `update`, `create` and `delete` of a Space, an
Issue and a comment (`get` of an attachment too), `transition_issue`,
`add_issue_blocker`, `delete_issue_blocker`, `initiate_upload`, `resign_upload`,
`confirm_uploaded` and `delete_issue_attachment`: all that a client can call, but
the listings, which are in `Queries`, and the handlers of events, which are in
`IssueBlocking` and `Attachments` and report to no caller. `Calls` has one name for
the `get`s and one for the `update`s, which makes fifteen.

A definition named `Mutant...` is the one that follows it with a plausible
bug put in. It is used only to see that a property does fail when the code is
wrong.

### How state and actions correspond to the code

- **A row** is a value under its key: `status[i]` with the value `"ABSENT"`
  where there is no `IssueInfo`; `blocker[l]` for the link `l`; `comment[c]`
  and `attachment[a]`; `spaces` and `issues` as sets of keys.
- **A request is one action.** DynamoDB evaluates the conditions of a
  transaction and applies it at one instant, so the conjunction of its
  `ConditionExpression`s is the guard, and its updates are the primed
  variables. A method that makes several requests is several actions, and
  the caller's position between them is part of the state: `worker` in
  `IssueBlocking`, `ladder` and `sweep` in `Attachments`, `call` in `Spaces`
  and `Updates`, `step` in `Refusals` (with `tries` and `dropped` when the call is
  `delete_issue_attachment`, whose ladder goes back and forth).
- **A refused request** that only raises changes nothing. `Refusals` is about
  what is raised; the other modules leave such requests out, except where the
  code goes on after one: `DeleteIssueBlockerMiss` and `...Fallback`, the
  fall-through of `delete_blocker_for_sweep`, the rungs of
  `delete_attachment_with_counters`, the rolls of `create_issue`.
- **A page** in `Queries` is the sequence of keys a query returned, in its
  order; in the sweeps, where nothing depends on the order, a set of rows.
- **Conflicts.** Between `Prepare` and `Commit...` a transaction holds its
  keys; `Spaces` and `Updates` model this and the retry that answers it. In the
  other modules a conflict is a request that has not happened yet, which
  interleaving already covers; a handler that gives up on conflicts is `Crash`.
- **Events.** `queue` is a set of events: unordered. An event is put there by
  the action whose write the stream shows. Delivering it may leave it there
  (a duplicate) and `Crash` puts it back (a redelivery); both are counted in
  `faults`.
- **Lagging reads.** `get_item` without `ConsistentRead`, a query without it
  and any query on GSI1 may answer from an older state. `replica` (or
  `lagging`) is one such state per row, moved forward by `Propagate`. One
  copy stands for the lag of the replicas and of the index. A partition is
  copied write by write in their order, so that its lagging copy is the
  partition at an earlier time; an index takes up keys in any order.
- **Lost replies.** A write may be applied and its reply lost; botocore then
  sends a single-item write again, or gives up, which is an internal error.
  `Updates` and `Refusals` model this. (A transaction carries a client token
  and is applied once.)
- **Ids.** Comment and attachment ids are UUIDv7 and never drawn twice. An
  Issue id is random and may be (`MaxReuse`), a Space id is the caller's.

### Constants that choose an environment

| Constant | Meaning |
| --- | --- |
| `MaxReuse` | how often an Issue id may be drawn again, in `IssueBlocking` and in `Attachments` |
| `MaxFaults` | duplicates and crashes |
| `MaxLost` | replies lost, per call |
| `MaxChanges` | in `Refusals`, the steps of others during the call |
| `MaxEditions`, `MaxKeys` | the writes of a row in `Updates`, the keys drawn in `Queries` |

How far a copy lags is not bounded, in any run or proof: that is what DynamoDB
may do where the code does not set `ConsistentRead`. It makes `MarksEveryBlocker`
and `DeletesDelete` false, as section 4 shows; the properties that hold say which
read that lagged is to blame for what is lost (`missed` and `lagged` below). The
theorems that need `MaxReuse = 0` say so.

### History variables

Some variables record what the code does not; no guard reads them, but for the
bounds on `edition` and `reused`.

| Variable | Records |
| --- | --- |
| `held` (`IssueBlocking`) | BLOCKED was written by `add_issue_blocker`, not by hand |
| `missed` (`IssueBlocking`) | rows that a page of a handler left out because the copy had not got them yet |
| `lagged` (in `ladder`; `Refusals`) | a re-read of this ladder was answered by a lagging copy |
| `late` (`Attachments`) | objects POSTed after their row went |
| `reused`, `tainted` (`Attachments`) | draws of the Issue's id; whether the Issue that stands met rows of the last one, or its sweep past the first page |
| `late` (`Queries`) | keys committed behind one drawn later |
| `still` (in `query`) | what a reading has no excuse to miss |
| `edition`, `birth` (`Updates`) | content, and content at creation |
| `seen`, `applied`, `resent` (`Refusals`) | states of the rows during the call; whether it changed one; whether a write was sent again after it was applied |

`missed`, `lagged`, `late`, `tainted`, `birth` and `resent` each set apart one behaviour the code
does have and the property would otherwise be false of; section 5 lists them.

## 3. Runs that pass

| Run | Module | Bounds | What it shows |
| --- | --- | --- | --- |
| `fan_in` | IssueBlocking | two Issues that block a third, one handler, one fault | counter, status, rows and events agree in every state; counts above 1 clear one by one, the wake-up after the last; no blocker is forgotten and no row orphaned but those a page had not got; the implementation of `BlockedIssues` |
| `crossing` | IssueBlocking | one link, two handlers, fair delivery | handlers on one row do not undo, repeat or forget one another's work; held Issues are woken, rows of DONE and deleted Issues settled |
| `reuse` | IssueBlocking | two Issues that may block each other, one id drawn again, one handler, one fault | what still holds when a new Issue takes an old id: no row is left without a sweep ahead unless its page had not got it, and a positive count is BLOCKED |
| `sweeps` | Attachments | one attachment, of the Issue or of a comment, two handlers, one fault, fair delivery | no UPLOADED row without its bytes, no bytes without their removal ahead; rows and objects go in the end |
| `lagging` | Attachments | the same row, one delete by a client, the Issue's id drawn once more, one handler, one fault | counts stay exact whatever was read before, unless rows of the old Issue reach the new one; no row is left behind by a sweep; the client's delete runs out of attempts, or returns with the row standing, only after a re-read that lagged |
| `count` | Spaces | one Space, two ids, three callers | exact counts, no Issue without its Space, no livelock of retries |
| `fence` | Updates | one Issue, two callers, five writes, one lost reply in a call | the fence fails on edits and on nothing else; a write sent again overwrites nothing; conflicts are retried |
| `pages` | Queries | four keys, two Issues, pages of up to two | every row that stood all along comes once and in order, in both directions, to a caller that syncs and from an index whose rows move |
| `calls` | Refusals | the fifteen operations of `Calls`, two attempts, two rolls, two steps of others, one lost reply | the error was true while the call ran; a refusal becomes an internal error only where a re-read of `delete_issue_attachment` lagged; a refused call changed nothing |

`PROJECT.json` names the cfg file of each run. `fan_in` and `reuse` take the
two blocking Issues as symmetric, which they are: nothing but their place in
`Links`, where they may be swapped, tells one from the other.

Why the bounds are enough. Every condition the code tests reads at most two
Issues and the row between them, or a row and its two owners, so two Issues,
two owners, and two actors on a row meet all of them; a count of two needs a
third Issue, and a cycle two links. A handler repeats one step per row: two rows
distinguish first, last and in between two pages. One fault is a duplicate or a
redelivery of any event at any point; more of them, and more workers at once,
are what the proofs of section 6 add. The ladder has four attempts because at
most three can be refused when reads are current. Two Spaces share no key, so
one is enough; three callers let two conflict while the third commits. Two
attempts of a retry, and two rolls of an id, show the first and the last. Five
writes of a row let a caller read one content, two others intervene, the row be
created again, and a second caller write. No call of `Refusals` sends more than
three requests before it retries, but for `delete_issue_attachment`: two steps of
others can change what each of the requests met, or a row twice. An owner may be
gone when the call begins, so that a confirm and two lost owners can meet in one
ladder, which takes three of its four attempts. Four keys let a row move past a page boundary and
back into what is still to be read.

An attachment starts with its comment chosen freely among a comment and none,
so one attachment meets both kinds of owner. Counts of two or more attachments
are not reached by TLC; `AttachmentCountsProofs` covers them.

Deadlock is checked where the system can always go on (`Spaces`, `Queries`).
Where ids are used up (`IssueBlocking`, `Attachments`), writes are bounded
(`Updates`) or a behaviour is one call (`Refusals`) it may stop, and the
configurations say so.

### Fairness

- `IssueBlocking`: weak fairness of every step of a handler that holds a
  message (Lambda runs it to its end, or `Crash` ends it, at most `MaxFaults`
  times); strong fairness of the delivery of each event (SQS delivers it again
  and again until its handler returns; there is no dead letter queue in the
  model); weak fairness of `Propagate`. No client is fair: nobody has to
  unblock, finish or delete anything.
- `Attachments`: the same for its two sweeps and for the removal of objects.
  TTL is not fair: DynamoDB promises no time.
- `Spaces`: weak fairness of a call's own next step; a call that was made is
  running code.

## 4. Runs that fail: where the code and its documents differ

Each checks one property the repository states, in the environment that breaks
it; `PROJECT.json` quotes the sentence.

| Run | What happens |
| --- | --- |
| `lagging_done` | A blocker is added, the blocking Issue finishes, and `handle_issue_done` reads a page that does not show the blocker yet. Nothing comes back: the blocked Issue waits for a DONE Issue until someone deletes the row. |
| `stale_delete` | `get_primary_item` is eventually consistent: the re-read of the ladder may not show the row at all, and `delete_issue_attachment` returns with the row standing. (Nor need it say UPLOADED: it may say PENDING again until the attempts run out, which ends in `DDBInternalError`; `LadderSuffices` and `NothingUnexplained` say that nothing else does.) A sweep leaves no row this way: nothing is confirmed once a parent is gone, so its delete of a PENDING row is refused only when the row is gone. `lagging` checks that. |
| `comment` | `update_issue_comment` alone is not retried on a transaction conflict. |

## 5. What the code does that a property sets apart

These behaviours are in the models, and no run fails on them, because the
property excludes them by name.

- The GSI1 half of `handle_issue_deleted` may miss a row added just before
  (`<<"in", p>> \in missed`); the row names a deleted Issue for good. The code's
  comment knows (`mixins/issue.py:926-929`).
- A new Issue under an old id inherits active rows its counter does not count;
  `CounterExact` is checked with `MaxReuse = 0`, `CountedIsBlocked` without. The
  code accepts it as rare (`mixins/issue.py:882-902`).
- The same under attachments: the old Issue's comments and attachments are still
  there, uncounted, or its sweep meets rows of the new one and decrements what
  it did not count (`tainted`; `mixins/attachment.py:803-807`). Counts of
  comments stay exact even then.
- A zeroed event may arrive after a client set the Issue to BLOCKED by hand
  (`held`); the Issue goes to TODO. `mixins/issue.py:979-980` calls a late
  event a no-op.
- A presigned POST outlives the row it was signed for and puts an object back
  that nothing removes (`late` in `Attachments`).
- A row created again starts at version 1, and a fence read from the old row may
  pass on the new one (`birth` in `Updates`).
- A comment's id is drawn before its row commits; a caller that synced past it
  never gets it (`late` in `Queries`). An Issue whose status is written while
  Issues of a status are listed may come twice or not at all (`still`).
- A write whose reply was lost is sent again, and refused for what it wrote
  itself: `create_space` reports `DDBExistsError`, a fenced update
  `DDBVersionConflictError`, a delete that the row is missing (`resent` in
  `Refusals`; `StaleIsStale` says of such a change that it may be the caller's
  own). A transaction conflict met by the repeated write reaches the caller
  though the first one was applied, where the README says of a conflict that
  nothing was (`README.md:131-132` of the repository).

A page of a thread that answered from a copy with a later comment and without an
earlier one would break `SyncComplete`. That no such copy is read is an
assumption about DynamoDB, stated at `Propagate`.

## 6. Proofs

Each is for any value of the constants that its module's named `ASSUME`s
allow: any sets of Issues, rows, callers and workers (finite where a count is
taken over them), any number of faults, retries and lost replies. TLC evaluates
those `ASSUME`s in the runs. A theorem with a further assumption states it.

| Theorem | Property | Further assumption |
| --- | --- | --- |
| `IssueBlockingProofs`: `TypeCorrect`, `CounterIsExact`, `HeldIsBlocked`, `SatisfiedIsDone` | `TypeOK`, `CounterExact`, `BlockedWhileHeld`, `SatisfiedMeansDone` | `MaxReuse = 0` |
| `DoneStaysDone` | `DoneIsFinal` | |
| `IssueBlockingEventProofs`: `CountedStaysBlocked`, `WakeupIsNeverLost` | `CountedIsBlocked`, `NoLostWakeup` | |
| `EveryOrphanIsSwept` | `NoOrphanRow` | |
| `NoBlockerIsForgotten` | `NoForgottenBlocker` | `MaxReuse = 0` |
| `IssueBlockingProofs`: `Implements` | `ImplementsBlockedIssues` | `MaxReuse = 0` |
| `AttachmentsProofs`: `UploadsAreThere`, `NoObjectIsStranded` | `UploadedHasObject`, `NoStrandedObject` | |
| `NoRowIsStranded` | `NoStrandedRow` | |
| `DeletesLeaveNoRow`, `AttemptsSuffice` | `DeletesUnlessMissed`, `LadderSuffices` | |
| `AttachmentCountsProofs`: `CountsAreExact`, `TypeCorrect` | `CountsExact`, `TypeOK` | |
| `SpacesProofs`: `TypeCorrect`, `CountIsExact`, `NoIssueIsHomeless` | `TypeOK`, `CountExact`, `NoHomelessIssue` | |
| `UpdatesProofs`: `TypeCorrect`, `FencedWritesAreFresh`, `StaleFencesAreStale` | `TypeOK`, `FencedIsFresh`, `StaleIsStale` | |
| `ConflictsAreRetried` | `RetriedBeforeConflict` | no row is an `IssueComment` (section 4) |
| `QueriesProofs`: `TypeCorrect`, `PagesAreInOrder`, `ReadingsAreComplete`, `SyncsAreComplete` | `TypeOK`, `OnceInOrder`, `PassComplete`, `SyncComplete` | |
| `RefusalsProofs`: `TypeCorrect`, `ErrorsTrue`, `NothingIsUnexplained`, `RefusedChangesNothing` | `TypeOK`, `ErrorsAreTrue`, `NothingUnexplained`, `RefusedChangedNothing` | |

How they go:

- **Blocking.** `Inv` is the types, that the counter is the number of active
  rows (`CountInv`), where rows can be once an Issue is gone (`RowsInv`), what a
  handler in a sweep knows (`SweepInv`), that a row a handler is past the
  decrementing delete of is active only where the blocked Issue is gone
  (`PlainInv`), and two safety properties. `CounterExact` alone is not
  inductive: the plain delete of `delete_blocker_for_sweep` keeps the counter
  only because of `PlainInv`, which depends on ids not being reused.
- **Events.** Each property is of the form "this is due, or its event or handler
  is still there". `EventFate` says that an event leaves the queue only into the
  hands of a worker, and lemmas for each phase say that a worker leaves a phase
  only with what it had to do done, or back into the queue. `NoOrphanRow` needs
  that a sweep passes a row by only when its page showed it or had not got it
  (`SweepUnread`, `missed`), and holds for reused ids too, for its claim is about rows and
  not counts.
- **Refinement.** `Waits`, the active rows of live Issues, is a function of the
  table. Under `Inv` each write is a step of `BlockedIssues` or a stutter: the
  count is 0 exactly when `Waits` has no row into the Issue.
- **Objects.** What a call read, a state of a row, can only be passed and not
  come back (`Past`). A confirm that has headed the object finds it still there,
  because it is removed only after the row went, which the confirm's condition
  would notice.
- **Sweeps and the ladder.** Pages in hand and calls underway show states their
  rows have been in (`PastInv`). A sweep that holds a row knows its status once
  the owner is gone, since nothing is confirmed without its owners: so it deletes
  it, or finds it gone. `LadderInv` weighs a call: the owners it may still have
  to drop, and one refusal of a row that was read PENDING, are fewer than the
  attempts left. A re-read that lags may bring the second weight back, and
  `lagged` is set; a re-read that does not, cannot: a row that refused the delete of
  a PENDING row is PENDING no more (`Refuted`). For the same reason a call returns
  from a re-read with its row standing only if the copy had not got the row.
- **Counts.** `WorkInv` says that an owner a ladder leaves out of its
  transaction is gone, or (for the Issue) is not the one the attachment was of;
  `CountInv` that counts match rows. The transaction of each rung then moves the
  row and exactly the counts that had it.
- **Spaces.** `Inv` is the conjunction of the types and the two invariants. A
  Space may go at count 0 because the count is exact; it is exact after
  `create_space` because no Issue is left without a Space; it stays natural
  because the Issue deleted was counted.
- **Updates.** A version is the edition less the row's birth, plus one: of the
  row, of its lagging copy, and of what a caller read (`Sound`). Two copies of
  one life agree on the version exactly when they agree on the content. A retry
  counts what it met (`RetryInv`).

- **Queries.** A row that has stood since the reading began is in the table and
  in the copy all along, under one key (`Stood`). It has been returned, or lies
  beyond the cursor (`Ordered`): every page shows it, until one returns it or the
  next page starts before it. A key that is drawn and not committed is in no
  view and with no caller (`Committed`), so a commit adds to none of them. For a
  sync, `Synced` says that who shows a comment shows every earlier one that
  stands and did not commit late: a copy of a partition is an earlier state of
  it.
- **Refusals.** `Reason` lists what an item of a request can be refused for, and
  `Shape` shows, operation by operation, that every item of every request is one
  of those: a change of a condition without its error breaks that lemma.
  `ToldIsGrounded` then goes through the errors, once for all operations. Two
  facts carry from one request to the next. `Satisfied`: when
  `delete_issue_blocker` falls back, the row was seen gone, or is satisfied and
  can only go, so a refusal of the second delete may say the row is missing.
  `Confirmable`: once the object was headed, it stays while the row does, so the
  transaction of `confirm_uploaded` does not mark an attachment that has none.
  `OnRungs` is `LadderInv` for one call of `delete_issue_attachment`: until a
  re-read lags, the attempts spent are the counters it has dropped and one delete of
  a PENDING row. `Answered` says that a call still under way has changed nothing, unless it
  was its own lost write; every write is the last request of its call (`Kinds`).

Left to TLC: liveness under fairness (`Woken`, `Settled`, `Swept`, `RowsGo`,
`ObjectsGo`, `Returns`), which needs `ENABLED`. Every other property of the runs
that pass is a theorem.

## 7. Not modelled, and why

- Validation, compression, DynamoDB and JSON encodings, the text of cursors:
  functions of their arguments with no state.
- The dead letter queue, and the branch of `handle_issue_deleted` that refuses
  a row of an unknown type: no row of such a type can be written.
- `DDBArgsError` and the missing S3 configuration, raised before any request;
  `DDBCorruptedError`, which takes a row no code here writes; the errors of
  `send_event` and `parse_event`.
- An Issue that changes status between two listings, one per status: each
  listing is read alone.

## 8. Plan

Done: `IssueBlocking` with its abstraction, its proofs and the proof of the
refinement; `Attachments` with reused ids and its proofs; `Spaces` and `Updates`
with theirs; `Queries` and `Refusals` with theirs.

Next, in this order:

1. the partition shared by `IssueBlocking` and `Attachments` in one sweep, where
   the order of rows of different types matters;
2. an abstract specification of attachments (a set of counted files per owner)
   that `Attachments` implements;
3. several Issues in `Refusals` at once, so that two refused calls explain one
   another.
