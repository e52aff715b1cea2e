------------------------- MODULE IssueBlockingProofs -------------------------
(***************************************************************************)
(* Proofs about IssueBlocking, for every number of Issues, links, workers  *)
(* and faults.  MaxReuse = 0 is an assumption of the theorems that need    *)
(* it: ids are not drawn twice.                                            *)
(***************************************************************************)
EXTENDS IssueBlocking, FiniteSetTheorems, TLAPS

\* TypeOK without the claim that counts are not negative, which rests on
\* CountInv.
Typed ==
    /\ status \in [Issues -> Statuses \cup {Absent}]
    /\ num_active_blockers \in [Issues -> Int]
    /\ blocker \in [Links -> RowStates]
    /\ replica \in [Links -> RowStates]
    /\ deleted \subseteq Issues
    /\ reused \in 0 .. MaxReuse
    /\ queue \subseteq Events
    /\ worker \in [Workers -> Jobs]
    /\ fallback \subseteq Links
    /\ faults \in 0 .. MaxFaults
    /\ held \subseteq Issues
    /\ missed \subseteq {"done", "in"} \X Links

BusyJobs == [phase : Phases, issue : Issues, unread : SUBSET Links,
             counted : SUBSET Links, plain : SUBSET Links]

LEMMA LinkEnds == ASSUME NEW p \in Links PROVE p[1] \in Issues /\ p[2] \in Issues
  BY LinksAssumption

LEMMA EventTyped == ASSUME NEW t \in EventTypes, NEW i \in Issues
                    PROVE  Event(t, i) \in Events
  BY DEF Event, Events

LEMMA JobTyped == ASSUME NEW e \in Events PROVE JobFor(e) \in BusyJobs
<1>1. Outbound(e.issue) \in SUBSET Links
  BY DEF Outbound
<1> QED BY <1>1 DEF JobFor, BusyJobs, Events, EventTypes, Phases

\* A worker with a job holds a full record.
LEMMA BusyTyped ==
  ASSUME Typed, NEW w \in Workers
  PROVE  /\ Job(w) # NoJob => Job(w) \in BusyJobs
         /\ Job(w).phase \in Phases => Job(w) \in BusyJobs
         /\ Job(w).counted \cup Job(w).plain \cup Job(w).unread \subseteq Links
         /\ Job(w).counted # {} \/ Job(w).plain # {} => Job(w) \in BusyJobs
  BY DEF Typed, Jobs, BusyJobs, NoJob, Job, Phases

\* The history of left-out rows keeps its type.
LEMMA MissTyped ==
  ASSUME Typed, NEW w \in Workers, NEW page \in SUBSET Links, NEW stale \in SUBSET page,
         Job(w).phase \in {"done", "in"}, Miss(w, stale)
  PROVE  missed' \subseteq {"done", "in"} \X Links
  BY DEF Typed, Miss

LEMMA ForgetMissTyped ==
  ASSUME Typed, NEW p \in Links, ForgetMiss(p) \/ UNCHANGED missed
  PROVE  missed' \subseteq {"done", "in"} \X Links
  BY DEF Typed, ForgetMiss

LEMMA InitTyped == Init => Typed
  BY BoundsAssumption DEF Init, Typed, RowStates, Jobs

LEMMA ClientTyped == ASSUME Typed, Client PROVE Typed'
<1>1. CASE \E i \in Issues, s \in Statuses : CreateIssue(i, s)
  BY <1>1, BoundsAssumption DEF Typed, CreateIssue
<1>2. CASE \E i \in Issues, s \in Statuses : TransitionIssue(i, s)
  BY <1>2, EventTyped DEF Typed, TransitionIssue, Emit, EventTypes
<1>3. CASE \E i \in Issues : DeleteIssue(i)
  BY <1>3, EventTyped DEF Typed, DeleteIssue, Emit, EventTypes
<1>4. CASE \E p \in Links : AddIssueBlocker(p)
  BY <1>4, EventTyped, LinkEnds, StatusesAssumption
     DEF Typed, AddIssueBlocker, Emit, EventTypes, Adjust, ZeroedBy, RowStates
<1>5. CASE \E p \in Links : DeleteIssueBlocker(p)
  BY <1>5, EventTyped, LinkEnds, ForgetMissTyped
     DEF Typed, DeleteIssueBlocker, DropActiveBlocker, Emit, EventTypes, Adjust, ZeroedBy,
         RowStates
<1>6. CASE \E p \in Links : DeleteIssueBlockerMiss(p)
  BY <1>6 DEF Typed, DeleteIssueBlockerMiss, table
<1>7. CASE \E p \in Links : DeleteIssueBlockerFallback(p)
  BY <1>7, ForgetMissTyped DEF Typed, DeleteIssueBlockerFallback, RowStates
<1> QED BY <1>1, <1>2, <1>3, <1>4, <1>5, <1>6, <1>7 DEF Client

\* A worker's job after one of its fields has been rewritten.
LEMMA JobUpdate ==
  ASSUME Typed, NEW w \in Workers, NEW j \in Jobs, worker' = [worker EXCEPT ![w] = j]
  PROVE  worker' \in [Workers -> Jobs]
  BY DEF Typed

LEMMA ReturnTyped == ASSUME Typed, NEW w \in Workers, Return(w)
                     PROVE  worker' \in [Workers -> Jobs]
  BY DEF Typed, Return, Jobs

LEMMA DeliverTyped ==
  ASSUME Typed, NEW w \in Workers, NEW e \in Events, Deliver(w, e) \/ DeliverTwice(w, e)
  PROVE  Typed'
<1>1. worker' = [worker EXCEPT ![w] = JobFor(e)]
  BY DEF Deliver, DeliverTwice
<1>2. worker' \in [Workers -> Jobs]
  BY <1>1, JobTyped, JobUpdate DEF Jobs, BusyJobs
<1> QED BY <1>2, BoundsAssumption DEF Typed, Deliver, DeliverTwice, table

LEMMA CrashTyped == ASSUME Typed, NEW w \in Workers, Crash(w) PROVE Typed'
<1>1. Job(w) \in BusyJobs
  BY BusyTyped DEF Crash
<1>2. EventOf(Job(w)) \in Events
  BY <1>1 DEF EventOf, BusyJobs, Phases, Event, Events, EventTypes
<1>3. worker' \in [Workers -> Jobs]
  BY ReturnTyped DEF Crash
<1> QED BY <1>2, <1>3, BoundsAssumption DEF Typed, Crash, Emit, table

LEMMA HandleTyped == ASSUME Typed, NEW w \in Workers, Handle(w) PROVE Typed'
<1> USE DEF Job
<1>1. CASE \E page \in SUBSET Job(w).unread : ReadPartition(w, page)
  <2> PICK page \in SUBSET Job(w).unread : ReadPartition(w, page)
    BY <1>1
  <2>1. Job(w) \in BusyJobs /\ page \subseteq Links
    BY BusyTyped DEF ReadPartition, Phases
  <2>2. worker' \in [Workers -> Jobs]
    BY <2>1 DEF Typed, ReadPartition, BusyJobs, Jobs, Phases
  <2> QED BY <2>2 DEF Typed, ReadPartition, table
<1>2. CASE \E page \in SUBSET Job(w).unread : \E stale \in SUBSET page :
             ReadBlocking(w, page, stale) \/ ReadBlockers(w, page, stale)
  <2> PICK page \in SUBSET Job(w).unread : \E stale \in SUBSET page :
             ReadBlocking(w, page, stale) \/ ReadBlockers(w, page, stale)
    BY <1>2
  <2> PICK stale \in SUBSET page : ReadBlocking(w, page, stale) \/ ReadBlockers(w, page, stale)
    OBVIOUS
  <2>1. Job(w) \in BusyJobs /\ page \subseteq Links
    BY BusyTyped DEF ReadBlocking, ReadBlockers, Phases
  <2>2. Seen(page, stale, "active") \subseteq Links
    BY <2>1 DEF Seen
  <2>3. worker' \in [Workers -> Jobs]
    BY <2>1, <2>2 DEF Typed, ReadBlocking, ReadBlockers, BusyJobs, Jobs
  <2>4. missed' \subseteq {"done", "in"} \X Links
    BY <2>1, MissTyped DEF ReadBlocking, ReadBlockers
  <2> QED BY <2>3, <2>4 DEF Typed, ReadBlocking, ReadBlockers, table
<1>3. CASE \E p \in Job(w).counted : SatisfyIssueBlocker(w, p)
  <2> PICK p \in Job(w).counted : SatisfyIssueBlocker(w, p)
    BY <1>3
  <2>1. Job(w) \in BusyJobs /\ p \in Links
    BY BusyTyped DEF SatisfyIssueBlocker
  <2>2. worker' \in [Workers -> Jobs]
    BY <2>1 DEF Typed, SatisfyIssueBlocker, BusyJobs, Jobs
  <2>3. /\ blocker' \in [Links -> RowStates]
        /\ num_active_blockers' \in [Issues -> Int]
        /\ queue' \subseteq Events
    BY <2>1, LinkEnds, EventTyped
       DEF Typed, SatisfyIssueBlocker, RowStates, Adjust, Emit, ZeroedBy, EventTypes
  <2> QED BY <2>2, <2>3 DEF Typed, SatisfyIssueBlocker
<1>4. CASE \E p \in Job(w).counted : DeleteBlockerForSweep(w, p)
  <2> PICK p \in Job(w).counted : DeleteBlockerForSweep(w, p)
    BY <1>4
  <2>1. Job(w) \in BusyJobs /\ p \in Links
    BY BusyTyped DEF DeleteBlockerForSweep
  <2>2. worker' \in [Workers -> Jobs]
    BY <2>1 DEF Typed, DeleteBlockerForSweep, FallThrough, BusyJobs, Jobs
  <2>3. /\ blocker' \in [Links -> RowStates]
        /\ num_active_blockers' \in [Issues -> Int]
        /\ queue' \subseteq Events
    BY <2>1, LinkEnds, EventTyped
       DEF Typed, DeleteBlockerForSweep, DropActiveBlocker, RowStates, Adjust, Emit,
           ZeroedBy, EventTypes
  <2>4. missed' \subseteq {"done", "in"} \X Links
    BY <2>1, ForgetMissTyped DEF DeleteBlockerForSweep, DropActiveBlocker
  <2> QED BY <2>2, <2>3, <2>4 DEF Typed, DeleteBlockerForSweep
<1>5. CASE \E p \in Job(w).plain : DeleteRow(w, p)
  <2> PICK p \in Job(w).plain : DeleteRow(w, p)
    BY <1>5
  <2>1. Job(w) \in BusyJobs /\ p \in Links
    BY BusyTyped DEF DeleteRow
  <2>2. worker' \in [Workers -> Jobs]
    BY <2>1 DEF Typed, DeleteRow, BusyJobs, Jobs
  <2> QED BY <2>1, <2>2, ForgetMissTyped DEF Typed, DeleteRow, RowStates
<1>6. CASE SkipLivePartition(w)
  BY <1>6, ReturnTyped DEF Typed, SkipLivePartition, table
<1>7. CASE BeginInbound(w)
  <2>1. Job(w) \in BusyJobs /\ Inbound(Job(w).issue) \subseteq Links
    BY <1>7, BusyTyped DEF BeginInbound, Phases, Inbound
  <2>2. worker' \in [Workers -> Jobs]
    BY <1>7, <2>1 DEF Typed, BeginInbound, BusyJobs, Jobs, Phases
  <2> QED BY <1>7, <2>2 DEF Typed, BeginInbound, table
<1>8. CASE HandleZeroed(w)
  <2>1. Job(w).issue \in Issues
    BY <1>8, BusyTyped DEF HandleZeroed, Phases, BusyJobs
  <2>2. worker' \in [Workers -> Jobs]
    BY <1>8, ReturnTyped DEF HandleZeroed
  <2>3. status' \in [Issues -> Statuses \cup {Absent}] /\ held' \subseteq Issues
    BY <1>8, <2>1, StatusesAssumption DEF Typed, HandleZeroed
  <2> QED BY <1>8, <2>2, <2>3 DEF Typed, HandleZeroed
<1>9. CASE Finish(w)
  BY <1>9, ReturnTyped DEF Typed, Finish, table
<1> QED BY <1>1, <1>2, <1>3, <1>4, <1>5, <1>6, <1>7, <1>8, <1>9 DEF Handle

LEMMA NextTyped == Typed /\ [Next]_vars => Typed'
<1> SUFFICES ASSUME Typed, [Next]_vars PROVE Typed'
  OBVIOUS
<1>1. CASE Client
  BY <1>1, ClientTyped
<1>2. CASE \E p \in Links : Propagate(p)
  BY <1>2 DEF Typed, Propagate, table
<1>3. CASE \E w \in Workers, e \in Events : Deliver(w, e) \/ DeliverTwice(w, e)
  BY <1>3, DeliverTyped
<1>4. CASE \E w \in Workers : Handle(w) \/ Crash(w)
  BY <1>4, HandleTyped, CrashTyped
<1>5. CASE UNCHANGED vars
  BY <1>5 DEF Typed, vars
<1> QED BY <1>1, <1>2, <1>3, <1>4, <1>5 DEF Next

-----------------------------------------------------------------------------
(***************************************************************************)
(* What one step may do to a row and to an Issue.                          *)
(***************************************************************************)
RowStep(p) ==
    \/ blocker'[p] = blocker[p]
    \/ blocker'[p] = "none"
    \/ blocker'[p] = "active" /\ MayBlock(p) /\ status'[p[2]] = "BLOCKED"
    \/ blocker'[p] = "done" /\ blocker[p] = "active" /\ status[p[1]] = "DONE"

IssueStep(i) ==
    /\ status[i] = "DONE" => status'[i] \in {"DONE", Absent}
    /\ status[i] = "BLOCKED" /\ num_active_blockers[i] # 0 => status'[i] \in {"BLOCKED", Absent}
    /\ ~Live(i) /\ Live(i)' => i \notin deleted \/ reused < MaxReuse
    /\ Live(i) /\ ~Live(i)' => i \in deleted'
    /\ i \in deleted => i \in deleted'
    /\ i \in deleted' /\ i \notin deleted => ~Live(i)'

Shape == (\A p \in Links : RowStep(p)) /\ (\A i \in Issues : IssueStep(i))

\* A step that leaves statuses and deletions alone and drops or keeps rows.
LEMMA QuietShape ==
  ASSUME Typed, UNCHANGED <<status, deleted>>,
         \A p \in Links : blocker'[p] \in {blocker[p], "none"}
  PROVE  Shape
  BY DEF Shape, RowStep, IssueStep, Live

LEMMA ClientShape == ASSUME Typed, Client PROVE Shape
<1>1. CASE \E i \in Issues, s \in Statuses : CreateIssue(i, s)
  BY <1>1, AbsentAssumption DEF Typed, CreateIssue, Shape, RowStep, IssueStep, Live, Absent
<1>2. CASE \E i \in Issues, s \in Statuses : TransitionIssue(i, s)
  BY <1>2, AbsentAssumption
     DEF Typed, TransitionIssue, MayMove, Shape, RowStep, IssueStep, Live, Absent
<1>3. CASE \E i \in Issues : DeleteIssue(i)
  BY <1>3 DEF Typed, DeleteIssue, Shape, RowStep, IssueStep, Live
<1>4. CASE \E p \in Links : AddIssueBlocker(p)
  <2> PICK p \in Links : AddIssueBlocker(p)
    BY <1>4
  <2>1. \A q \in Links : RowStep(q)
    BY LinkEnds DEF Typed, AddIssueBlocker, RowStep
  <2>2. \A i \in Issues : IssueStep(i)
    BY LinkEnds, StatusesAssumption, AbsentAssumption
       DEF Typed, AddIssueBlocker, MayBlock, IssueStep, Live, Absent
  <2> QED BY <2>1, <2>2 DEF Shape
<1>5. CASE \E p \in Links : DeleteIssueBlocker(p)
  BY <1>5, QuietShape DEF Typed, DeleteIssueBlocker, DropActiveBlocker
<1>6. CASE \E p \in Links : DeleteIssueBlockerMiss(p)
  BY <1>6, QuietShape DEF Typed, DeleteIssueBlockerMiss, table
<1>7. CASE \E p \in Links : DeleteIssueBlockerFallback(p)
  BY <1>7, QuietShape DEF Typed, DeleteIssueBlockerFallback
<1> QED BY <1>1, <1>2, <1>3, <1>4, <1>5, <1>6, <1>7 DEF Client

LEMMA HandleShape == ASSUME Typed, NEW w \in Workers, Handle(w) PROVE Shape
<1>1. CASE \/ \E page \in SUBSET Job(w).unread : ReadPartition(w, page)
           \/ \E page \in SUBSET Job(w).unread : \E stale \in SUBSET page :
                 ReadBlocking(w, page, stale) \/ ReadBlockers(w, page, stale)
           \/ SkipLivePartition(w)
           \/ BeginInbound(w)
           \/ Finish(w)
  <2>1. UNCHANGED table
    BY <1>1 DEF ReadPartition, ReadBlocking, ReadBlockers, SkipLivePartition,
                BeginInbound, Finish
  <2> QED BY <2>1, QuietShape DEF table
<1>2. CASE \E p \in Job(w).counted : SatisfyIssueBlocker(w, p)
  <2> PICK p \in Job(w).counted : SatisfyIssueBlocker(w, p)
    BY <1>2
  <2>1. p \in Links
    BY BusyTyped
  <2>2. UNCHANGED <<status, deleted>>
    BY DEF SatisfyIssueBlocker
  <2>3. \A q \in Links : RowStep(q)
    BY <2>1 DEF Typed, SatisfyIssueBlocker, Satisfiable, RowStep
  <2> QED BY <2>2, <2>3 DEF Shape, IssueStep, Live
<1>3. CASE \E p \in Job(w).counted : DeleteBlockerForSweep(w, p)
  BY <1>3, QuietShape DEF Typed, DeleteBlockerForSweep, DropActiveBlocker
<1>4. CASE \E p \in Job(w).plain : DeleteRow(w, p)
  BY <1>4, QuietShape DEF Typed, DeleteRow
<1>5. CASE HandleZeroed(w)
  <2>1. UNCHANGED <<blocker, deleted>>
    BY <1>5 DEF HandleZeroed
  <2>2. \A i \in Issues : IssueStep(i)
    BY <1>5 DEF Typed, HandleZeroed, Wakes, IssueStep, Live, Absent
  <2> QED BY <2>1, <2>2 DEF Shape, RowStep
<1> QED BY <1>1, <1>2, <1>3, <1>4, <1>5 DEF Handle

LEMMA NextShape == Typed /\ [Next]_vars => Shape
<1> SUFFICES ASSUME Typed, [Next]_vars PROVE Shape
  OBVIOUS
<1>1. CASE Client
  BY <1>1, ClientShape
<1>2. CASE \/ \E p \in Links : Propagate(p)
           \/ \E w \in Workers, e \in Events : Deliver(w, e) \/ DeliverTwice(w, e)
           \/ \E w \in Workers : Crash(w)
           \/ UNCHANGED vars
  <2>1. UNCHANGED table
    BY <1>2 DEF Propagate, Deliver, DeliverTwice, Crash, vars, table
  <2> QED BY <2>1, QuietShape DEF table
<1>3. CASE \E w \in Workers : Handle(w)
  BY <1>3, HandleShape
<1> QED BY <1>1, <1>2, <1>3 DEF Next

-----------------------------------------------------------------------------
(***************************************************************************)
(* The parts of Inv that follow from the shape of a step.                  *)
(***************************************************************************)
\* With MaxReuse = 0 an Issue that was deleted does not come back.
LEMMA StaysDead ==
  ASSUME Inv, Shape, MaxReuse = 0, NEW i \in Issues, i \in deleted
  PROVE  ~Live(i) /\ ~Live(i)' /\ i \in deleted'
  BY DEF Inv, RowsInv, TypeOK, Shape, IssueStep

LEMMA RowsStep == ASSUME Inv, Typed', Shape, MaxReuse = 0 PROVE RowsInv'
<1>1. ASSUME NEW p \in Links, blocker'[p] # "none", NEW i \in {p[1], p[2]}
      PROVE  Live(i)' \/ i \in deleted'
  <2>1. i \in Issues /\ (Live(i) \/ i \in deleted)
    BY <1>1, LinkEnds DEF Inv, RowsInv, Shape, RowStep, MayBlock
  <2> QED BY <2>1 DEF Shape, IssueStep
<1>2. ASSUME NEW i \in deleted' PROVE ~Live(i)'
  <2>1. i \in Issues
    BY <1>2 DEF Typed
  <2> QED BY <1>2, <2>1, StaysDead DEF Shape, IssueStep
<1> QED BY <1>1, <1>2 DEF RowsInv

LEMMA SatisfiedStep == ASSUME Inv, Typed', Shape, MaxReuse = 0 PROVE SatisfiedMeansDone'
<1> SUFFICES ASSUME NEW p \in Links, blocker'[p] = "done"
             PROVE  status'[p[1]] \in {"DONE", Absent}
  BY DEF SatisfiedMeansDone
<1>0. p[1] \in Issues
  BY LinkEnds
<1>1. CASE blocker[p] = "done" /\ status[p[1]] = Absent
  <2>1. p[1] \in deleted
    BY <1>1 DEF Inv, RowsInv, Live
  <2> QED BY <1>0, <2>1, StaysDead DEF Live
<1>2. CASE blocker[p] = "done" /\ status[p[1]] = "DONE"
  BY <1>0, <1>2 DEF Shape, IssueStep
<1>3. CASE blocker[p] # "done"
  BY <1>0, <1>3 DEF Shape, RowStep, IssueStep
<1> QED BY <1>1, <1>2, <1>3 DEF Inv, SatisfiedMeansDone

LEMMA ActiveFinite == \A i \in Issues : IsFiniteSet(ActiveInto(i))
<1>1. IsFiniteSet(Issues \X Issues)
  BY IssuesAssumption, FS_Product
<1>2. \A i \in Issues : ActiveInto(i) \in SUBSET (Issues \X Issues)
  BY LinksAssumption DEF ActiveInto, Inbound
<1> QED BY <1>1, <1>2, FS_Subset

LEMMA BlockedStep == ASSUME Inv, Typed', Shape, MaxReuse = 0 PROVE BlockedWhileHeld'
<1> SUFFICES ASSUME NEW i \in Issues, Live(i)', NEW p \in Links, p[2] = i,
                    blocker'[p] = "active"
             PROVE  status'[i] = "BLOCKED"
  BY DEF BlockedWhileHeld, ActiveInto, Inbound
<1>1. CASE blocker[p] # "active"
  BY <1>1 DEF Shape, RowStep
<1>2. CASE blocker[p] = "active"
  <2>1. p \in ActiveInto(i)
    BY <1>2 DEF ActiveInto, Inbound
  <2>2. Live(i)
    BY <1>2, StaysDead DEF Inv, RowsInv
  <2>3. status[i] = "BLOCKED"
    BY <2>1, <2>2 DEF Inv, BlockedWhileHeld
  <2>4. num_active_blockers[i] # 0
    BY <2>1, <2>2, ActiveFinite, FS_EmptySet DEF Inv, CountInv
  <2> QED BY <2>3, <2>4 DEF Shape, IssueStep, Live
<1> QED BY <1>1, <1>2

\* What PlainInv says of a row stays true of it.
PlainOK(p) ==
    /\ p[1] \in deleted \/ p[2] \in deleted
    /\ blocker[p] = "active" => ~Live(p[2])

LEMMA PlainStable ==
  ASSUME Inv, Typed', Shape, MaxReuse = 0, NEW p \in Links, PlainOK(p)
  PROVE  PlainOK(p)'
<1>0. p[1] \in Issues /\ p[2] \in Issues
  BY LinkEnds
<1>1. p[1] \in deleted' \/ p[2] \in deleted'
  BY <1>0, StaysDead DEF PlainOK
<1>2. ASSUME blocker'[p] = "active" PROVE ~Live(p[2])'
  <2>1. blocker[p] = "active"
    BY <1>0, <1>2, StaysDead DEF PlainOK, Shape, RowStep, MayBlock
  <2>2. p[2] \in deleted
    BY <2>1 DEF PlainOK, Inv, RowsInv
  <2> QED BY <1>0, <2>2, StaysDead
<1> QED BY <1>1, <1>2 DEF PlainOK


-----------------------------------------------------------------------------
(***************************************************************************)
(* What the workers hold.                                                  *)
(***************************************************************************)
\* A row gets on the list of bare deletes only when PlainOK holds of it.
LEMMA PlainGrows ==
  ASSUME Inv, Typed, [Next]_vars, NEW u \in Workers, NEW p \in Job(u)'.plain
  PROVE  p \in Job(u).plain \/ (p \in Links /\ PlainOK(p))
<1> USE DEF Job
<1>1. CASE Client \/ (\E q \in Links : Propagate(q)) \/ UNCHANGED vars
  BY <1>1 DEF Client, CreateIssue, TransitionIssue, DeleteIssue, AddIssueBlocker,
              DeleteIssueBlocker, DeleteIssueBlockerMiss, DeleteIssueBlockerFallback,
              Propagate, vars
<1>2. CASE \E w \in Workers, e \in Events : Deliver(w, e) \/ DeliverTwice(w, e)
  BY <1>2 DEF Typed, Deliver, DeliverTwice, JobFor
<1>3. CASE \E w \in Workers : \/ Crash(w) \/ SkipLivePartition(w)
                              \/ HandleZeroed(w) \/ Finish(w)
  BY <1>3 DEF Typed, Crash, SkipLivePartition, HandleZeroed, Finish, Return, NoJob
<1>3a. CASE \E w \in Workers : BeginInbound(w)
  <2> PICK w \in Workers : BeginInbound(w)
    BY <1>3a
  <2>1. Job(w) \in BusyJobs
    BY BusyTyped DEF BeginInbound, Phases
  <2> QED BY <2>1 DEF Typed, BeginInbound, BusyJobs
<1>4. CASE \E w \in Workers : \E page \in SUBSET Job(w).unread : ReadPartition(w, page)
  <2> PICK w \in Workers : \E page \in SUBSET Job(w).unread : ReadPartition(w, page)
    BY <1>4
  <2> PICK page \in SUBSET Job(w).unread : ReadPartition(w, page)
    OBVIOUS
  <2>1. Job(w).issue \in deleted /\ page \subseteq Outbound(Job(w).issue)
    BY DEF Inv, SweepInv, ReadPartition
  <2>2. CASE u = w
    <3>0. Job(w) \in BusyJobs
      BY BusyTyped DEF ReadPartition, Phases
    <3>1. p \in page /\ blocker[p] = "done"
      BY <2>2, <3>0 DEF Typed, ReadPartition, BusyJobs
    <3> QED BY <2>1, <3>1 DEF PlainOK, Outbound
  <2>3. CASE u # w
    BY <2>3 DEF Typed, ReadPartition
  <2> QED BY <2>2, <2>3
<1>5. CASE \E w \in Workers : \E page \in SUBSET Job(w).unread : \E stale \in SUBSET page :
              ReadBlocking(w, page, stale) \/ ReadBlockers(w, page, stale)
  <2> PICK w \in Workers : \E page \in SUBSET Job(w).unread : \E stale \in SUBSET page :
              ReadBlocking(w, page, stale) \/ ReadBlockers(w, page, stale)
    BY <1>5
  <2> PICK page \in SUBSET Job(w).unread : \E stale \in SUBSET page :
              ReadBlocking(w, page, stale) \/ ReadBlockers(w, page, stale)
    OBVIOUS
  <2> PICK stale \in SUBSET page : ReadBlocking(w, page, stale) \/ ReadBlockers(w, page, stale)
    OBVIOUS
  <2>0. Job(w) \in BusyJobs
    BY BusyTyped DEF ReadBlocking, ReadBlockers, Phases
  <2>1. CASE u = w /\ ReadBlockers(w, page, stale)
    <3>1. Job(w).issue \in deleted /\ page \subseteq Inbound(Job(w).issue)
      BY <2>1 DEF Inv, SweepInv, ReadBlockers
    <3>2. p \in page
      BY <2>0, <2>1 DEF Typed, ReadBlockers, BusyJobs
    <3> QED BY <3>1, <3>2 DEF Inv, RowsInv, PlainOK, Inbound
  <2>2. CASE u = w /\ ReadBlocking(w, page, stale)
    BY <2>0, <2>2 DEF Typed, ReadBlocking, BusyJobs
  <2>3. CASE u # w
    BY <2>3 DEF Typed, ReadBlocking, ReadBlockers
  <2> QED BY <2>1, <2>2, <2>3
<1>6. CASE \E w \in Workers : \E q \in Job(w).counted : SatisfyIssueBlocker(w, q)
  <2> PICK w \in Workers : \E q \in Job(w).counted : SatisfyIssueBlocker(w, q)
    BY <1>6
  <2>1. Job(w) \in BusyJobs
    BY BusyTyped DEF SatisfyIssueBlocker, Phases
  <2> QED BY <2>1 DEF Typed, SatisfyIssueBlocker, BusyJobs
<1>7. CASE \E w \in Workers : \E q \in Job(w).counted : DeleteBlockerForSweep(w, q)
  <2> PICK w \in Workers : \E q \in Job(w).counted : DeleteBlockerForSweep(w, q)
    BY <1>7
  <2> PICK q \in Job(w).counted : DeleteBlockerForSweep(w, q)
    OBVIOUS
  <2>1. q \in Links /\ q[1] \in deleted
    BY BusyTyped DEF Inv, SweepInv, DeleteBlockerForSweep, Outbound
  <2>4. Job(w) \in BusyJobs
    BY BusyTyped DEF DeleteBlockerForSweep, Phases
  <2>2. CASE u = w /\ p = q /\ p \notin Job(u).plain
    <3>1. ~(blocker[q] = "active" /\ Live(q[2]))
      BY <2>2, <2>4 DEF Typed, DeleteBlockerForSweep, BusyJobs
    <3> QED BY <2>1, <2>2, <3>1 DEF PlainOK
  <2>3. CASE u # w \/ p # q
    BY <2>3, <2>4 DEF Typed, DeleteBlockerForSweep, FallThrough, BusyJobs
  <2> QED BY <2>2, <2>3
<1>8. CASE \E w \in Workers : \E q \in Job(w).plain : DeleteRow(w, q)
  <2> PICK w \in Workers : \E q \in Job(w).plain : DeleteRow(w, q)
    BY <1>8
  <2>1. Job(w) \in BusyJobs
    BY BusyTyped
  <2> QED BY <2>1 DEF Typed, DeleteRow, BusyJobs
<1> QED BY <1>1, <1>2, <1>3, <1>3a, <1>4, <1>5, <1>6, <1>7, <1>8 DEF Next, Handle

LEMMA PlainStep ==
  ASSUME Inv, Typed, Typed', Shape, [Next]_vars, MaxReuse = 0 PROVE PlainInv'
<1> SUFFICES ASSUME NEW u \in Workers, NEW p \in Job(u)'.plain
             PROVE  PlainOK(p)'
  BY DEF PlainInv, PlainOK
<1>1. p \in Links /\ PlainOK(p)
  BY PlainGrows, BusyTyped DEF Inv, PlainInv, PlainOK
<1> QED BY <1>1, PlainStable

\* What SweepInv says of one job.
SweepOK(job) ==
    job.phase \in {"sweep", "out", "in"} =>
       /\ job.issue \in deleted
       /\ job.unread \cup job.counted \subseteq
             IF job.phase = "in" THEN Inbound(job.issue) ELSE Outbound(job.issue)

LEMMA JobForSweep ==
  ASSUME NEW e \in Events
  PROVE  /\ JobFor(e).phase \in {"sweep", "out", "in"} =>
               e = Event("IssueDeleted", e.issue) /\ JobFor(e).phase = "sweep"
         /\ JobFor(e).issue = e.issue
         /\ JobFor(e).unread \subseteq Outbound(e.issue)
         /\ JobFor(e).counted = {}
<1>1. CASE e.type = "IssueDone"
  BY <1>1 DEF JobFor, Events
<1>2. CASE e.type = "IssueDeleted"
  BY <1>2 DEF JobFor, Events, Event
<1>3. CASE e.type = "IssueNumActiveBlockersZeroed"
  BY <1>3 DEF JobFor, Events
<1> QED BY <1>1, <1>2, <1>3 DEF Events, EventTypes

\* Jobs stay within the partition, or the index entry, of a deleted Issue.
LEMMA SweepJobs ==
  ASSUME Inv, Typed, [Next]_vars, NEW u \in Workers
  PROVE  SweepOK(Job(u)')
<1> USE DEF Job
<1>0. SweepOK(Job(u))
  BY DEF Inv, SweepInv, SweepOK
<1>1. CASE Client \/ (\E q \in Links : Propagate(q)) \/ UNCHANGED vars
  BY <1>0, <1>1
  DEF Client, CreateIssue, TransitionIssue, DeleteIssue, AddIssueBlocker,
      DeleteIssueBlocker, DeleteIssueBlockerMiss, DeleteIssueBlockerFallback,
      Propagate, vars, SweepOK
<1>2. CASE \E w \in Workers, e \in Events : Deliver(w, e) \/ DeliverTwice(w, e)
  <2> PICK w \in Workers, e \in Events : Deliver(w, e) \/ DeliverTwice(w, e)
    BY <1>2
  <2>1. e \in queue /\ worker' = [worker EXCEPT ![w] = JobFor(e)]
    BY DEF Deliver, DeliverTwice
  <2>2. SweepOK(JobFor(e))
    <3>1. e = Event("IssueDeleted", e.issue) => e.issue \in deleted
      BY <2>1 DEF Inv, SweepInv, Events
    <3> QED BY <3>1, JobForSweep DEF SweepOK
  <2> QED BY <1>0, <2>1, <2>2 DEF Typed
<1>3. CASE \E w \in Workers : \/ Crash(w) \/ SkipLivePartition(w)
                              \/ HandleZeroed(w) \/ Finish(w)
  BY <1>0, <1>3 DEF Typed, Crash, SkipLivePartition, HandleZeroed, Finish, Return, NoJob,
                    SweepOK
<1>4. CASE \E w \in Workers : Handle(w)
  <2> PICK w \in Workers : Handle(w)
    BY <1>4
  <2>1. CASE \E page \in SUBSET Job(w).unread : ReadPartition(w, page)
    <3> PICK page \in SUBSET Job(w).unread : ReadPartition(w, page)
      BY <2>1
    <3>1. Job(w) \in BusyJobs
      BY BusyTyped DEF ReadPartition, Phases
    <3>2. SweepOK(Job(w)) /\ Job(w).phase \in {"sweep", "out"}
      BY DEF Inv, SweepInv, SweepOK, ReadPartition
    <3>3. CASE u = w
      BY <3>1, <3>2, <3>3 DEF Typed, ReadPartition, BusyJobs, SweepOK
    <3>4. CASE u # w
      BY <1>0, <3>4 DEF Typed, ReadPartition
    <3> QED BY <3>3, <3>4
  <2>2. CASE \E page \in SUBSET Job(w).unread : \E stale \in SUBSET page :
                ReadBlocking(w, page, stale) \/ ReadBlockers(w, page, stale)
    <3> PICK page \in SUBSET Job(w).unread : \E stale \in SUBSET page :
                ReadBlocking(w, page, stale) \/ ReadBlockers(w, page, stale)
      BY <2>2
    <3> PICK stale \in SUBSET page : ReadBlocking(w, page, stale) \/ ReadBlockers(w, page, stale)
      OBVIOUS
    <3>1. Job(w) \in BusyJobs
      BY BusyTyped DEF ReadBlocking, ReadBlockers, Phases
    <3>2. CASE u = w
      BY <1>0, <3>1, <3>2 DEF Typed, ReadBlocking, ReadBlockers, BusyJobs, SweepOK
    <3>3. CASE u # w
      BY <1>0, <3>3 DEF Typed, ReadBlocking, ReadBlockers
    <3> QED BY <3>2, <3>3
  <2>3. CASE \E q \in Job(w).counted : SatisfyIssueBlocker(w, q) \/ DeleteBlockerForSweep(w, q)
    <3> PICK q \in Job(w).counted : SatisfyIssueBlocker(w, q) \/ DeleteBlockerForSweep(w, q)
      BY <2>3
    <3>1. Job(w) \in BusyJobs
      BY BusyTyped
    <3>2. CASE u = w
      BY <1>0, <3>1, <3>2 DEF Typed, SatisfyIssueBlocker, DeleteBlockerForSweep, BusyJobs, SweepOK
    <3>3. CASE u # w
      BY <1>0, <3>3 DEF Typed, SatisfyIssueBlocker, DeleteBlockerForSweep
    <3> QED BY <3>2, <3>3
  <2>4. CASE \E q \in Job(w).plain : DeleteRow(w, q)
    <3> PICK q \in Job(w).plain : DeleteRow(w, q)
      BY <2>4
    <3>1. Job(w) \in BusyJobs
      BY BusyTyped
    <3>2. CASE u = w
      BY <1>0, <3>1, <3>2 DEF Typed, DeleteRow, BusyJobs, SweepOK
    <3>3. CASE u # w
      BY <1>0, <3>3 DEF Typed, DeleteRow
    <3> QED BY <3>2, <3>3
  <2>5. CASE BeginInbound(w)
    <3>1. Job(w) \in BusyJobs
      BY <2>5, BusyTyped DEF BeginInbound, Phases
    <3>2. CASE u = w
      BY <1>0, <2>5, <3>1, <3>2
         DEF Typed, BeginInbound, LastPage, PageDone, BusyJobs, SweepOK
    <3>3. CASE u # w
      BY <1>0, <2>5, <3>3 DEF Typed, BeginInbound
    <3> QED BY <3>2, <3>3
  <2> QED BY <1>3, <2>1, <2>2, <2>3, <2>4, <2>5 DEF Handle
<1> QED BY <1>1, <1>2, <1>3, <1>4 DEF Next

\* An IssueDeleted event is sent only for a deleted Issue.
LEMMA SweepEvents ==
  ASSUME Inv, Typed, [Next]_vars, NEW i \in Issues,
         Event("IssueDeleted", i) \in queue', Event("IssueDeleted", i) \notin queue
  PROVE  i \in deleted'
<1> USE DEF Event, Emit
<1>1. CASE \E j \in Issues : DeleteIssue(j)
  BY <1>1 DEF DeleteIssue
<1>2. CASE \E w \in Workers : Crash(w)
  <2> PICK w \in Workers : Crash(w)
    BY <1>2
  <2>1. Job(w) \in BusyJobs
    BY BusyTyped DEF Crash
  <2>2. EventOf(Job(w)) = Event("IssueDeleted", i)
    BY DEF Crash
  <2>3. Job(w).phase \in {"sweep", "out", "in"} /\ Job(w).issue = i
    BY <2>1, <2>2 DEF EventOf, BusyJobs, Phases
  <2> QED BY <2>3 DEF Inv, SweepInv, Crash, table
<1>3. CASE \/ \E j \in Issues, s \in Statuses : CreateIssue(j, s) \/ TransitionIssue(j, s)
           \/ \E p \in Links : \/ AddIssueBlocker(p) \/ DeleteIssueBlocker(p)
                               \/ DeleteIssueBlockerMiss(p) \/ DeleteIssueBlockerFallback(p)
                               \/ Propagate(p)
           \/ UNCHANGED vars
  BY <1>3 DEF CreateIssue, TransitionIssue, AddIssueBlocker, DeleteIssueBlocker,
              DropActiveBlocker, DeleteIssueBlockerMiss, DeleteIssueBlockerFallback,
              Propagate, vars, ZeroedBy
<1>4. CASE \E w \in Workers, e \in Events : Deliver(w, e) \/ DeliverTwice(w, e)
  BY <1>4 DEF Deliver, DeliverTwice
<1>5. CASE \E w \in Workers : Handle(w)
  <2> PICK w \in Workers : Handle(w)
    BY <1>5
  <2>1. CASE \E p \in Job(w).counted : SatisfyIssueBlocker(w, p)
    BY <2>1 DEF SatisfyIssueBlocker, ZeroedBy
  <2>2. CASE \E p \in Job(w).counted : DeleteBlockerForSweep(w, p)
    BY <2>2 DEF DeleteBlockerForSweep, DropActiveBlocker, ZeroedBy
  <2>3. CASE \E page \in SUBSET Job(w).unread :
                \/ ReadPartition(w, page)
                \/ \E stale \in SUBSET page :
                      ReadBlocking(w, page, stale) \/ ReadBlockers(w, page, stale)
    BY <2>3 DEF ReadPartition, ReadBlocking, ReadBlockers
  <2>4. CASE \/ \E p \in Job(w).plain : DeleteRow(w, p)
             \/ SkipLivePartition(w) \/ BeginInbound(w) \/ HandleZeroed(w) \/ Finish(w)
    BY <2>4 DEF DeleteRow, SkipLivePartition, BeginInbound, HandleZeroed, Finish
  <2> QED BY <2>1, <2>2, <2>3, <2>4 DEF Handle
<1> QED BY <1>1, <1>2, <1>3, <1>4, <1>5 DEF Next, Client

LEMMA SweepStep == ASSUME Inv, Typed, Shape, [Next]_vars PROVE SweepInv'
<1>1. deleted \subseteq deleted'
  BY DEF Typed, Shape, IssueStep
<1>2. ASSUME NEW i \in Issues, Event("IssueDeleted", i) \in queue'
      PROVE  i \in deleted'
  BY <1>1, <1>2, SweepEvents DEF Inv, SweepInv
<1>3. ASSUME NEW u \in Workers
      PROVE  Job(u)'.phase \in {"sweep", "out", "in"} =>
               /\ Job(u)'.issue \in deleted'
               /\ Job(u)'.unread \cup Job(u)'.counted \subseteq
                     IF Job(u)'.phase = "in" THEN Inbound(Job(u)'.issue)
                                             ELSE Outbound(Job(u)'.issue)
  BY <1>1, SweepJobs DEF SweepOK
<1> QED BY <1>2, <1>3 DEF SweepInv, Event, Inbound, Outbound, Job

-----------------------------------------------------------------------------
(***************************************************************************)
(* The count                                                               *)
(***************************************************************************)
\* ActiveInto after one row was written.
LEMMA ActiveAfter ==
  ASSUME Typed, NEW p \in Links, NEW v \in RowStates, blocker' = [blocker EXCEPT ![p] = v],
         NEW i \in Issues
  PROVE  ActiveInto(i)' = IF p[2] # i THEN ActiveInto(i)
                          ELSE IF v = "active" THEN ActiveInto(i) \cup {p}
                          ELSE ActiveInto(i) \ {p}
  BY DEF Typed, ActiveInto, Inbound

\* add_issue_blocker's Put and increment.
LEMMA CountUp ==
  ASSUME Inv, Typed, NEW p \in Links, blocker[p] # "active", Live(p[2]),
         blocker' = [blocker EXCEPT ![p] = "active"], Adjust(p[2], 1),
         \A i \in Issues : Live(i)' <=> Live(i)
  PROVE  CountInv'
<1> SUFFICES ASSUME NEW i \in Issues
             PROVE  num_active_blockers'[i] =
                      IF Live(i)' THEN Cardinality(ActiveInto(i)') ELSE 0
  BY DEF CountInv
<1>1. CASE i # p[2]
  BY <1>1, ActiveAfter DEF Inv, CountInv, Typed, Adjust, RowStates
<1>2. CASE i = p[2]
  <2>1. ActiveInto(i)' = ActiveInto(i) \cup {p} /\ p \notin ActiveInto(i)
    BY <1>2, ActiveAfter DEF RowStates, ActiveInto
  <2>2. Cardinality(ActiveInto(i)') = Cardinality(ActiveInto(i)) + 1
    BY <2>1, ActiveFinite, FS_AddElement
  <2> QED BY <1>2, <2>2 DEF Inv, CountInv, Typed, Adjust
<1> QED BY <1>1, <1>2

\* A delete or a satisfy of an active row, with its decrement.
LEMMA CountDown ==
  ASSUME Inv, Typed, NEW p \in Links, blocker[p] = "active", Live(p[2]),
         NEW v \in RowStates, v # "active",
         blocker' = [blocker EXCEPT ![p] = v], Adjust(p[2], -1),
         \A i \in Issues : Live(i)' <=> Live(i)
  PROVE  CountInv'
<1> SUFFICES ASSUME NEW i \in Issues
             PROVE  num_active_blockers'[i] =
                      IF Live(i)' THEN Cardinality(ActiveInto(i)') ELSE 0
  BY DEF CountInv
<1>1. CASE i # p[2]
  BY <1>1, ActiveAfter DEF Inv, CountInv, Typed, Adjust
<1>2. CASE i = p[2]
  <2>1. ActiveInto(i)' = ActiveInto(i) \ {p}
    BY <1>2, ActiveAfter
  <2>3. p \in ActiveInto(i)
    BY <1>2 DEF ActiveInto, Inbound
  <2>2. Cardinality(ActiveInto(i)') = Cardinality(ActiveInto(i)) - 1
    BY <2>1, <2>3, ActiveFinite, FS_RemoveElement
  <2> QED BY <1>2, <2>2 DEF Inv, CountInv, Typed, Adjust
<1> QED BY <1>1, <1>2

\* A bare delete, of a row no live Issue counts.
LEMMA CountSame ==
  ASSUME Inv, Typed, NEW p \in Links, blocker[p] = "active" => ~Live(p[2]),
         NEW v \in RowStates, v # "active",
         blocker' = [blocker EXCEPT ![p] = v], UNCHANGED num_active_blockers,
         \A i \in Issues : Live(i)' <=> Live(i)
  PROVE  CountInv'
<1> SUFFICES ASSUME NEW i \in Issues
             PROVE  num_active_blockers'[i] =
                      IF Live(i)' THEN Cardinality(ActiveInto(i)') ELSE 0
  BY DEF CountInv
<1>1. Live(i) => ActiveInto(i)' = ActiveInto(i)
  BY ActiveAfter DEF ActiveInto
<1> QED BY <1>1 DEF Inv, CountInv

LEMMA CountKept ==
  ASSUME Inv, UNCHANGED <<num_active_blockers, blocker>>,
         \A i \in Issues : Live(i)' <=> Live(i)
  PROVE  CountInv'
  BY DEF Inv, CountInv, ActiveInto

LEMMA ClientCount == ASSUME Inv, Typed, Client, MaxReuse = 0 PROVE CountInv'
<1>1. CASE \E i \in Issues, s \in Statuses : CreateIssue(i, s)
  <2> PICK i \in Issues, s \in Statuses : CreateIssue(i, s)
    BY <1>1
  <2>1. i \notin deleted /\ ~Live(i)
    BY DEF CreateIssue, Typed
  <2>2. ActiveInto(i) = {}
    BY <2>1 DEF Inv, RowsInv, ActiveInto, Inbound
  <2>3. ASSUME NEW j \in Issues
        PROVE  num_active_blockers'[j] = IF Live(j)' THEN Cardinality(ActiveInto(j)') ELSE 0
    <3>1. ActiveInto(j)' = ActiveInto(j)
      BY DEF CreateIssue, ActiveInto
    <3>2. CASE j = i
      BY <2>2, <3>1, <3>2, FS_EmptySet DEF CreateIssue, Typed
    <3>3. CASE j # i
      BY <3>1, <3>3 DEF CreateIssue, Typed, Inv, CountInv, Live
    <3> QED BY <3>2, <3>3
  <2> QED BY <2>3 DEF CountInv
<1>2. CASE \E i \in Issues, s \in Statuses : TransitionIssue(i, s)
  <2>1. \A i \in Issues : Live(i)' <=> Live(i)
    BY <1>2, AbsentAssumption DEF TransitionIssue, Typed, Live, Absent
  <2> QED BY <1>2, <2>1, CountKept DEF TransitionIssue
<1>3. CASE \E i \in Issues : DeleteIssue(i)
  <2>1. ASSUME NEW j \in Issues
        PROVE  num_active_blockers'[j] = IF Live(j)' THEN Cardinality(ActiveInto(j)') ELSE 0
    <3>1. ActiveInto(j)' = ActiveInto(j)
      BY <1>3 DEF DeleteIssue, ActiveInto
    <3> QED BY <1>3, <3>1 DEF DeleteIssue, Typed, Inv, CountInv, Live
  <2> QED BY <2>1 DEF CountInv
<1>4. CASE \E p \in Links : AddIssueBlocker(p)
  <2> PICK p \in Links : AddIssueBlocker(p)
    BY <1>4
  <2>1. \A i \in Issues : Live(i)' <=> Live(i)
    BY StatusesAssumption, AbsentAssumption, LinkEnds
       DEF AddIssueBlocker, MayBlock, Typed, Live, Absent
  <2> QED BY <2>1, CountUp DEF AddIssueBlocker, MayBlock
<1>5. CASE \E p \in Links : DeleteIssueBlocker(p)
  BY <1>5, CountDown DEF DeleteIssueBlocker, DropActiveBlocker, RowStates, Live
<1>6. CASE \E p \in Links : DeleteIssueBlockerMiss(p)
  BY <1>6, CountKept DEF DeleteIssueBlockerMiss, table, Live
<1>7. CASE \E p \in Links : DeleteIssueBlockerFallback(p)
  <2> PICK p \in Links : DeleteIssueBlockerFallback(p)
    BY <1>7
  <2>1. CASE blocker[p] = "done"
    BY <2>1, CountSame DEF DeleteIssueBlockerFallback, RowStates, Live
  <2>2. CASE blocker[p] # "done"
    BY <2>2, CountKept DEF DeleteIssueBlockerFallback, Typed, Live
  <2> QED BY <2>1, <2>2
<1> QED BY <1>1, <1>2, <1>3, <1>4, <1>5, <1>6, <1>7 DEF Client

LEMMA HandleCount == ASSUME Inv, Typed, NEW w \in Workers, Handle(w) PROVE CountInv'
<1>1. CASE \E page \in SUBSET Job(w).unread :
              \/ ReadPartition(w, page)
              \/ \E stale \in SUBSET page :
                    ReadBlocking(w, page, stale) \/ ReadBlockers(w, page, stale)
  BY <1>1, CountKept DEF ReadPartition, ReadBlocking, ReadBlockers, table, Live
<1>2. CASE SkipLivePartition(w) \/ BeginInbound(w) \/ Finish(w)
  BY <1>2, CountKept DEF SkipLivePartition, BeginInbound, Finish, table, Live
<1>3. CASE \E p \in Job(w).counted : SatisfyIssueBlocker(w, p)
  <2> PICK p \in Job(w).counted : SatisfyIssueBlocker(w, p)
    BY <1>3
  <2>1. p \in Links
    BY BusyTyped
  <2>2. CASE Satisfiable(p)
    BY <2>1, <2>2, CountDown DEF SatisfyIssueBlocker, Satisfiable, RowStates, Live
  <2>3. CASE ~Satisfiable(p)
    BY <2>3, CountKept DEF SatisfyIssueBlocker, Live
  <2> QED BY <2>2, <2>3
<1>4. CASE \E p \in Job(w).counted : DeleteBlockerForSweep(w, p)
  <2> PICK p \in Job(w).counted : DeleteBlockerForSweep(w, p)
    BY <1>4
  <2>1. p \in Links
    BY BusyTyped
  <2>2. CASE DropActiveBlocker(p)
    BY <2>1, <2>2, CountDown DEF DeleteBlockerForSweep, DropActiveBlocker, RowStates, Live
  <2>3. CASE ~DropActiveBlocker(p)
    BY <2>3, CountKept DEF DeleteBlockerForSweep, Live
  <2> QED BY <2>2, <2>3
<1>5. CASE \E p \in Job(w).plain : DeleteRow(w, p)
  <2> PICK p \in Job(w).plain : DeleteRow(w, p)
    BY <1>5
  <2>1. p \in Links /\ (blocker[p] = "active" => ~Live(p[2]))
    BY BusyTyped DEF Inv, PlainInv
  <2> QED BY <2>1, CountSame DEF DeleteRow, RowStates, Live
<1>6. CASE HandleZeroed(w)
  <2>1. \A i \in Issues : Live(i)' <=> Live(i)
    BY <1>6 DEF HandleZeroed, Wakes, Typed, Live, Absent
  <2> QED BY <1>6, <2>1, CountKept DEF HandleZeroed
<1> QED BY <1>1, <1>2, <1>3, <1>4, <1>5, <1>6 DEF Handle

LEMMA CountStep == ASSUME Inv, Typed, [Next]_vars, MaxReuse = 0 PROVE CountInv'
<1>1. CASE Client
  BY <1>1, ClientCount
<1>2. CASE \/ \E p \in Links : Propagate(p)
           \/ \E w \in Workers, e \in Events : Deliver(w, e) \/ DeliverTwice(w, e)
           \/ \E w \in Workers : Crash(w)
           \/ UNCHANGED vars
  BY <1>2, CountKept DEF Propagate, Deliver, DeliverTwice, Crash, vars, table, Live
<1>3. CASE \E w \in Workers : Handle(w)
  BY <1>3, HandleCount
<1> QED BY <1>1, <1>2, <1>3 DEF Next

-----------------------------------------------------------------------------
(***************************************************************************)
(* Theorems                                                                *)
(***************************************************************************)
LEMMA CountsAreNat == Typed /\ CountInv => TypeOK
<1> SUFFICES ASSUME Typed, CountInv PROVE TypeOK
  OBVIOUS
<1>1. \A i \in Issues : num_active_blockers[i] \in Nat
  BY ActiveFinite, FS_CardinalityType DEF CountInv
<1> QED BY <1>1 DEF Typed, TypeOK

LEMMA InitInv == Init => Inv
<1> SUFFICES ASSUME Init PROVE Inv
  OBVIOUS
<1>1. Typed
  BY InitTyped
<1>2. CountInv
  BY DEF Init, CountInv, Live
<1>3. RowsInv /\ PlainInv /\ BlockedWhileHeld /\ SatisfiedMeansDone
  BY DEF Init, RowsInv, PlainInv, BlockedWhileHeld, SatisfiedMeansDone, ActiveInto, Inbound,
         Job, NoJob
<1>4. SweepInv
  BY DEF Init, SweepInv, Job, NoJob
<1> QED BY <1>1, <1>2, <1>3, <1>4, CountsAreNat DEF Inv

\* Inv is inductive when no id is drawn twice.
THEOREM Inductive == ASSUME MaxReuse = 0 PROVE Inv /\ [Next]_vars => Inv'
<1> SUFFICES ASSUME Inv, [Next]_vars PROVE Inv'
  OBVIOUS
<1>1. Typed
  BY DEF Inv, TypeOK, Typed
<1>2. Typed' /\ Shape
  BY <1>1, NextTyped, NextShape
<1>3. CountInv'
  BY <1>1, CountStep
<1>4. TypeOK'
  BY <1>2, <1>3, ActiveFinite, CountsAreNat, PTL
<1>5. RowsInv' /\ SatisfiedMeansDone' /\ BlockedWhileHeld'
  BY <1>2, RowsStep, SatisfiedStep, BlockedStep
<1>6. SweepInv' /\ PlainInv'
  BY <1>1, <1>2, SweepStep, PlainStep
<1> QED BY <1>3, <1>4, <1>5, <1>6 DEF Inv

THEOREM Invariant == ASSUME MaxReuse = 0 PROVE Spec => []Inv
<1>1. Init => Inv
  BY InitInv
<1>2. Inv /\ [Next]_vars => Inv'
  BY Inductive
<1> QED BY <1>1, <1>2, PTL DEF Spec

\* The type of every variable, counts included, which no step takes below 0.
THEOREM TypeCorrect == ASSUME MaxReuse = 0 PROVE Spec => []TypeOK
<1>1. Inv => TypeOK
  BY DEF Inv
<1> QED BY <1>1, Invariant, PTL

\* num_active_blockers is exact in every state, for any number of Issues,
\* blockers, workers, duplicates and crashes, and however old the rows a
\* handler acts on.
THEOREM CounterIsExact == ASSUME MaxReuse = 0 PROVE Spec => []CounterExact
<1>1. Inv => CounterExact
  BY DEF Inv, CountInv, CounterExact
<1> QED BY <1>1, Invariant, PTL

\* No Issue with an active blocker row is ever seen in a status other than
\* BLOCKED.
THEOREM HeldIsBlocked == ASSUME MaxReuse = 0 PROVE Spec => []BlockedWhileHeld
<1>1. Inv => BlockedWhileHeld
  BY DEF Inv
<1> QED BY <1>1, Invariant, PTL

\* is_blocking_issue_done never runs ahead of the blocking Issue's status.
THEOREM SatisfiedIsDone == ASSUME MaxReuse = 0 PROVE Spec => []SatisfiedMeansDone
<1>1. Inv => SatisfiedMeansDone
  BY DEF Inv
<1> QED BY <1>1, Invariant, PTL

\* DONE is terminal whatever ids are reused: it needs the types alone.
THEOREM DoneStaysDone == Spec => DoneIsFinal
<1>1. Init => Typed
  BY InitTyped
<1>2. Typed /\ [Next]_vars => Typed'
  BY NextTyped
<1>3. Typed /\ [Next]_vars =>
         [\A i \in Issues : status[i] = "DONE" => status'[i] \in {"DONE", Absent}]_vars
  BY NextShape DEF Shape, IssueStep
<1> QED BY <1>1, <1>2, <1>3, PTL DEF Spec, DoneIsFinal

-----------------------------------------------------------------------------
(***************************************************************************)
(* IssueBlocking implements BlockedIssues when ids are not drawn twice:    *)
(* each step is one step on sets of blockers, or none.                     *)
(***************************************************************************)
AbstractStep == [Abstract!Next]_(Abstract!vars)

\* A live Issue with a blocker in force has a count above 0.
LEMMA WaitsCounted ==
  ASSUME Inv, NEW i \in Issues, Live(i), num_active_blockers[i] = 0
  PROVE  Abstract!WaitsOf(i) = {}
<1>1. ActiveInto(i) = {}
  BY ActiveFinite, FS_EmptySet DEF Inv, CountInv
<1> QED BY <1>1 DEF Abstract!WaitsOf, Waits, ActiveInto, Inbound

\* Steps that show nothing: statuses stay, and no active row of a live Issue
\* comes or goes.
LEMMA Stutter ==
  ASSUME UNCHANGED status,
         \A p \in Links : Live(p[2]) => (blocker'[p] = "active" <=> blocker[p] = "active")
  PROVE  AbstractStep
<1>1. Waits' = Waits
  BY DEF Waits, Live
<1> QED BY <1>1 DEF AbstractStep, Abstract!vars

\* A delete or a satisfy of an active row releases its blocked Issue.
LEMMA ReleaseStep ==
  ASSUME Typed, NEW p \in Links, blocker[p] = "active", Live(p[2]),
         NEW v \in RowStates, v # "active", blocker' = [blocker EXCEPT ![p] = v],
         UNCHANGED status
  PROVE  AbstractStep
<1>1. p \in Waits /\ Waits' = Waits \ {p}
  BY DEF Typed, Waits, Live
<1>2. Abstract!Release(p)
  BY <1>1 DEF Abstract!Release
<1> QED BY <1>2 DEF AbstractStep, Abstract!Next

\* A status write a client or the wake-up makes is a move of the abstract Issue.
LEMMA MoveStep ==
  ASSUME Inv, Typed, NEW i \in Issues, NEW s \in Statuses, Live(i), MayMove(i, s),
         status' = [status EXCEPT ![i] = s], UNCHANGED blocker
  PROVE  AbstractStep
<1>1. Waits' = Waits
  BY AbsentAssumption DEF Typed, Waits, Live, Absent
<1>2. Abstract!WaitsOf(i) # {} => s = "BLOCKED"
  BY WaitsCounted DEF MayMove
<1>3. Abstract!Move(i, s)
  BY <1>1, <1>2 DEF Abstract!Move, Abstract!Live, Abstract!Absent, Live, Absent, MayMove
<1> QED BY <1>3 DEF AbstractStep, Abstract!Next

LEMMA ClientImplements == ASSUME Inv, Typed, Client, MaxReuse = 0 PROVE AbstractStep
<1>1. CASE \E i \in Issues, s \in Statuses : CreateIssue(i, s)
  <2> PICK i \in Issues, s \in Statuses : CreateIssue(i, s)
    BY <1>1
  <2>1. i \notin deleted /\ ~Live(i)
    BY DEF CreateIssue, Typed
  <2>2. \A p \in Links : p[2] = i => blocker[p] = "none"
    BY <2>1 DEF Inv, RowsInv
  <2>3. Waits' = Waits
    BY <2>2, LinkEnds DEF CreateIssue, Typed, Waits, Live
  <2>4. Abstract!Create(i, s)
    BY <2>1, <2>3 DEF CreateIssue, Abstract!Create, Abstract!Live, Abstract!Absent, Live, Absent
  <2> QED BY <2>4 DEF AbstractStep, Abstract!Next
<1>2. CASE \E i \in Issues, s \in Statuses : TransitionIssue(i, s)
  BY <1>2, MoveStep DEF TransitionIssue
<1>3. CASE \E i \in Issues : DeleteIssue(i)
  <2> PICK i \in Issues : DeleteIssue(i)
    BY <1>3
  <2>1. Waits' = Waits \ Abstract!WaitsOf(i)
    BY LinkEnds DEF DeleteIssue, Typed, Waits, Live, Abstract!WaitsOf
  <2>2. Abstract!Delete(i)
    BY <2>1 DEF DeleteIssue, Abstract!Delete, Abstract!Live, Abstract!Absent, Live, Absent
  <2> QED BY <2>2 DEF AbstractStep, Abstract!Next
<1>4. CASE \E p \in Links : AddIssueBlocker(p)
  <2> PICK p \in Links : AddIssueBlocker(p)
    BY <1>4
  <2>1. p \notin Waits
    BY DEF AddIssueBlocker, MayBlock, Waits
  <2>2. Waits' = Waits \cup {p}
    BY LinkEnds DEF AddIssueBlocker, MayBlock, Typed, Waits, Live, Absent
  <2>3. Abstract!Block(p)
    BY <2>1, <2>2
       DEF AddIssueBlocker, MayBlock, Abstract!Block, Abstract!Open, Abstract!Live,
           Abstract!Absent, Live, Absent
  <2> QED BY <2>3 DEF AbstractStep, Abstract!Next
<1>5. CASE \E p \in Links : DeleteIssueBlocker(p)
  BY <1>5, ReleaseStep DEF DeleteIssueBlocker, DropActiveBlocker, RowStates
<1>6. CASE \E p \in Links : DeleteIssueBlockerMiss(p)
  BY <1>6, Stutter DEF DeleteIssueBlockerMiss, table
<1>7. CASE \E p \in Links : DeleteIssueBlockerFallback(p)
  BY <1>7, Stutter DEF DeleteIssueBlockerFallback, Typed
<1> QED BY <1>1, <1>2, <1>3, <1>4, <1>5, <1>6, <1>7 DEF Client

LEMMA HandleImplements == ASSUME Inv, Typed, NEW w \in Workers, Handle(w) PROVE AbstractStep
<1>1. CASE \/ \E page \in SUBSET Job(w).unread :
                 \/ ReadPartition(w, page)
                 \/ \E stale \in SUBSET page :
                       ReadBlocking(w, page, stale) \/ ReadBlockers(w, page, stale)
           \/ SkipLivePartition(w) \/ BeginInbound(w) \/ Finish(w)
  <2>1. UNCHANGED table
    BY <1>1 DEF ReadPartition, ReadBlocking, ReadBlockers, SkipLivePartition,
                BeginInbound, Finish
  <2> QED BY <2>1, Stutter DEF table
<1>2. CASE \E p \in Job(w).counted : SatisfyIssueBlocker(w, p)
  <2> PICK p \in Job(w).counted : SatisfyIssueBlocker(w, p)
    BY <1>2
  <2>1. p \in Links
    BY BusyTyped
  <2>2. CASE Satisfiable(p)
    BY <2>1, <2>2, ReleaseStep DEF SatisfyIssueBlocker, Satisfiable, RowStates
  <2>3. CASE ~Satisfiable(p)
    BY <2>3, Stutter DEF SatisfyIssueBlocker
  <2> QED BY <2>2, <2>3
<1>3. CASE \E p \in Job(w).counted : DeleteBlockerForSweep(w, p)
  <2> PICK p \in Job(w).counted : DeleteBlockerForSweep(w, p)
    BY <1>3
  <2>1. p \in Links
    BY BusyTyped
  <2>2. CASE DropActiveBlocker(p)
    BY <2>1, <2>2, ReleaseStep DEF DeleteBlockerForSweep, DropActiveBlocker, RowStates
  <2>3. CASE ~DropActiveBlocker(p)
    BY <2>3, Stutter DEF DeleteBlockerForSweep
  <2> QED BY <2>2, <2>3
<1>4. CASE \E p \in Job(w).plain : DeleteRow(w, p)
  <2> PICK p \in Job(w).plain : DeleteRow(w, p)
    BY <1>4
  <2>1. p \in Links /\ (blocker[p] = "active" => ~Live(p[2]))
    BY BusyTyped DEF Inv, PlainInv
  <2> QED BY <2>1, Stutter DEF DeleteRow, Typed
<1>5. CASE HandleZeroed(w)
  <2>1. CASE Wakes(Job(w).issue)
    <3>1. Job(w).issue \in Issues /\ "TODO" \in Statuses
      BY <1>5, BusyTyped, StatusesAssumption DEF HandleZeroed, Phases, BusyJobs
    <3>2. Live(Job(w).issue) /\ MayMove(Job(w).issue, "TODO")
      BY <2>1 DEF Wakes, MayMove, Live, Absent
    <3> QED BY <1>5, <2>1, <3>1, <3>2, MoveStep DEF HandleZeroed
  <2>2. CASE ~Wakes(Job(w).issue)
    BY <1>5, <2>2, Stutter DEF HandleZeroed
  <2> QED BY <2>1, <2>2
<1> QED BY <1>1, <1>2, <1>3, <1>4, <1>5 DEF Handle

LEMMA StepImplements == ASSUME Inv, [Next]_vars, MaxReuse = 0 PROVE AbstractStep
<1>0. Typed
  BY DEF Inv, TypeOK, Typed
<1>1. CASE Client
  BY <1>0, <1>1, ClientImplements
<1>2. CASE \/ \E p \in Links : Propagate(p)
           \/ \E w \in Workers, e \in Events : Deliver(w, e) \/ DeliverTwice(w, e)
           \/ \E w \in Workers : Crash(w)
           \/ UNCHANGED vars
  <2>1. UNCHANGED table
    BY <1>2 DEF Propagate, Deliver, DeliverTwice, Crash, vars, table
  <2> QED BY <2>1, Stutter DEF table
<1>3. CASE \E w \in Workers : Handle(w)
  BY <1>0, <1>3, HandleImplements
<1> QED BY <1>1, <1>2, <1>3 DEF Next

\* Counters, IssueBlocker rows, events, pages and lagging copies behave like one
\* set of blockers per Issue that every status change consults, for any number of
\* Issues, workers and faults.
THEOREM Implements == ASSUME MaxReuse = 0 PROVE Spec => ImplementsBlockedIssues
<1>1. Init => Abstract!Init
  BY DEF Init, Abstract!Init, Waits, Abstract!Absent, Absent
<1>2. Inv /\ [Next]_vars => [Abstract!Next]_(Abstract!vars)
  BY StepImplements DEF AbstractStep
<1> QED BY <1>1, <1>2, Invariant, PTL DEF Spec, ImplementsBlockedIssues, Abstract!Spec
=============================================================================
