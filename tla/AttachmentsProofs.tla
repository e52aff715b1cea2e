--------------------------- MODULE AttachmentsProofs ---------------------------
(***************************************************************************)
(* Proofs about Attachments, for any comments, attachments, callers,       *)
(* workers, faults and reuses of the Issue's id: rows, objects, sweeps and *)
(* the ladder.                                                             *)
(***************************************************************************)
EXTENDS Attachments, FiniteSetTheorems, TLAPS

\* TypeOK without the claims that counts are not negative, which rest on
\* CountsExact.
Typed ==
    /\ issue \in Life /\ reused \in 0 .. MaxReuse /\ tainted \in BOOLEAN
    /\ num_comments \in Int /\ num_attachments \in [Owner -> Int]
    /\ comment \in [Comments -> Life]
    /\ attachment \in [Attachments -> Statuses \cup {"unborn", "gone"}]
    /\ replica \in [Attachments -> Statuses \cup {"unborn", "gone"}]
    /\ comment_of \in [Attachments -> Comments \cup {Unlinked}]
    /\ post \subseteq Attachments /\ object \subseteq Attachments
    /\ late \subseteq Attachments
    /\ confirming \subseteq Attachments
    /\ ladder \in [Actors -> Ladders]
    /\ queue \subseteq Events
    /\ sweep \in [Workers -> Sweeps]
    /\ faults \in 0 .. MaxFaults

Climbing == [at : {"delete", "reread"}, att : Attachments, seen : Statuses,
             owners : SUBSET Owner, left : 0 .. ATTEMPTS, lagged : BOOLEAN]
Sweeping == [of : Owner, unread : SUBSET (Comments \cup Attachments),
             page : SUBSET (Comments \cup Attachments), uploaded : SUBSET Attachments]

\* An actor on a ladder, or in a sweep, holds a full record.
LEMMA BusyTyped ==
  ASSUME Typed
  PROVE  /\ \A d \in Actors : ladder[d] # NoLadder => ladder[d] \in Climbing
         /\ \A w \in Workers : sweep[w] # NoSweep => sweep[w] \in Sweeping
  BY DEF Typed, Ladders, Sweeps, Climbing, Sweeping

LEMMA EventTyped == \A x \in Owner \cup Attachments : Deleted(x) \in Events
  BY DEF Deleted, Events, Owner

LEMMA OwnersTyped == ASSUME Typed, NEW a \in Attachments PROVE Owners(a) \subseteq Owner
  BY DEF Typed, Owners, Owner, Linked

LEMMA CountTyped ==
  ASSUME Typed, NEW owners \in SUBSET Owner, NEW d \in Int, Count(owners, d)
  PROVE  num_attachments' \in [Owner -> Int]
  BY DEF Typed, Count

\* An actor that is to read again has an attempt left; a worker is on a ladder only
\* within a sweep, past the first page when it is the Issue's.
AtWork ==
    /\ \A d \in Actors :
          ladder[d] # NoLadder /\ ladder[d].at = "reread" => ladder[d].left > 0
    /\ \A w \in Workers : ladder[w] # NoLadder =>
          sweep[w] # NoSweep /\ (sweep[w].of = TheIssue => PastFirstPage(w))
    /\ \A w \in Workers : sweep[w] # NoSweep => sweep[w].page \cap sweep[w].unread = {}

LEMMA InitTyped == Init => Typed /\ AtWork
<1> SUFFICES ASSUME Init PROVE Typed /\ AtWork
  OBVIOUS
<1>1. NoLadder \in Ladders /\ NoSweep \in Sweeps
  BY DEF Ladders, Sweeps
<1>2. ladder \in [Actors -> Ladders] /\ sweep \in [Workers -> Sweeps]
  BY <1>1 DEF Init
<1>3. /\ attachment \in [Attachments -> Statuses \cup {"unborn", "gone"}]
      /\ replica \in [Attachments -> Statuses \cup {"unborn", "gone"}]
      /\ comment \in [Comments -> Life]
      /\ comment_of \in [Attachments -> Comments \cup {Unlinked}]
      /\ num_attachments \in [Owner -> Int] /\ num_comments \in Int
  BY DEF Init, Life, Owner
<1>4. tainted \in BOOLEAN
  BY DEF Init
<1>5. issue \in Life /\ reused \in 0 .. MaxReuse /\ faults \in 0 .. MaxFaults
  BY BoundsAssumption DEF Init, Life
<1>6. Typed
  BY <1>2, <1>3, <1>4, <1>5 DEF Init, Typed
<1> QED BY <1>6 DEF Init, AtWork, Actors

LEMMA ClientTyped == ASSUME Typed, Client, \A d \in Callers : ~Rung(d) /\ ~GiveUp(d)
                     PROVE  Typed'
<1> USE DEF identity, rows, storage
<1>1. CASE \E c \in Comments : CreateIssueComment(c) \/ DeleteIssueComment(c)
  BY <1>1, EventTyped
  DEF Typed, CreateIssueComment, DeleteIssueComment, Life, Emit, Owner
<1>2. CASE DeleteIssue
  BY <1>2, EventTyped DEF Typed, DeleteIssue, Life, Emit, Owner, TheIssue
<1>3. CASE CreateIssue
  BY <1>3, BoundsAssumption DEF Typed, CreateIssue, Life, Owner, TheIssue
<1>4. CASE \E a \in Attachments, c \in Comments \cup {Unlinked} : InitiateUpload(a, c)
  BY <1>4 DEF Typed, InitiateUpload, Statuses
<1>5. CASE \E a \in Attachments : ResignUpload(a) \/ Upload(a) \/ ConfirmRead(a)
  BY <1>5 DEF Typed, ResignUpload, Upload, ConfirmRead
<1>6. CASE \E a \in Attachments : ConfirmWrite(a)
  BY <1>6, OwnersTyped, CountTyped DEF Typed, ConfirmWrite, Statuses
<1>7. CASE \E d \in Callers, a \in Attachments : DeleteIssueAttachment(d, a)
  <2> PICK d \in Callers, a \in Attachments : DeleteIssueAttachment(d, a)
    BY <1>7
  <2> PICK seen \in Statuses : ladder' = [ladder EXCEPT ![d] = Climb(a, seen, Owners(a))]
    BY DEF DeleteIssueAttachment
  <2>1. Climb(a, seen, Owners(a)) \in Ladders
    BY OwnersTyped DEF Climb, Ladders, ATTEMPTS
  <2> QED BY <2>1 DEF Typed, DeleteIssueAttachment
<1> QED BY <1>1, <1>2, <1>3, <1>4, <1>5, <1>6, <1>7 DEF Client

LEMMA RungTyped == ASSUME Typed, AtWork, NEW d \in Actors, Rung(d) \/ GiveUp(d) PROVE Typed'
<1> USE DEF identity, rows, storage
<1>0. NoLadder \in Ladders /\ NoSweep \in Sweeps
  BY DEF Ladders, Sweeps
<1>1. CASE DeleteUploaded(d)
  <2>1. ladder[d] \in Climbing
    BY <1>1, BusyTyped DEF DeleteUploaded, NoLadder
  <2>2. ladder' \in [Actors -> Ladders]
    BY <1>0, <1>1, <2>1 DEF Typed, DeleteUploaded, Climbing, Ladders, ATTEMPTS
  <2>3. num_attachments' \in [Owner -> Int]
    <3>1. Count(ladder[d].owners, -1) \/ UNCHANGED num_attachments
      BY <1>1 DEF DeleteUploaded
    <3>2. ladder[d].owners \in SUBSET Owner
      BY <2>1 DEF Climbing
    <3>3. CASE Count(ladder[d].owners, -1)
      BY <3>2, <3>3, CountTyped
    <3>4. CASE UNCHANGED num_attachments
      BY <3>4 DEF Typed
    <3> QED BY <3>1, <3>3, <3>4
  <2>4. /\ queue' \subseteq Events
        /\ attachment' \in [Attachments -> Statuses \cup {"unborn", "gone"}]
    BY <1>1, <2>1, EventTyped DEF Typed, DeleteUploaded, Climbing, Remove, Emit
  <2> QED BY <1>1, <2>2, <2>3, <2>4 DEF Typed, DeleteUploaded
<1>2. CASE DeletePending(d)
  <2>1. ladder[d] \in Climbing
    BY <1>2, BusyTyped DEF DeletePending, NoLadder
  <2>2. ladder' \in [Actors -> Ladders]
    BY <1>0, <1>2, <2>1 DEF Typed, DeletePending, Refused, Climbing, Ladders
  <2>3. /\ queue' \subseteq Events
        /\ attachment' \in [Attachments -> Statuses \cup {"unborn", "gone"}]
    BY <1>2, <2>1, EventTyped DEF Typed, DeletePending, Climbing, Remove, Emit
  <2> QED BY <1>2, <2>2, <2>3 DEF Typed, DeletePending
<1>3. CASE Reread(d)
  <2>1. ladder[d] \in Climbing
    BY <1>3, BusyTyped DEF Reread, NoLadder
  <2>2. ladder' \in [Actors -> Ladders]
    <3>1. ladder[d].left \in 0 .. ATTEMPTS /\ ladder[d].left > 0
      BY <1>3, <2>1 DEF AtWork, Reread, Climbing, NoLadder
    <3>2. ladder[d].left - 1 \in 0 .. ATTEMPTS
      BY <3>1 DEF ATTEMPTS
    <3> DEFINE again(seen) == Again(ladder[d], seen)
    <3>3. \A seen \in Statuses : again(seen) \in Ladders
      BY <2>1, <3>2 DEF Climbing, Ladders, Again
    <3>4. PICK seen \in View(ladder[d].att) :
             ladder' = [ladder EXCEPT ![d] = IF seen \in Statuses THEN again(seen)
                                           ELSE NoLadder]
      BY <1>3 DEF Reread
    <3> QED BY <1>0, <3>3, <3>4 DEF Typed
  <2> QED BY <1>3, <2>2 DEF Typed, Reread
<1>4. CASE GiveUp(d)
  BY <1>0, <1>4, BusyTyped, EventTyped DEF Typed, AtWork, GiveUp, Emit, Sweeping, NoLadder
<1> QED BY <1>1, <1>2, <1>3, <1>4 DEF Rung

LEMMA SweepTyped == ASSUME Typed, AtWork, NEW w \in Workers, Sweep(w) \/ Crash(w)
                    PROVE  Typed'
<1> USE DEF identity, rows, storage
<1>0. NoLadder \in Ladders /\ NoSweep \in Sweeps /\ w \in Actors
  BY DEF Ladders, Sweeps, Actors
<1>1. CASE SkipLivePartition(w) \/ FinishSweep(w)
  BY <1>0, <1>1 DEF Typed, SkipLivePartition, FinishSweep
<1>2. CASE \E page \in SUBSET sweep[w].unread : ReadPage(w, page)
  <2> PICK page \in SUBSET sweep[w].unread : ReadPage(w, page)
    BY <1>2
  <2>1. sweep[w] \in Sweeping
    BY BusyTyped DEF ReadPage
  <2>2. sweep' \in [Workers -> Sweeps]
    BY <2>1 DEF Typed, ReadPage, Sweeping, Sweeps
  <2> QED BY <2>2 DEF Typed, ReadPage
<1>3. CASE \E c \in Comments : SweepComment(w, c)
  <2> PICK c \in Comments : SweepComment(w, c)
    BY <1>3
  <2>1. sweep[w] \in Sweeping
    BY BusyTyped DEF SweepComment
  <2>2. sweep' \in [Workers -> Sweeps]
    BY <2>1 DEF Typed, SweepComment, Sweeping, Sweeps
  <2> QED BY <2>2, EventTyped DEF Typed, SweepComment, Emit, Life, Owner
<1>4. CASE \E a \in Attachments : SweepAttachment(w, a)
  <2> PICK a \in Attachments : SweepAttachment(w, a)
    BY <1>4
  <2>1. sweep[w] \in Sweeping
    BY BusyTyped DEF SweepAttachment
  <2>2. sweep' \in [Workers -> Sweeps]
    BY <2>1 DEF Typed, SweepAttachment, Sweeping, Sweeps
  <2>3. \A seen \in Statuses : Climb(a, seen, Owners(a) \ {sweep[w].of}) \in Ladders
    BY OwnersTyped DEF Climb, Ladders, ATTEMPTS
  <2>4. ladder' \in [Actors -> Ladders]
    BY <1>0, <2>3 DEF Typed, SweepAttachment, Statuses
  <2> QED BY <2>2, <2>4 DEF Typed, SweepAttachment
<1>5. CASE Rung(w) \/ GiveUp(w)
  BY <1>0, <1>5, RungTyped
<1>6. CASE Crash(w)
  BY <1>0, <1>6, BusyTyped, EventTyped, BoundsAssumption DEF Typed, Crash, Emit, Sweeping
<1> QED BY <1>1, <1>2, <1>3, <1>4, <1>5, <1>6 DEF Sweep

LEMMA NextTyped == Typed /\ AtWork /\ [Next]_vars => Typed'
<1> SUFFICES ASSUME Typed, AtWork, [Next]_vars PROVE Typed'
  OBVIOUS
<1> USE DEF identity, rows, storage
<1>1. CASE Client
  <2>1. \A d \in Callers : Rung(d) \/ GiveUp(d) => Typed'
    BY RungTyped DEF Actors
  <2> QED BY <1>1, <2>1, ClientTyped
<1>2. CASE Environment
  BY <1>2, EventTyped
  DEF Typed, Environment, PostExpires, TTLExpires, Propagate, Emit
<1>3. CASE \E w \in Workers, x \in {TheIssue} \cup Comments : Deliver(w, x)
  <2> PICK w \in Workers, x \in {TheIssue} \cup Comments : Deliver(w, x)
    BY <1>3
  <2>1. SweepOf(x) \in Sweeps
    BY DEF SweepOf, Sweeps, Owner
  <2> QED BY <2>1, BoundsAssumption DEF Typed, Deliver
<1>4. CASE \E w \in Workers : Sweep(w) \/ Crash(w)
  BY <1>4, SweepTyped
<1>5. CASE \E a \in Attachments : HandleAttachmentDeleted(a)
  BY <1>5, BoundsAssumption DEF Typed, HandleAttachmentDeleted, Without
<1>6. CASE UNCHANGED vars
  BY <1>6 DEF Typed, vars
<1> QED BY <1>1, <1>2, <1>3, <1>4, <1>5, <1>6 DEF Next

-----------------------------------------------------------------------------
(***************************************************************************)
(* Who moves a ladder or a sweep on.                                       *)
(***************************************************************************)
LEMMA LadderMoves ==
  ASSUME Typed, [Next]_vars, NEW d \in Actors
  PROVE  \/ ladder'[d] = ladder[d]
         \/ d \in Callers /\ \E a \in Attachments : DeleteIssueAttachment(d, a)
         \/ Rung(d) \/ GiveUp(d)
         \/ d \in Workers /\ ((\E a \in Attachments : SweepAttachment(d, a)) \/ Crash(d))
<1>1. CASE \/ \E c \in Comments : CreateIssueComment(c) \/ DeleteIssueComment(c)
           \/ DeleteIssue \/ CreateIssue
           \/ \E a \in Attachments, c \in Comments \cup {Unlinked} : InitiateUpload(a, c)
           \/ \E a \in Attachments : \/ ResignUpload(a) \/ Upload(a)
                                     \/ ConfirmRead(a) \/ ConfirmWrite(a)
           \/ Environment
           \/ \E w \in Workers, x \in {TheIssue} \cup Comments : Deliver(w, x)
           \/ \E a \in Attachments : HandleAttachmentDeleted(a)
           \/ UNCHANGED vars
  BY <1>1 DEF CreateIssueComment, DeleteIssueComment, DeleteIssue, CreateIssue,
              InitiateUpload, ResignUpload, Upload, ConfirmRead, ConfirmWrite, Environment,
              PostExpires, TTLExpires, Propagate, Deliver, HandleAttachmentDeleted, vars
<1>2. CASE \E e \in Actors :
              \/ e \in Callers /\ \E a \in Attachments : DeleteIssueAttachment(e, a)
              \/ Rung(e) \/ GiveUp(e)
  <2> PICK e \in Actors :
              \/ e \in Callers /\ \E a \in Attachments : DeleteIssueAttachment(e, a)
              \/ Rung(e) \/ GiveUp(e)
    BY <1>2
  <2>1. e # d => ladder'[d] = ladder[d]
    BY DEF Typed, DeleteIssueAttachment, Rung, DeleteUploaded, DeletePending, Reread, GiveUp
  <2> QED BY <2>1
<1>3. CASE \E w \in Workers : \/ \E a \in Attachments : SweepAttachment(w, a)
                              \/ Crash(w)
  <2> PICK w \in Workers : (\E a \in Attachments : SweepAttachment(w, a)) \/ Crash(w)
    BY <1>3
  <2>1. w # d => ladder'[d] = ladder[d]
    BY DEF Typed, SweepAttachment, Crash, Actors
  <2> QED BY <2>1
<1>4. CASE \E w \in Workers : \/ SkipLivePartition(w) \/ FinishSweep(w)
                              \/ \E page \in SUBSET sweep[w].unread : ReadPage(w, page)
                              \/ \E c \in Comments : SweepComment(w, c)
  BY <1>4 DEF SkipLivePartition, FinishSweep, ReadPage, SweepComment
<1> QED BY <1>1, <1>2, <1>3, <1>4 DEF Next, Client, Sweep, Actors

LEMMA SweepMoves ==
  ASSUME Typed, [Next]_vars, NEW w \in Workers
  PROVE  \/ sweep'[w] = sweep[w]
         \/ \E x \in Owner : Deliver(w, x)
         \/ SkipLivePartition(w) \/ FinishSweep(w) \/ Crash(w)
         \/ \E page \in SUBSET sweep[w].unread : ReadPage(w, page)
         \/ \E c \in Comments : SweepComment(w, c)
         \/ \E a \in Attachments : SweepAttachment(w, a)
         \/ GiveUp(w)
<1>1. CASE \/ \E c \in Comments : CreateIssueComment(c) \/ DeleteIssueComment(c)
           \/ DeleteIssue \/ CreateIssue
           \/ \E a \in Attachments, c \in Comments \cup {Unlinked} : InitiateUpload(a, c)
           \/ \E a \in Attachments : \/ ResignUpload(a) \/ Upload(a)
                                     \/ ConfirmRead(a) \/ ConfirmWrite(a)
           \/ Environment
           \/ \E d \in Actors, a \in Attachments : DeleteIssueAttachment(d, a)
           \/ \E a \in Attachments : HandleAttachmentDeleted(a)
           \/ UNCHANGED vars
  BY <1>1 DEF CreateIssueComment, DeleteIssueComment, DeleteIssue, CreateIssue,
              InitiateUpload, ResignUpload, Upload, ConfirmRead, ConfirmWrite, Environment,
              PostExpires, TTLExpires, Propagate, DeleteIssueAttachment,
              HandleAttachmentDeleted, vars
<1>2. CASE \E d \in Actors : Rung(d) \/ GiveUp(d)
  <2> PICK d \in Actors : Rung(d) \/ GiveUp(d)
    BY <1>2
  <2>1. Rung(d) => sweep' = sweep
    BY DEF Rung, DeleteUploaded, DeletePending, Reread
  <2>2. GiveUp(d) /\ d # w => sweep'[w] = sweep[w]
    BY DEF Typed, GiveUp
  <2> QED BY <2>1, <2>2
<1>3. CASE \E v \in Workers, x \in {TheIssue} \cup Comments : Deliver(v, x)
  BY <1>3 DEF Typed, Deliver, Owner
<1>4. CASE \E v \in Workers : \/ SkipLivePartition(v) \/ FinishSweep(v) \/ Crash(v)
                              \/ \E page \in SUBSET sweep[v].unread : ReadPage(v, page)
                              \/ \E c \in Comments : SweepComment(v, c)
                              \/ \E a \in Attachments : SweepAttachment(v, a)
  <2> PICK v \in Workers : \/ SkipLivePartition(v) \/ FinishSweep(v) \/ Crash(v)
                           \/ \E page \in SUBSET sweep[v].unread : ReadPage(v, page)
                           \/ \E c \in Comments : SweepComment(v, c)
                           \/ \E a \in Attachments : SweepAttachment(v, a)
    BY <1>4
  <2>1. v # w => sweep'[w] = sweep[w]
    BY DEF Typed, SkipLivePartition, FinishSweep, Crash, ReadPage, SweepComment,
           SweepAttachment
  <2> QED BY <2>1
<1> QED BY <1>1, <1>2, <1>3, <1>4 DEF Next, Client, Sweep, Actors

LEMMA AtWorkStep == ASSUME Typed, AtWork, Typed', [Next]_vars PROVE AtWork'
<1>1. ASSUME NEW d \in Actors, ladder'[d] # NoLadder, ladder'[d].at = "reread"
      PROVE  ladder'[d].left > 0
  <2>1. CASE ladder'[d] = ladder[d]
    BY <1>1, <2>1 DEF AtWork
  <2>2. CASE \/ d \in Callers /\ \E a \in Attachments : DeleteIssueAttachment(d, a)
             \/ d \in Workers /\ \E a \in Attachments : SweepAttachment(d, a)
    BY <1>1, <2>2 DEF Typed, DeleteIssueAttachment, SweepAttachment, Climb
  <2>3. CASE GiveUp(d) \/ (d \in Workers /\ Crash(d))
    BY <1>1, <2>3 DEF Typed, GiveUp, Crash
  <2>4. CASE DeleteUploaded(d)
    <3>1. ladder[d] \in Climbing
      BY <2>4, BusyTyped DEF DeleteUploaded, NoLadder
    <3> QED BY <1>1, <2>4, <3>1 DEF Typed, DeleteUploaded, Climbing
  <2>5. CASE DeletePending(d)
    <3>1. ladder[d] \in Climbing
      BY <2>5, BusyTyped DEF DeletePending, NoLadder
    <3> QED BY <1>1, <2>5, <3>1 DEF Typed, DeletePending, Refused, Climbing
  <2>6. CASE Reread(d)
    <3>1. ladder[d] \in Climbing
      BY <2>6, BusyTyped DEF Reread, NoLadder
    <3> QED BY <1>1, <2>6, <3>1 DEF Typed, Reread, Again, Climbing
  <2> QED BY <2>1, <2>2, <2>3, <2>4, <2>5, <2>6, LadderMoves DEF Rung
<1>2. ASSUME NEW w \in Workers, sweep'[w] # NoSweep
      PROVE  sweep'[w].page \cap sweep'[w].unread = {}
  <2>1. CASE sweep'[w] = sweep[w]
    BY <1>2, <2>1 DEF AtWork
  <2>2. CASE \E x \in Owner : Deliver(w, x)
    BY <2>2 DEF Typed, Deliver, SweepOf
  <2>3. CASE SkipLivePartition(w) \/ FinishSweep(w) \/ Crash(w) \/ GiveUp(w)
    BY <1>2, <2>3 DEF Typed, SkipLivePartition, FinishSweep, Crash, GiveUp
  <2>4. CASE \E page \in SUBSET sweep[w].unread : ReadPage(w, page)
    <3> PICK page \in SUBSET sweep[w].unread : ReadPage(w, page)
      BY <2>4
    <3>1. sweep[w] \in Sweeping
      BY BusyTyped DEF ReadPage
    <3>2. sweep'[w].page \subseteq page /\ sweep'[w].unread = sweep[w].unread \ page
      BY <3>1 DEF Typed, ReadPage, Sweeping
    <3> QED BY <3>2
  <2>5. CASE \/ \E c \in Comments : SweepComment(w, c)
             \/ \E a \in Attachments : SweepAttachment(w, a)
    <3>1. sweep[w] \in Sweeping /\ sweep[w] # NoSweep
      BY <2>5, BusyTyped DEF SweepComment, SweepAttachment
    <3>3. PICK y : sweep' = [sweep EXCEPT ![w].page = @ \ {y}]
      BY <2>5 DEF SweepComment, SweepAttachment
    <3>2. sweep'[w].page \subseteq sweep[w].page /\ sweep'[w].unread = sweep[w].unread
      BY <3>1, <3>3 DEF Typed, Sweeping
    <3> QED BY <3>1, <3>2 DEF AtWork
  <2> QED BY <2>1, <2>2, <2>3, <2>4, <2>5, SweepMoves
<1>3. ASSUME NEW w \in Workers, ladder'[w] # NoLadder
      PROVE  sweep'[w] # NoSweep /\ (sweep'[w].of = TheIssue => PastFirstPage(w)')
  <2>0. w \in Actors
    BY DEF Actors
  <2>1. CASE \E a \in Attachments : SweepAttachment(w, a)
    <3> PICK a \in Attachments : SweepAttachment(w, a)
      BY <2>1
    <3>1. sweep[w] \in Sweeping /\ a \notin sweep[w].unread
      BY BusyTyped DEF SweepAttachment, AtWork
    <3>2. sweep'[w].of \in Owner /\ sweep'[w].unread = sweep[w].unread
      BY <3>1 DEF Typed, SweepAttachment, Sweeping
    <3>3. sweep'[w] # NoSweep
      BY <3>1 DEF Typed, SweepAttachment, Sweeping, NoSweep
    <3> QED BY <3>1, <3>2, <3>3 DEF PastFirstPage
  <2>2. CASE ladder[w] # NoLadder /\ ~\E a \in Attachments : SweepAttachment(w, a)
    <3>1. sweep[w] # NoSweep /\ (sweep[w].of = TheIssue => PastFirstPage(w))
      BY <2>2 DEF AtWork
    <3>2. CASE sweep'[w] = sweep[w]
      BY <3>1, <3>2 DEF PastFirstPage
    <3>3. CASE \E c \in Comments : SweepComment(w, c)
      <4>1. sweep[w] \in Sweeping
        BY <3>1, BusyTyped
      <4>2. sweep'[w].of = sweep[w].of /\ sweep'[w].unread = sweep[w].unread
        BY <3>3, <4>1 DEF Typed, SweepComment, Sweeping
      <4>3. sweep'[w] # NoSweep
        BY <3>3, <4>1 DEF Typed, SweepComment, Sweeping, NoSweep
      <4> QED BY <3>1, <4>2, <4>3 DEF PastFirstPage
    <3>4. ~(\E x \in Owner : Deliver(w, x)) /\ ~SkipLivePartition(w) /\ ~FinishSweep(w)
      BY <2>2, <3>1 DEF Deliver, SkipLivePartition, LivePartition, FinishSweep
    <3>5. ~Crash(w) /\ ~GiveUp(w)
      BY <1>3, <2>0 DEF Typed, Crash, GiveUp
    <3>6. ~\E page \in SUBSET sweep[w].unread : ReadPage(w, page)
      BY <2>2 DEF ReadPage
    <3> QED BY <2>2, <3>2, <3>3, <3>4, <3>5, <3>6, SweepMoves
  <2>3. CASE ladder[w] = NoLadder /\ ~\E a \in Attachments : SweepAttachment(w, a)
    <3>1. ~DeleteUploaded(w) /\ ~DeletePending(w) /\ ~Reread(w) /\ ~GiveUp(w) /\ ~Crash(w)
      BY <1>3, <2>0, <2>3
      DEF Typed, DeleteUploaded, DeletePending, Reread, GiveUp, Crash, NoLadder
    <3> QED BY <1>3, <2>0, <2>3, <3>1, LadderMoves, DisjointAssumption DEF Rung
  <2> QED BY <2>1, <2>2, <2>3
<1> QED BY <1>1, <1>2, <1>3 DEF AtWork

LEMMA NextAtWork == Typed /\ AtWork /\ [Next]_vars => (Typed /\ AtWork)'
  BY NextTyped, AtWorkStep

-----------------------------------------------------------------------------
(***************************************************************************)
(* What one step may do to an attachment and to a comment.                 *)
(***************************************************************************)
AttachmentStep(a) ==
    \/ attachment'[a] = attachment[a] /\ comment_of'[a] = comment_of[a]
    \/ /\ attachment[a] = "unborn" /\ attachment'[a] = "PENDING"
       /\ ParentsLive(comment_of'[a])
       /\ UNCHANGED <<issue, comment>>
    \/ /\ attachment[a] = "PENDING" /\ attachment'[a] = "UPLOADED"
       /\ a \in confirming /\ ParentsLive(comment_of[a])
       /\ UNCHANGED <<issue, comment, comment_of>>
    \/ /\ Exists(a) /\ attachment'[a] = "gone"
       /\ Deleted(a) \in queue'
       /\ UNCHANGED <<issue, comment, comment_of>>

LEMMA Removal ==
  ASSUME Typed, NEW a \in Attachments, NEW b \in Attachments, Remove(b), Exists(b),
         UNCHANGED <<issue, comment, comment_of>>
  PROVE  AttachmentStep(a)
  BY DEF Typed, Remove, Emit, Exists, AttachmentStep

LEMMA AttachmentSteps ==
  ASSUME Typed, AtWork, [Next]_vars, NEW a \in Attachments PROVE AttachmentStep(a)
<1> USE DEF identity, rows, storage
<1>1. CASE UNCHANGED <<attachment, comment_of>>
  BY <1>1 DEF AttachmentStep
<1>2. CASE \E b \in Attachments, c \in Comments \cup {Unlinked} : InitiateUpload(b, c)
  BY <1>2 DEF Typed, InitiateUpload, AttachmentStep
<1>3. CASE \E b \in Attachments : ConfirmWrite(b)
  BY <1>3 DEF Typed, ConfirmWrite, Confirmable, AttachmentStep
<1>4. CASE \E d \in Actors : DeleteUploaded(d)
  <2> PICK d \in Actors : DeleteUploaded(d)
    BY <1>4
  <2>1. ladder[d].att \in Attachments
    BY BusyTyped DEF DeleteUploaded, NoLadder, Climbing
  <2>2. \/ UNCHANGED attachment
        \/ Remove(ladder[d].att) /\ Exists(ladder[d].att)
    BY DEF DeleteUploaded, Exists, Statuses
  <2>3. UNCHANGED <<issue, comment, comment_of>>
    BY DEF DeleteUploaded
  <2> QED BY <1>1, <2>1, <2>2, <2>3, Removal
<1>5. CASE \E d \in Actors : DeletePending(d)
  <2> PICK d \in Actors : DeletePending(d)
    BY <1>5
  <2>1. ladder[d].att \in Attachments
    BY BusyTyped DEF DeletePending, NoLadder, Climbing
  <2>2. \/ UNCHANGED attachment
        \/ Remove(ladder[d].att) /\ Exists(ladder[d].att)
    BY DEF DeletePending, StillPending, Exists, Statuses
  <2>3. UNCHANGED <<issue, comment, comment_of>>
    BY DEF DeletePending
  <2> QED BY <1>1, <2>1, <2>2, <2>3, Removal
<1>6. CASE Environment
  <2>1. CASE \E b \in Attachments : TTLExpires(b)
    BY <2>1, Removal DEF TTLExpires, Remove, Exists, Statuses
  <2> QED BY <1>1, <1>6, <2>1 DEF Environment, PostExpires, Propagate
<1>7. CASE \/ \E c \in Comments : CreateIssueComment(c) \/ DeleteIssueComment(c)
           \/ DeleteIssue \/ CreateIssue
           \/ \E b \in Attachments : \/ ResignUpload(b) \/ Upload(b) \/ ConfirmRead(b)
                                     \/ HandleAttachmentDeleted(b)
           \/ \E d \in Callers, b \in Attachments : DeleteIssueAttachment(d, b)
           \/ \E d \in Actors : Reread(d) \/ GiveUp(d)
  BY <1>1, <1>7
  DEF CreateIssueComment, DeleteIssueComment, DeleteIssue, CreateIssue, ResignUpload, Upload,
      ConfirmRead, HandleAttachmentDeleted, DeleteIssueAttachment, Reread, GiveUp
<1>8. CASE \/ \E w \in Workers, x \in {TheIssue} \cup Comments : Deliver(w, x)
           \/ \E w \in Workers : \/ SkipLivePartition(w) \/ FinishSweep(w) \/ Crash(w)
                                 \/ \E page \in SUBSET sweep[w].unread : ReadPage(w, page)
                                 \/ \E c \in Comments : SweepComment(w, c)
                                 \/ \E b \in Attachments : SweepAttachment(w, b)
           \/ UNCHANGED vars
  BY <1>1, <1>8
  DEF Deliver, SkipLivePartition, FinishSweep, Crash, ReadPage, SweepComment,
      SweepAttachment, vars
<1> QED BY <1>2, <1>3, <1>4, <1>5, <1>6, <1>7, <1>8
        DEF Next, Client, Rung, Sweep, Actors

\* A row in state t is, or has been, in state s: none goes back.
Past(s, t) ==
    \/ s = "unborn"
    \/ s = "PENDING" /\ t # "unborn"
    \/ s = "UPLOADED" /\ t \in {"UPLOADED", "gone"}
    \/ s = "gone" /\ t = "gone"

LEMMA PastStays ==
  ASSUME NEW a \in Attachments, AttachmentStep(a), NEW s, Past(s, attachment[a])
  PROVE  Past(s, attachment'[a])
  BY DEF AttachmentStep, Past, Exists, Statuses

LEMMA PastNow ==
  ASSUME Typed, NEW a \in Attachments PROVE Past(attachment[a], attachment[a])
  BY DEF Typed, Past, Statuses

\* A lagging copy shows a state the row has been in.
ReplicaPast == \A a \in Attachments : Past(replica[a], attachment[a])

LEMMA ReplicaSteps ==
  ASSUME Typed, [Next]_vars, NEW a \in Attachments, replica'[a] # replica[a]
  PROVE  replica'[a] = attachment[a]
<1>1. CASE Environment
  BY <1>1 DEF Typed, Environment, PostExpires, TTLExpires, Propagate
<1>2. CASE \/ \E c \in Comments : CreateIssueComment(c) \/ DeleteIssueComment(c)
           \/ DeleteIssue \/ CreateIssue
           \/ \E b \in Attachments, c \in Comments \cup {Unlinked} : InitiateUpload(b, c)
           \/ \E b \in Attachments : \/ ResignUpload(b) \/ Upload(b) \/ ConfirmRead(b)
                                     \/ ConfirmWrite(b) \/ HandleAttachmentDeleted(b)
           \/ \E d \in Callers, b \in Attachments : DeleteIssueAttachment(d, b)
           \/ \E d \in Actors : Rung(d) \/ GiveUp(d)
  BY <1>2
  DEF CreateIssueComment, DeleteIssueComment, DeleteIssue, CreateIssue, InitiateUpload,
      ResignUpload, Upload, ConfirmRead, ConfirmWrite, HandleAttachmentDeleted,
      DeleteIssueAttachment, Rung, DeleteUploaded, DeletePending, Reread, GiveUp
<1>3. CASE \/ \E w \in Workers, x \in {TheIssue} \cup Comments : Deliver(w, x)
           \/ \E w \in Workers : \/ SkipLivePartition(w) \/ FinishSweep(w) \/ Crash(w)
                                 \/ \E page \in SUBSET sweep[w].unread : ReadPage(w, page)
                                 \/ \E c \in Comments : SweepComment(w, c)
                                 \/ \E b \in Attachments : SweepAttachment(w, b)
           \/ UNCHANGED vars
  BY <1>3
  DEF Deliver, SkipLivePartition, FinishSweep, Crash, ReadPage, SweepComment,
      SweepAttachment, vars
<1> QED BY <1>1, <1>2, <1>3 DEF Next, Client, Sweep, Actors

LEMMA ReplicaStep ==
  ASSUME Typed, AtWork, ReplicaPast, [Next]_vars PROVE ReplicaPast'
<1> SUFFICES ASSUME NEW a \in Attachments PROVE Past(replica'[a], attachment'[a])
  BY DEF ReplicaPast, Past
<1>1. AttachmentStep(a)
  BY AttachmentSteps
<1>2. CASE replica'[a] = replica[a]
  BY <1>1, <1>2, PastStays DEF ReplicaPast
<1>3. CASE replica'[a] # replica[a]
  <2>1. replica'[a] = attachment[a]
    BY <1>3, ReplicaSteps
  <2> QED BY <1>1, <2>1, PastNow, PastStays
<1> QED BY <1>2, <1>3

\* What is stored, uploaded and confirmed of an attachment, and its event.
StorageStep(a) ==
    /\ a \in object /\ a \notin object' => Deleted(a) \in queue
    /\ a \notin object /\ a \in object' =>
          /\ attachment'[a] = attachment[a]
          /\ Exists(a) \/ a \in late'
    /\ a \in late => a \in late'
    /\ a \notin confirming /\ a \in confirming' =>
          /\ a \in object' /\ attachment'[a] = attachment[a]
          /\ View(a) \cap Statuses # {}
    /\ Deleted(a) \notin queue /\ Deleted(a) \in queue' => attachment'[a] = "gone"
    /\ Deleted(a) \in queue /\ Deleted(a) \notin queue' => a \notin object'

\* A step that sends the event of an Issue or a comment, or none.
LEMMA OwnerSends ==
  ASSUME NEW a \in Attachments, NEW x \in Owner, UNCHANGED <<object, late, confirming>>,
         queue' = queue \/ queue' = queue \cup {Deleted(x)}
  PROVE  StorageStep(a)
<1>1. Deleted(x) # Deleted(a)
  BY DisjointAssumption, TheIssueAssumption DEF Deleted, Owner, TheIssue
<1> QED BY <1>1 DEF StorageStep

\* A step that removes a row and sends its event.
LEMMA RemovalSends ==
  ASSUME Typed, NEW a \in Attachments, NEW b \in Attachments, Remove(b),
         UNCHANGED <<object, late, confirming>>
  PROVE  StorageStep(a)
<1>1. Deleted(a) = Deleted(b) => a = b
  BY DEF Deleted
<1>2. a = b => attachment'[a] = "gone"
  BY DEF Typed, Remove
<1> QED BY <1>1, <1>2 DEF StorageStep, Remove, Emit

LEMMA StorageSteps ==
  ASSUME Typed, AtWork, [Next]_vars, NEW a \in Attachments PROVE StorageStep(a)
<1> USE DEF identity, rows, storage
<1>0. \A x \in Owner : Deleted(x) # Deleted(a)
  BY DisjointAssumption, TheIssueAssumption DEF Deleted, Owner, TheIssue
<1>1. CASE UNCHANGED <<object, late, queue>> /\ confirming' \subseteq confirming
  BY <1>1 DEF StorageStep
<1>2. CASE \/ \E c \in Comments : DeleteIssueComment(c)
           \/ DeleteIssue
  BY <1>2, OwnerSends DEF DeleteIssueComment, DeleteIssue, Emit, Owner
<1>3. CASE \/ \E b \in Attachments : ResignUpload(b) \/ ConfirmWrite(b)
           \/ \E b \in Attachments, c \in Comments \cup {Unlinked} : InitiateUpload(b, c)
           \/ \E c \in Comments : CreateIssueComment(c)
           \/ CreateIssue
           \/ \E d \in Callers, b \in Attachments : DeleteIssueAttachment(d, b)
           \/ \E d \in Actors : Reread(d)
           \/ UNCHANGED vars
  BY <1>1, <1>3
  DEF ResignUpload, ConfirmWrite, InitiateUpload, CreateIssueComment, CreateIssue,
      DeleteIssueAttachment, Reread, vars
<1>4. CASE \E b \in Attachments : Upload(b) \/ ConfirmRead(b)
  BY <1>4 DEF Upload, ConfirmRead, Headed, StorageStep
<1>5. CASE \E d \in Actors : DeleteUploaded(d)
  <2> PICK d \in Actors : DeleteUploaded(d)
    BY <1>5
  <2>1. ladder[d].att \in Attachments
    BY BusyTyped DEF DeleteUploaded, NoLadder, Climbing
  <2>2. UNCHANGED queue \/ Remove(ladder[d].att)
    BY DEF DeleteUploaded
  <2>3. UNCHANGED <<object, late, confirming>>
    BY DEF DeleteUploaded
  <2> QED BY <1>1, <2>1, <2>2, <2>3, RemovalSends
<1>6. CASE \E d \in Actors : DeletePending(d)
  <2> PICK d \in Actors : DeletePending(d)
    BY <1>6
  <2>1. ladder[d].att \in Attachments
    BY BusyTyped DEF DeletePending, NoLadder, Climbing
  <2>2. UNCHANGED queue \/ Remove(ladder[d].att)
    BY DEF DeletePending
  <2>3. UNCHANGED <<object, late, confirming>>
    BY DEF DeletePending
  <2> QED BY <1>1, <2>1, <2>2, <2>3, RemovalSends
<1>7. CASE \E d \in Actors : GiveUp(d)
  <2> PICK d \in Actors : GiveUp(d)
    BY <1>7
  <2>1. CASE d \in Workers
    <3>1. sweep[d].of \in Owner
      BY <2>1, BusyTyped DEF GiveUp, AtWork, NoLadder, Sweeping
    <3> QED BY <2>1, <3>1, OwnerSends DEF GiveUp, Emit
  <2>2. CASE d \notin Workers
    BY <1>1, <2>2 DEF GiveUp
  <2> QED BY <2>1, <2>2
<1>8. CASE Environment
  <2>1. CASE \E b \in Attachments : TTLExpires(b)
    BY <2>1, RemovalSends DEF TTLExpires, Remove
  <2> QED BY <1>1, <1>8, <2>1 DEF Environment, PostExpires, Propagate
<1>9. CASE \E w \in Workers, x \in {TheIssue} \cup Comments : Deliver(w, x)
  BY <1>0, <1>9 DEF Deliver, StorageStep, Owner
<1>10. CASE \E w \in Workers : \/ SkipLivePartition(w) \/ FinishSweep(w)
                              \/ \E page \in SUBSET sweep[w].unread : ReadPage(w, page)
                              \/ \E b \in Attachments : SweepAttachment(w, b)
  BY <1>1, <1>10 DEF SkipLivePartition, FinishSweep, ReadPage, SweepAttachment
<1>11. CASE \E w \in Workers, c \in Comments : SweepComment(w, c)
  <2> PICK w \in Workers, c \in Comments : SweepComment(w, c)
    BY <1>11
  <2>1. queue' = queue \/ queue' = queue \cup {Deleted(c)}
    BY DEF SweepComment, Emit
  <2> QED BY <2>1, OwnerSends DEF SweepComment, Owner
<1>12. CASE \E w \in Workers : Crash(w)
  <2> PICK w \in Workers : Crash(w)
    BY <1>12
  <2>1. sweep[w].of \in Owner
    BY BusyTyped DEF Crash, Sweeping
  <2> QED BY <2>1, OwnerSends DEF Crash, Emit
<1>13. CASE \E b \in Attachments : HandleAttachmentDeleted(b)
  BY <1>13 DEF HandleAttachmentDeleted, Without, Deleted, StorageStep
<1> QED BY <1>2, <1>3, <1>4, <1>5, <1>6, <1>7, <1>8, <1>9, <1>10, <1>11, <1>12, <1>13
        DEF Next, Client, Rung, Sweep, Actors

-----------------------------------------------------------------------------
(***************************************************************************)
(* Objects                                                                 *)
(***************************************************************************)
\* A confirm underway has found the object of a row that stood, and only the
\* handler of a deleted row removes it.
ObjectInv ==
    \A a \in Attachments :
       /\ a \in confirming => attachment[a] # "unborn"
       /\ attachment[a] = "UPLOADED" \/ (a \in confirming /\ Exists(a)) => a \in object
       /\ Deleted(a) \in queue => attachment[a] = "gone"
       /\ Stray(a) => Deleted(a) \in queue

LEMMA ObjectStep ==
  ASSUME Typed, AtWork, ReplicaPast, ObjectInv, [Next]_vars PROVE ObjectInv'
<1> SUFFICES ASSUME NEW a \in Attachments
             PROVE  /\ a \in confirming' => attachment'[a] # "unborn"
                    /\ attachment'[a] = "UPLOADED" \/ (a \in confirming' /\ Exists(a)')
                           => a \in object'
                    /\ Deleted(a) \in queue' => attachment'[a] = "gone"
                    /\ Stray(a)' => Deleted(a) \in queue'
  BY DEF ObjectInv, Deleted
<1>0. /\ a \in confirming => attachment[a] # "unborn"
      /\ attachment[a] = "UPLOADED" \/ (a \in confirming /\ Exists(a)) => a \in object
      /\ Deleted(a) \in queue => attachment[a] = "gone"
      /\ Stray(a) => Deleted(a) \in queue
  BY DEF ObjectInv
<1>1. AttachmentStep(a) /\ StorageStep(a)
  BY AttachmentSteps, StorageSteps
<1>2. a \in confirming' => attachment'[a] # "unborn"
  <2>1. View(a) \cap Statuses # {} => attachment[a] # "unborn"
    BY DEF View, ReplicaPast, Past, Statuses
  <2> QED BY <1>0, <1>1, <2>1 DEF AttachmentStep, StorageStep, Exists, Statuses
<1>3. a \in object /\ attachment[a] # "gone" => a \in object'
  BY <1>0, <1>1 DEF StorageStep
<1>4. attachment'[a] = "UPLOADED" \/ (a \in confirming' /\ Exists(a)') => a \in object'
  <2>1. CASE attachment'[a] = "UPLOADED"
    <3>1. a \in object /\ attachment[a] # "gone"
      BY <1>0, <1>1, <2>1 DEF AttachmentStep, Exists, Statuses
    <3> QED BY <1>3, <3>1
  <2>2. CASE a \in confirming' /\ a \notin confirming
    BY <1>1, <2>2 DEF StorageStep
  <2>3. CASE a \in confirming /\ Exists(a)'
    <3>1. Exists(a)
      BY <1>0, <1>1, <2>3 DEF AttachmentStep, Exists, Statuses
    <3>2. a \in object /\ attachment[a] # "gone"
      BY <1>0, <2>3, <3>1 DEF Exists, Statuses
    <3> QED BY <1>3, <3>2
  <2> QED BY <2>1, <2>2, <2>3
<1>5. Deleted(a) \in queue' => attachment'[a] = "gone"
  BY <1>0, <1>1 DEF AttachmentStep, StorageStep, Exists, Statuses
<1>6. Stray(a)' => Deleted(a) \in queue'
  BY <1>0, <1>1 DEF AttachmentStep, StorageStep, Exists, Statuses, Stray
<1> QED BY <1>2, <1>4, <1>5, <1>6

Sound == Typed /\ AtWork /\ ReplicaPast

LEMMA InitSound == Init => Sound
  BY InitTyped DEF Init, Sound, ReplicaPast, Past

LEMMA SoundStep == Sound /\ [Next]_vars => Sound'
  BY NextAtWork, ReplicaStep DEF Sound

THEOREM Objects == Spec => [](Sound /\ ObjectInv)
<1>1. Init => Sound /\ ObjectInv
  BY InitSound DEF Init, ObjectInv, Exists, Statuses, Stray
<1>2. Sound /\ ObjectInv /\ [Next]_vars => (Sound /\ ObjectInv)'
  BY SoundStep, ObjectStep DEF Sound
<1> QED BY <1>1, <1>2, PTL DEF Spec

\* An attachment that is UPLOADED can be downloaded: no confirm outruns its
\* object, and no event of an earlier delete takes the object from under a row.
THEOREM UploadsAreThere == Spec => []UploadedHasObject
<1>1. ObjectInv => UploadedHasObject
  BY DEF ObjectInv, UploadedHasObject
<1> QED BY <1>1, Objects, PTL

\* However a row went (by a caller, a sweep or TTL), and however often its event is
\* delivered or a handler dies, an object POSTed while the row stood has the event
\* that removes it ahead.
THEOREM NoObjectIsStranded == Spec => []NoStrandedObject
<1>1. ObjectInv => NoStrandedObject
  BY DEF ObjectInv, NoStrandedObject
<1> QED BY <1>1, Objects, PTL

-----------------------------------------------------------------------------
(***************************************************************************)
(* The sweeps pass no row by, and the ladder of a delete has attempts      *)
(* enough.                                                                 *)
(***************************************************************************)
\* What a page in hand shows of a row.
Shown(s, a) == IF a \in s.uploaded THEN "UPLOADED" ELSE "PENDING"

\* A page in hand and a call underway show states the rows have been in.
PageOK(s) ==
    s # NoSweep => /\ \A c \in s.page \cap Comments : comment[c] # "unborn"
                   /\ \A a \in s.page \cap Attachments : Past(Shown(s, a), attachment[a])

LadderOK(l) == l # NoLadder => Past(l.seen, attachment[l.att])

PastInv ==
    /\ \A w \in Workers : PageOK(sweep[w])
    /\ \A d \in Actors : LadderOK(ladder[d])

-----------------------------------------------------------------------------
(***************************************************************************)
(* What one step may do to the Issue, a comment and an event.              *)
(***************************************************************************)
CommentStep(c) ==
    \/ comment'[c] = comment[c]
    \/ /\ comment[c] = "unborn" /\ comment'[c] = "live" /\ issue = "live"
       /\ UNCHANGED <<issue, attachment, comment_of>>
    \/ comment[c] # "gone" /\ comment'[c] = "gone" /\ Deleted(c) \in queue'

IssueStep ==
    \/ UNCHANGED issue
    \/ issue = "gone" /\ issue' = "live" /\ UNCHANGED <<comment, attachment, comment_of>>
    \/ /\ issue = "live" /\ issue' = "gone" /\ Deleted(TheIssue) \in queue'
       /\ UNCHANGED <<comment, attachment, comment_of>>

LEMMA ParentSteps ==
  ASSUME Typed, PastInv, [Next]_vars
  PROVE  IssueStep /\ \A c \in Comments : CommentStep(c)
<1> USE DEF identity, rows, storage
<1>1. CASE UNCHANGED <<issue, comment>>
  BY <1>1 DEF IssueStep, CommentStep
<1>2. CASE \E c \in Comments : CreateIssueComment(c) \/ DeleteIssueComment(c)
  BY <1>2
  DEF Typed, CreateIssueComment, DeleteIssueComment, Deletable, CommentLive, Emit, IssueStep,
      CommentStep
<1>3. CASE DeleteIssue \/ CreateIssue
  BY <1>3 DEF DeleteIssue, CreateIssue, Emit, IssueStep, CommentStep
<1>4. CASE \E w \in Workers, c \in Comments : SweepComment(w, c)
  <2> PICK w \in Workers, c \in Comments : SweepComment(w, c)
    BY <1>4
  <2>1. UNCHANGED issue /\ comment' = [comment EXCEPT ![c] = "gone"]
    BY DEF SweepComment
  <2>2. comment[c] = "live" => Deleted(c) \in queue'
    BY DEF SweepComment, CommentLive, Emit
  <2>3. comment[c] # "unborn"
    BY DEF SweepComment, PastInv, PageOK
  <2>4. comment[c] \in {"live", "gone"}
    BY <2>3 DEF Typed, Life
  <2> QED BY <2>1, <2>2, <2>4 DEF Typed, IssueStep, CommentStep
<1>5. CASE \/ \E b \in Attachments, c \in Comments \cup {Unlinked} : InitiateUpload(b, c)
           \/ \E b \in Attachments : \/ ResignUpload(b) \/ Upload(b) \/ ConfirmRead(b)
                                     \/ ConfirmWrite(b) \/ HandleAttachmentDeleted(b)
           \/ \E d \in Callers, b \in Attachments : DeleteIssueAttachment(d, b)
           \/ \E d \in Actors : Rung(d) \/ GiveUp(d)
           \/ Environment
  BY <1>1, <1>5
  DEF InitiateUpload, ResignUpload, Upload, ConfirmRead, ConfirmWrite,
      HandleAttachmentDeleted, DeleteIssueAttachment, Rung, DeleteUploaded, DeletePending,
      Reread, GiveUp, Environment, PostExpires, TTLExpires, Propagate
<1>6. CASE \/ \E w \in Workers, x \in {TheIssue} \cup Comments : Deliver(w, x)
           \/ \E w \in Workers : \/ SkipLivePartition(w) \/ FinishSweep(w) \/ Crash(w)
                                 \/ \E page \in SUBSET sweep[w].unread : ReadPage(w, page)
                                 \/ \E b \in Attachments : SweepAttachment(w, b)
           \/ UNCHANGED vars
  BY <1>1, <1>6
  DEF Deliver, SkipLivePartition, FinishSweep, Crash, ReadPage, SweepAttachment, vars
<1> QED BY <1>2, <1>3, <1>4, <1>5, <1>6 DEF Next, Client, Sweep, Actors

\* The event of a deleted Issue or comment leaves the queue into a fresh sweep.
LEMMA EventFate ==
  ASSUME Typed, [Next]_vars, NEW x \in Owner, Deleted(x) \in queue
  PROVE  Deleted(x) \in queue' \/ \E w \in Workers : sweep'[w] = SweepOf(x)
<1> USE DEF identity, rows, storage
<1>1. CASE queue \subseteq queue'
  BY <1>1
<1>2. CASE \/ \E c \in Comments : CreateIssueComment(c) \/ DeleteIssueComment(c)
           \/ DeleteIssue \/ CreateIssue
           \/ \E b \in Attachments, c \in Comments \cup {Unlinked} : InitiateUpload(b, c)
           \/ \E b \in Attachments : \/ ResignUpload(b) \/ Upload(b) \/ ConfirmRead(b)
                                     \/ ConfirmWrite(b)
           \/ \E d \in Callers, b \in Attachments : DeleteIssueAttachment(d, b)
           \/ Environment
  BY <1>1, <1>2
  DEF CreateIssueComment, DeleteIssueComment, DeleteIssue, CreateIssue, InitiateUpload,
      ResignUpload, Upload, ConfirmRead, ConfirmWrite, DeleteIssueAttachment, Environment,
      PostExpires, TTLExpires, Propagate, Emit
<1>3. CASE \E d \in Actors : Rung(d) \/ GiveUp(d)
  BY <1>1, <1>3 DEF Rung, DeleteUploaded, DeletePending, Reread, GiveUp, Remove, Emit
<1>4. CASE \E w \in Workers, y \in {TheIssue} \cup Comments : Deliver(w, y)
  BY <1>4 DEF Typed, Deliver, Deleted
<1>5. CASE \/ \E w \in Workers : \/ SkipLivePartition(w) \/ FinishSweep(w) \/ Crash(w)
                                 \/ \E page \in SUBSET sweep[w].unread : ReadPage(w, page)
                                 \/ \E c \in Comments : SweepComment(w, c)
                                 \/ \E b \in Attachments : SweepAttachment(w, b)
           \/ UNCHANGED vars
  BY <1>1, <1>5
  DEF SkipLivePartition, FinishSweep, Crash, ReadPage, SweepComment, SweepAttachment, Emit,
      vars
<1>6. CASE \E b \in Attachments : HandleAttachmentDeleted(b)
  BY <1>6, DisjointAssumption, TheIssueAssumption
  DEF HandleAttachmentDeleted, Deleted, Owner, TheIssue
<1> QED BY <1>2, <1>3, <1>4, <1>5, <1>6 DEF Next, Client, Sweep, Actors

-----------------------------------------------------------------------------
(***************************************************************************)
(* Pages and calls stay behind the rows.                                   *)
(***************************************************************************)
LEMMA ViewPast ==
  ASSUME Sound, NEW a \in Attachments, NEW s \in View(a) PROVE Past(s, attachment[a])
  BY PastNow DEF Sound, View, ReplicaPast

LEMMA PageStep ==
  ASSUME Sound, PastInv, Sound', [Next]_vars, NEW w \in Workers
  PROVE  sweep'[w] # NoSweep =>
            /\ \A c \in sweep'[w].page \cap Comments : comment'[c] # "unborn"
            /\ \A a \in sweep'[w].page \cap Attachments :
                  Past(Shown(sweep'[w], a), attachment'[a])
<1> SUFFICES ASSUME sweep'[w] # NoSweep
             PROVE  /\ \A c \in sweep'[w].page \cap Comments : comment'[c] # "unborn"
                    /\ \A a \in sweep'[w].page \cap Attachments :
                          Past(Shown(sweep'[w], a), attachment'[a])
  OBVIOUS
<1>0. Typed /\ AtWork /\ PageOK(sweep[w])
  BY DEF Sound, PastInv
<1>1. \A c \in Comments : comment[c] # "unborn" => comment'[c] # "unborn"
  BY <1>0, ParentSteps DEF CommentStep
<1>2. \A a \in Attachments : AttachmentStep(a)
  BY <1>0, AttachmentSteps
<1>3. CASE /\ sweep[w] # NoSweep
           /\ sweep'[w].page \subseteq sweep[w].page
           /\ sweep'[w].uploaded = sweep[w].uploaded
  BY <1>0, <1>1, <1>2, <1>3, PastStays DEF PageOK, Shown
<1>4. CASE sweep'[w] = sweep[w]
  BY <1>3, <1>4
<1>5. CASE \E x \in Owner : Deliver(w, x)
  BY <1>0, <1>5 DEF Typed, Deliver, SweepOf
<1>6. CASE SkipLivePartition(w) \/ FinishSweep(w) \/ Crash(w) \/ GiveUp(w)
  BY <1>0, <1>6 DEF Typed, SkipLivePartition, FinishSweep, Crash, GiveUp
<1>7. CASE \E page \in SUBSET sweep[w].unread : ReadPage(w, page)
  <2> PICK page \in SUBSET sweep[w].unread : ReadPage(w, page)
    BY <1>7
  <2>1. sweep[w] \in Sweeping
    BY <1>0, BusyTyped DEF ReadPage
  <2>2. /\ sweep'[w].page = {c \in page \cap Comments : CommentLive(c)}
                    \cup {a \in page \cap Attachments : SweptBy(sweep[w].of, a)}
        /\ sweep'[w].uploaded = {a \in page \cap Attachments : attachment[a] = "UPLOADED"}
        /\ UNCHANGED <<comment, attachment>>
    BY <1>0, <2>1 DEF Typed, ReadPage, Sweeping, rows
  <2> QED BY <2>2, DisjointAssumption
          DEF CommentLive, SweptBy, Exists, Statuses, Past, Shown
<1>8. CASE \/ \E c \in Comments : SweepComment(w, c)
           \/ \E a \in Attachments : SweepAttachment(w, a)
  <2>1. sweep[w] \in Sweeping /\ sweep[w] # NoSweep
    BY <1>0, <1>8, BusyTyped DEF SweepComment, SweepAttachment
  <2>2. PICK y : sweep' = [sweep EXCEPT ![w].page = @ \ {y}]
    BY <1>8 DEF SweepComment, SweepAttachment
  <2>3. sweep'[w].page \subseteq sweep[w].page /\ sweep'[w].uploaded = sweep[w].uploaded
    BY <1>0, <2>1, <2>2 DEF Typed, Sweeping
  <2> QED BY <1>3, <2>1, <2>3
<1> QED BY <1>0, <1>4, <1>5, <1>6, <1>7, <1>8, SweepMoves

LEMMA CallStep ==
  ASSUME Sound, PastInv, [Next]_vars, NEW d \in Actors, ladder'[d] # NoLadder
  PROVE  Past(ladder'[d].seen, attachment'[ladder'[d].att])
<1>0. Typed /\ AtWork /\ LadderOK(ladder[d])
  BY DEF Sound, PastInv
<1>1. \A a \in Attachments : AttachmentStep(a)
  BY <1>0, AttachmentSteps
<1>2. CASE /\ ladder[d] # NoLadder
           /\ ladder'[d].seen = ladder[d].seen /\ ladder'[d].att = ladder[d].att
  <2>1. ladder[d].att \in Attachments
    BY <1>0, <1>2, BusyTyped DEF Climbing
  <2> QED BY <1>0, <1>1, <1>2, <2>1, PastStays DEF LadderOK
<1>3. CASE ladder'[d] = ladder[d]
  BY <1>2, <1>3
<1>4. CASE d \in Callers /\ \E a \in Attachments : DeleteIssueAttachment(d, a)
  <2> PICK a \in Attachments : DeleteIssueAttachment(d, a)
    BY <1>4
  <2> PICK seen \in View(a) \cap Statuses :
           ladder' = [ladder EXCEPT ![d] = Climb(a, seen, Owners(a))]
    BY DEF DeleteIssueAttachment
  <2>1. ladder'[d].seen = seen /\ ladder'[d].att = a
    BY <1>0 DEF Typed, Climb
  <2> QED BY <2>1, ViewPast DEF DeleteIssueAttachment, rows
<1>5. CASE DeleteUploaded(d)
  <2>1. ladder[d] \in Climbing /\ ladder[d] # NoLadder
    BY <1>0, <1>5, BusyTyped DEF DeleteUploaded, NoLadder
  <2>2. ladder'[d].seen = ladder[d].seen /\ ladder'[d].att = ladder[d].att
    BY <1>0, <1>5, <2>1 DEF Typed, DeleteUploaded, Climbing
  <2> QED BY <1>2, <2>1, <2>2
<1>6. CASE DeletePending(d)
  <2>1. ladder[d] \in Climbing /\ ladder[d] # NoLadder
    BY <1>0, <1>6, BusyTyped DEF DeletePending, NoLadder
  <2>2. ladder'[d].seen = ladder[d].seen /\ ladder'[d].att = ladder[d].att
    BY <1>0, <1>6, <2>1 DEF Typed, DeletePending, Refused, Climbing
  <2> QED BY <1>2, <2>1, <2>2
<1>7. CASE Reread(d)
  <2>1. ladder[d] \in Climbing
    BY <1>0, <1>7, BusyTyped DEF Reread, NoLadder
  <2> DEFINE again(seen) == Again(ladder[d], seen)
  <2>2. PICK seen \in View(ladder[d].att) :
           ladder' = [ladder EXCEPT ![d] = IF seen \in Statuses THEN again(seen)
                                           ELSE NoLadder]
    BY <1>7 DEF Reread
  <2>3. ladder'[d] = again(seen)
    BY <1>0, <2>2 DEF Typed
  <2>4. ladder'[d].seen = seen /\ ladder'[d].att = ladder[d].att
    BY <2>1, <2>3 DEF Climbing, Again
  <2>5. UNCHANGED attachment
    BY <1>7 DEF Reread, rows
  <2>6. ladder[d].att \in Attachments
    BY <2>1 DEF Climbing
  <2> QED BY <2>2, <2>4, <2>5, <2>6, ViewPast
<1>8. CASE d \in Workers /\ \E a \in Attachments : SweepAttachment(d, a)
  <2> PICK a \in Attachments : SweepAttachment(d, a)
    BY <1>8
  <2>1. ladder'[d].att = a /\ ladder'[d].seen = Shown(sweep[d], a)
    BY <1>0 DEF Typed, SweepAttachment, Climb, Shown
  <2>2. PageOK(sweep[d]) /\ sweep[d] # NoSweep /\ a \in sweep[d].page
    BY <1>8 DEF PastInv, SweepAttachment
  <2>3. UNCHANGED attachment
    BY DEF SweepAttachment, rows
  <2> QED BY <2>1, <2>2, <2>3 DEF PageOK
<1>9. CASE GiveUp(d) \/ (d \in Workers /\ Crash(d))
  BY <1>0, <1>9 DEF Typed, GiveUp, Crash
<1> QED BY <1>0, <1>3, <1>4, <1>5, <1>6, <1>7, <1>8, <1>9, LadderMoves DEF Rung

LEMMA PastStep == Sound /\ PastInv /\ [Next]_vars => PastInv'
<1> SUFFICES ASSUME Sound, PastInv, [Next]_vars PROVE PastInv'
  OBVIOUS
<1>1. Sound'
  BY SoundStep
<1> QED BY <1>1, PageStep, CallStep DEF PastInv, PageOK, LadderOK, Shown, Past

THEOREM Pages == Spec => [](Sound /\ PastInv)
<1>1. Init => Sound /\ PastInv
  BY InitSound DEF Init, PastInv, PageOK, LadderOK
<1>2. Sound /\ PastInv /\ [Next]_vars => (Sound /\ PastInv)'
  BY SoundStep, PastStep
<1> QED BY <1>1, <1>2, PTL DEF Spec

-----------------------------------------------------------------------------
(***************************************************************************)
(* No row is stranded                                                      *)
(***************************************************************************)
OwnerGone(x) == IF x = TheIssue THEN issue = "gone" ELSE comment[x] = "gone"

\* A worker in sweep s and on ladder l has attachment a ahead of it, and knows its
\* status t unless it has yet to read it.
Holds(s, l, x, a, t) ==
    /\ s # NoSweep /\ s.of = x
    /\ \/ a \in s.unread
       \/ a \in s.page /\ Shown(s, a) = t
       \/ l # NoLadder /\ l.att = a /\ l.at = "delete" /\ l.seen = t

HoldsComment(s, c) == s # NoSweep /\ s.of = TheIssue /\ c \in s.unread \cup s.page

StrandInv ==
    /\ \A c \in Comments : issue = "gone" /\ CommentLive(c) =>
          Deleted(TheIssue) \in queue \/ \E w \in Workers : HoldsComment(sweep[w], c)
    /\ \A x \in Owner, a \in Attachments : OwnerGone(x) /\ SweptBy(x, a) =>
          \/ Deleted(x) \in queue
          \/ \E w \in Workers : Holds(sweep[w], ladder[w], x, a, attachment[a])

\* Without its owner an attachment is neither begun nor confirmed.
LEMMA Settled ==
  ASSUME Sound, [Next]_vars, NEW x \in Owner, NEW a \in Attachments,
         OwnerGone(x), SweptBy(x, a)'
  PROVE  attachment'[a] = attachment[a] /\ SweptBy(x, a)
<1>1. AttachmentStep(a)
  BY AttachmentSteps DEF Sound
<1>2. x # Unlinked
  BY UnlinkedAssumption DEF Owner, TheIssue
<1>3. ASSUME NEW c, ParentsLive(c), x = TheIssue \/ x = c PROVE FALSE
  BY <1>2, <1>3 DEF OwnerGone, ParentsLive, CommentLive, Owner
<1>4. x = TheIssue \/ comment_of'[a] = x
  BY DEF SweptBy, LinkedTo
<1>5. Exists(a)'
  BY DEF SweptBy
<1>6. ~ParentsLive(comment_of'[a])
  BY <1>3, <1>4
<1>7. attachment'[a] = attachment[a] /\ comment_of'[a] = comment_of[a]
  BY <1>1, <1>5, <1>6 DEF AttachmentStep, Exists, Statuses
<1> QED BY <1>4, <1>5, <1>7 DEF SweptBy, LinkedTo, Exists

\* On the ladder within a sweep: the row goes, or is still held, or the event is sent.
LEMMA RungHolds ==
  ASSUME Sound, NEW w \in Workers, NEW a \in Attachments, Rung(w),
         ladder[w].att = a, ladder[w].at = "delete", ladder[w].seen = attachment[a],
         attachment'[a] = attachment[a], Exists(a)
  PROVE  /\ ladder'[w] # NoLadder /\ ladder'[w].att = a /\ ladder'[w].at = "delete"
         /\ ladder'[w].seen = attachment[a]
<1>0. Typed /\ w \in Actors
  BY DEF Sound, Actors
<1>1. ladder[w] \in Climbing
  BY <1>0, BusyTyped DEF NoLadder
<1>2. ~Remove(a)
  BY <1>0 DEF Typed, Remove, Exists, Statuses
<1>3. CASE DeleteUploaded(w)
  <2>1. PICK y : ladder' = [ladder EXCEPT ![w].owners = @ \ {y}, ![w].left = @ - 1]
    BY <1>2, <1>3 DEF DeleteUploaded
  <2>2. /\ ladder'[w].att = a /\ ladder'[w].at = "delete"
        /\ ladder'[w].seen = ladder[w].seen
    BY <1>0, <1>1, <2>1 DEF Typed, Climbing
  <2> QED BY <2>2 DEF NoLadder
<1>4. ~DeletePending(w)
  BY <1>2 DEF DeletePending, StillPending
<1>5. ~Reread(w)
  BY DEF Reread
<1> QED BY <1>3, <1>4, <1>5 DEF Rung


LEMMA HoldStep ==
  ASSUME Sound, [Next]_vars, NEW x \in Owner, NEW a \in Attachments, NEW w \in Workers,
         OwnerGone(x), SweptBy(x, a)',
         Holds(sweep[w], ladder[w], x, a, attachment[a])
  PROVE  \/ Deleted(x) \in queue'
         \/ Holds(sweep'[w], ladder'[w], x, a, attachment'[a])
<1>0. Typed /\ AtWork /\ w \in Actors
  BY DEF Sound, Actors
<1>1. attachment'[a] = attachment[a] /\ SweptBy(x, a) /\ Exists(a)
  BY Settled DEF SweptBy
<1>2. sweep[w] \in Sweeping /\ sweep[w] # NoSweep /\ sweep[w].of = x
  BY <1>0, BusyTyped DEF Holds
<1>3. CASE GiveUp(w) \/ Crash(w)
  BY <1>2, <1>3 DEF GiveUp, Crash, Emit
<1>4. CASE sweep'[w] = sweep[w] /\ ~GiveUp(w) /\ ~Crash(w)
  <2>1. CASE ladder'[w] = ladder[w] \/ a \in sweep[w].unread
             \/ (a \in sweep[w].page /\ Shown(sweep[w], a) = attachment[a])
    BY <1>1, <1>4, <2>1 DEF Holds, Shown
  <2>2. CASE /\ ladder[w] # NoLadder /\ ladder[w].att = a /\ ladder[w].at = "delete"
             /\ ladder[w].seen = attachment[a] /\ ladder'[w] # ladder[w]
    <3>1. Rung(w)
      BY <1>0, <1>4, <2>2, LadderMoves, DisjointAssumption DEF SweepAttachment
    <3> QED BY <1>1, <1>2, <1>4, <2>2, <3>1, RungHolds DEF Holds
  <2> QED BY <2>1, <2>2 DEF Holds
<1>5. CASE \E page \in SUBSET sweep[w].unread : ReadPage(w, page)
  <2> PICK page \in SUBSET sweep[w].unread : ReadPage(w, page)
    BY <1>5
  <2>1. a \in sweep[w].unread
    BY DEF Holds, ReadPage
  <2>2. /\ sweep'[w].of = x /\ sweep'[w].unread = sweep[w].unread \ page
        /\ sweep'[w].page = {c \in page \cap Comments : CommentLive(c)}
                    \cup {b \in page \cap Attachments : SweptBy(sweep[w].of, b)}
        /\ sweep'[w].uploaded = {b \in page \cap Attachments : attachment[b] = "UPLOADED"}
    BY <1>0, <1>2 DEF Typed, ReadPage, Sweeping
  <2>3. sweep'[w] # NoSweep
    BY <1>0, <1>2 DEF Typed, ReadPage, Sweeping, NoSweep
  <2>4. CASE a \notin page
    BY <2>1, <2>2, <2>3, <2>4 DEF Holds
  <2>5. CASE a \in page
    <3>1. a \in sweep'[w].page
      BY <1>1, <1>2, <2>2, <2>5
    <3>2. Shown(sweep'[w], a) = attachment[a]
      BY <1>1, <2>2, <2>5 DEF Shown, Exists, Statuses
    <3> QED BY <1>1, <2>2, <2>3, <3>1, <3>2 DEF Holds
  <2> QED BY <2>4, <2>5
<1>6. CASE \E c \in Comments : SweepComment(w, c)
  <2> PICK c \in Comments : SweepComment(w, c)
    BY <1>6
  <2>1. sweep'[w] = [sweep[w] EXCEPT !.page = sweep[w].page \ {c}] /\ ladder'[w] = ladder[w]
    BY <1>0, <1>2 DEF Typed, SweepComment
  <2>2. a # c
    BY DisjointAssumption
  <2>3. /\ sweep'[w].of = x /\ sweep'[w].unread = sweep[w].unread
        /\ sweep'[w].page = sweep[w].page \ {c} /\ sweep'[w].uploaded = sweep[w].uploaded
    BY <1>2, <2>1 DEF Sweeping
  <2>4. sweep'[w] # NoSweep
    BY <1>2, <2>1 DEF Sweeping, NoSweep
  <2> QED BY <1>1, <2>1, <2>2, <2>3, <2>4 DEF Holds, Shown
<1>7. CASE \E b \in Attachments : SweepAttachment(w, b)
  <2> PICK b \in Attachments : SweepAttachment(w, b)
    BY <1>7
  <2>1. /\ sweep'[w] = [sweep[w] EXCEPT !.page = sweep[w].page \ {b}]
        /\ ladder[w] = NoLadder
        /\ ladder'[w] = Climb(b, Shown(sweep[w], b), Owners(b) \ {sweep[w].of})
    BY <1>0, <1>2 DEF Typed, SweepAttachment, Shown
  <2>2. /\ sweep'[w].of = x /\ sweep'[w].unread = sweep[w].unread
        /\ sweep'[w].page = sweep[w].page \ {b} /\ sweep'[w].uploaded = sweep[w].uploaded
    BY <1>2, <2>1 DEF Sweeping
  <2>3. sweep'[w] # NoSweep
    BY <1>2, <2>1 DEF Sweeping, NoSweep
  <2>4. ladder'[w].att = b /\ ladder'[w].at = "delete" /\ ladder'[w].seen = Shown(sweep[w], b)
        /\ ladder'[w] # NoLadder
    BY <2>1 DEF Climb, NoLadder
  <2> QED BY <1>1, <2>1, <2>2, <2>3, <2>4 DEF Holds, Shown
<1>8. ~(\E y \in Owner : Deliver(w, y)) /\ ~SkipLivePartition(w)
  BY <1>2 DEF Deliver, SkipLivePartition, LivePartition, OwnerGone
<1>9. ~FinishSweep(w)
  BY DEF FinishSweep, Holds
<1> QED BY <1>0, <1>3, <1>4, <1>5, <1>6, <1>7, <1>8, <1>9, SweepMoves

LEMMA HoldCommentStep ==
  ASSUME Sound, [Next]_vars, NEW c \in Comments, NEW w \in Workers,
         issue = "gone", CommentLive(c)', CommentLive(c), HoldsComment(sweep[w], c)
  PROVE  Deleted(TheIssue) \in queue' \/ HoldsComment(sweep'[w], c)
<1>0. Typed /\ AtWork
  BY DEF Sound
<1>2. sweep[w] \in Sweeping /\ sweep[w] # NoSweep /\ sweep[w].of = TheIssue
  BY <1>0, BusyTyped DEF HoldsComment
<1>3. CASE GiveUp(w) \/ Crash(w)
  BY <1>2, <1>3 DEF GiveUp, Crash, Emit
<1>4. CASE sweep'[w] = sweep[w]
  BY <1>4
<1>5. CASE \E page \in SUBSET sweep[w].unread : ReadPage(w, page)
  <2> PICK page \in SUBSET sweep[w].unread : ReadPage(w, page)
    BY <1>5
  <2>1. c \in sweep[w].unread
    BY DEF HoldsComment, ReadPage
  <2>2. /\ sweep'[w].of = TheIssue /\ sweep'[w].unread = sweep[w].unread \ page
        /\ sweep'[w].page = {d \in page \cap Comments : CommentLive(d)}
                    \cup {b \in page \cap Attachments : SweptBy(sweep[w].of, b)}
    BY <1>0, <1>2 DEF Typed, ReadPage, Sweeping
  <2>3. sweep'[w] # NoSweep
    BY <1>0, <1>2 DEF Typed, ReadPage, Sweeping, NoSweep
  <2> QED BY <2>1, <2>2, <2>3 DEF HoldsComment
<1>6. CASE \/ \E d \in Comments : SweepComment(w, d)
           \/ \E b \in Attachments : SweepAttachment(w, b)
  <2>1. PICK y : /\ sweep' = [sweep EXCEPT ![w].page = @ \ {y}]
                 /\ y # c
    <3>1. CASE \E d \in Comments : SweepComment(w, d)
      <4> PICK d \in Comments : SweepComment(w, d)
        BY <3>1
      <4>1. d # c
        BY <1>0 DEF Typed, SweepComment, CommentLive
      <4>2. sweep' = [sweep EXCEPT ![w].page = @ \ {d}]
        BY DEF SweepComment
      <4> QED BY <4>1, <4>2
    <3>2. CASE \E b \in Attachments : SweepAttachment(w, b)
      <4> PICK b \in Attachments : SweepAttachment(w, b)
        BY <3>2
      <4>1. sweep' = [sweep EXCEPT ![w].page = @ \ {b}]
        BY DEF SweepAttachment
      <4> QED BY <4>1, DisjointAssumption
    <3> QED BY <1>6, <3>1, <3>2
  <2>2. sweep'[w] = [sweep[w] EXCEPT !.page = sweep[w].page \ {y}]
    BY <1>0, <2>1 DEF Typed
  <2>3. /\ sweep'[w].of = TheIssue /\ sweep'[w].unread = sweep[w].unread
        /\ sweep'[w].page = sweep[w].page \ {y}
    BY <1>2, <2>2 DEF Sweeping
  <2>4. sweep'[w] # NoSweep
    BY <1>2, <2>2 DEF Sweeping, NoSweep
  <2> QED BY <2>1, <2>3, <2>4 DEF HoldsComment
<1>8. ~(\E y \in Owner : Deliver(w, y)) /\ ~SkipLivePartition(w) /\ ~FinishSweep(w)
  BY <1>2 DEF Deliver, SkipLivePartition, LivePartition, FinishSweep, HoldsComment
<1> QED BY <1>0, <1>3, <1>4, <1>5, <1>6, <1>8, SweepMoves

LEMMA StrandStep ==
  ASSUME Sound, PastInv, StrandInv, [Next]_vars PROVE StrandInv'
<1>0. Typed /\ IssueStep /\ \A c \in Comments : CommentStep(c)
  BY ParentSteps DEF Sound
<1>1. ASSUME NEW x \in Owner, Deleted(x) \in queue
      PROVE  Deleted(x) \in queue' \/ \E w \in Workers : sweep'[w] = SweepOf(x)
  BY <1>0, <1>1, EventFate
<1>2. ASSUME NEW c \in Comments, issue' = "gone", CommentLive(c)'
      PROVE  Deleted(TheIssue) \in queue' \/ \E w \in Workers : HoldsComment(sweep'[w], c)
  <2>1. CASE issue # "gone"
    BY <1>0, <1>2, <2>1 DEF IssueStep
  <2>2. CASE issue = "gone"
    <3>1. CommentLive(c)
      BY <1>0, <1>2, <2>2 DEF CommentStep, CommentLive
    <3>2. CASE Deleted(TheIssue) \in queue
      <4>1. HoldsComment(SweepOf(TheIssue), c)
        BY DEF HoldsComment, SweepOf, NoSweep
      <4> QED BY <1>1, <3>2, <4>1 DEF Owner
    <3>3. CASE \E w \in Workers : HoldsComment(sweep[w], c)
      BY <1>2, <2>2, <3>1, <3>3, HoldCommentStep
    <3> QED BY <2>2, <3>1, <3>2, <3>3 DEF StrandInv
  <2> QED BY <2>1, <2>2
<1>3. ASSUME NEW x \in Owner, NEW a \in Attachments, OwnerGone(x)', SweptBy(x, a)'
      PROVE  \/ Deleted(x) \in queue'
             \/ \E w \in Workers : Holds(sweep'[w], ladder'[w], x, a, attachment'[a])
  <2>1. CASE ~OwnerGone(x)
    BY <1>0, <1>3, <2>1 DEF IssueStep, CommentStep, OwnerGone, Owner
  <2>2. CASE OwnerGone(x)
    <3>1. SweptBy(x, a)
      BY <1>3, <2>2, Settled
    <3>2. CASE Deleted(x) \in queue
      <4>1. \A l : Holds(SweepOf(x), l, x, a, attachment'[a])
        BY DEF Holds, SweepOf, NoSweep
      <4> QED BY <1>1, <3>2, <4>1
    <3>3. CASE \E w \in Workers : Holds(sweep[w], ladder[w], x, a, attachment[a])
      BY <1>3, <2>2, <3>3, HoldStep
    <3> QED BY <2>2, <3>1, <3>2, <3>3 DEF StrandInv
  <2> QED BY <2>1, <2>2
<1> QED BY <1>2, <1>3 DEF StrandInv, Deleted, OwnerGone, SweptBy, LinkedTo, Exists,
                          CommentLive, Holds, HoldsComment, Shown

\* Whatever dies, is delivered twice, or is written between a page and the delete
\* that follows it, no row outlives its Issue, nor an attachment its comment,
\* beyond the sweep of handle_issue_deleted or handle_issue_comment_deleted.
THEOREM NoRowIsStranded == Spec => []NoStrandedRow
<1>1. Init => StrandInv
  BY DEF Init, StrandInv, OwnerGone, SweptBy, Exists, Statuses, CommentLive
<1>2. Sound /\ PastInv /\ StrandInv /\ [Next]_vars => StrandInv'
  BY StrandStep
<1>3. Typed /\ StrandInv => NoStrandedRow
  <2> SUFFICES ASSUME Typed, StrandInv PROVE NoStrandedRow
    OBVIOUS
  <2>1. ASSUME NEW c \in Comments, issue = "gone", CommentLive(c)
        PROVE  SweepAhead(TheIssue, c)
    BY <2>1 DEF StrandInv, SweepAhead, HoldsComment
  <2>2. ASSUME NEW x \in Owner, NEW a \in Attachments, OwnerGone(x), SweptBy(x, a)
        PROVE  SweepAhead(x, a)
    BY <2>2 DEF StrandInv, SweepAhead, Holds
  <2>3. ASSUME NEW a \in Attachments, issue = "gone", Exists(a)
        PROVE  SweepAhead(TheIssue, a)
    BY <2>2, <2>3 DEF OwnerGone, SweptBy, Owner
  <2>4. ASSUME NEW a \in Attachments, Exists(a), Linked(a), comment[comment_of[a]] = "gone"
        PROVE  SweepAhead(comment_of[a], a)
    <3>1. comment_of[a] \in Comments
      BY <2>4 DEF Typed, Linked
    <3>2. comment_of[a] # TheIssue
      BY <3>1, TheIssueAssumption DEF TheIssue
    <3>3. OwnerGone(comment_of[a]) /\ SweptBy(comment_of[a], a)
      BY <2>4, <3>2 DEF OwnerGone, SweptBy, LinkedTo
    <3> QED BY <2>2, <3>1, <3>3 DEF Owner
  <2> QED BY <2>1, <2>3, <2>4 DEF NoStrandedRow
<1> QED BY <1>1, <1>2, <1>3, Pages, PTL DEF Spec, Sound

-----------------------------------------------------------------------------
(***************************************************************************)
(* How the ladder ends, with reads that may lag                            *)
(***************************************************************************)
\* Whoever returns from the ladder has seen the row go, or gone, or has read it
\* again from a copy without it.
LEMMA ReturnSeesItGo ==
  ASSUME Sound, PastInv, [Next]_vars
  PROVE  [\A d \in Callers : Returns(d) =>
             \/ attachment'[ladder[d].att] = "gone"
             \/ ladder[d].at = "reread" /\ replica[ladder[d].att] = "unborn"]_vars
<1> SUFFICES ASSUME NEW d \in Callers, Rung(d), ladder'[d] = NoLadder
             PROVE  \/ attachment'[ladder[d].att] = "gone"
                    \/ ladder[d].at = "reread" /\ replica[ladder[d].att] = "unborn"
  BY DEF Returns
<1>0. Typed /\ d \in Actors
  BY DEF Sound, Actors
<1>1. ladder[d] \in Climbing
  <2>1. ladder[d].at \in {"delete", "reread"}
    BY DEF Rung, DeleteUploaded, DeletePending, Reread
  <2> QED BY <1>0, <2>1, BusyTyped DEF NoLadder
<1>2. /\ ladder[d].att \in Attachments /\ ladder[d].seen \in Statuses
      /\ Past(ladder[d].seen, attachment[ladder[d].att])
      /\ Past(replica[ladder[d].att], attachment[ladder[d].att])
  BY <1>0, <1>1 DEF Climbing, PastInv, LadderOK, NoLadder, Sound, ReplicaPast
<1>3. Remove(ladder[d].att) => attachment'[ladder[d].att] = "gone"
  BY <1>0, <1>2 DEF Typed, Remove
<1>4. CASE DeleteUploaded(d)
  <2>1. ~\E y : ladder' = [ladder EXCEPT ![d].owners = @ \ {y}, ![d].left = @ - 1]
    <3> SUFFICES ASSUME NEW y,
                        ladder' = [ladder EXCEPT ![d].owners = @ \ {y}, ![d].left = @ - 1]
                 PROVE  FALSE
      OBVIOUS
    <3>1. ladder'[d].at = ladder[d].at
      BY <1>0, <1>1 DEF Typed, Climbing
    <3> QED BY <1>4, <3>1 DEF DeleteUploaded, NoLadder
  <2> QED BY <1>2, <1>3, <1>4, <2>1 DEF DeleteUploaded, Past
<1>5. CASE DeletePending(d)
  <2>1. Refused(ladder[d]) # NoLadder
    BY <1>1 DEF Refused, Climbing, NoLadder
  <2> QED BY <1>0, <1>3, <1>5, <2>1 DEF Typed, DeletePending
<1>6. CASE Reread(d)
  <2> DEFINE again(seen) == Again(ladder[d], seen)
  <2>1. PICK seen \in View(ladder[d].att) :
           ladder' = [ladder EXCEPT ![d] = IF seen \in Statuses THEN again(seen)
                                           ELSE NoLadder]
    BY <1>6 DEF Reread
  <2>2. again(seen) # NoLadder
    BY <1>1 DEF Climbing, NoLadder, Again
  <2>3. seen \in {attachment[ladder[d].att], replica[ladder[d].att]}
    BY DEF View
  <2>4. seen \notin Statuses
    BY <1>0, <2>1, <2>2 DEF Typed
  <2>5. attachment[ladder[d].att] = "gone" \/ replica[ladder[d].att] = "unborn"
    BY <1>0, <1>2, <2>3, <2>4 DEF Typed, Past, Statuses
  <2>6. UNCHANGED attachment /\ ladder[d].at = "reread"
    BY <1>6 DEF Reread, rows
  <2> QED BY <2>5, <2>6
<1> QED BY <1>4, <1>5, <1>6 DEF Rung

\* A delete_issue_attachment that returns leaves no row behind, but for the one
\* whose re-read was answered by a copy that had not got the row yet.
THEOREM DeletesLeaveNoRow == Spec => DeletesUnlessMissed
<1>1. Sound /\ PastInv /\ [Next]_vars
         => [\A d \in Callers : Returns(d) =>
                \/ attachment'[ladder[d].att] = "gone"
                \/ ladder[d].at = "reread" /\ replica[ladder[d].att] = "unborn"]_vars
  BY ReturnSeesItGo
<1> QED BY <1>1, Pages, PTL DEF Spec, DeletesUnlessMissed

\* Until a re-read lags, what a ladder may still drop, and one refusal of a delete
\* that saw the row PENDING, are fewer than its attempts.
Enough(l) ==
    l # NoLadder =>
       /\ IsFiniteSet(l.owners)
       /\ l.at = "reread" => l.seen = "PENDING"
       /\ ~l.lagged =>
             Cardinality(l.owners) + (IF l.seen = "PENDING" THEN 1 ELSE 0) < l.left

\* Once refused, a row is PENDING no more.
Refuted(l) == l # NoLadder /\ l.at = "reread" => attachment[l.att] \notin {"unborn", "PENDING"}

LadderInv == \A d \in Actors : Enough(ladder[d]) /\ Refuted(ladder[d])

LEMMA FewOwners ==
  ASSUME NEW a \in Attachments, NEW x
  PROVE  /\ IsFiniteSet(Owners(a)) /\ Cardinality(Owners(a)) \in 0 .. 2
         /\ IsFiniteSet(Owners(a) \ {x}) /\ Cardinality(Owners(a) \ {x}) \in 0 .. 2
<1>1. IsFiniteSet({TheIssue}) /\ Cardinality({TheIssue}) = 1
  BY FS_Singleton
<1>2. IsFiniteSet(Owners(a)) /\ Cardinality(Owners(a)) \in 0 .. 2
  <2>1. Owners(a) = {TheIssue} \/ Owners(a) = {TheIssue} \cup {comment_of[a]}
    BY DEF Owners
  <2> QED BY <1>1, <2>1, FS_AddElement
<1>3. IsFiniteSet(Owners(a) \ {x}) /\ Cardinality(Owners(a) \ {x}) <= Cardinality(Owners(a))
  BY <1>2, FS_Subset
<1>4. Cardinality(Owners(a) \ {x}) \in Nat
  BY <1>3, FS_CardinalityType
<1> QED BY <1>2, <1>3, <1>4

LEMMA LadderStep ==
  ASSUME Sound, PastInv, LadderInv, [Next]_vars, NEW d \in Actors
  PROVE  Enough(ladder'[d]) /\
         (ladder'[d] # NoLadder /\ ladder'[d].at = "reread"
             => attachment'[ladder'[d].att] \notin {"unborn", "PENDING"})
<1>0. Typed /\ AtWork /\ Enough(ladder[d]) /\ Refuted(ladder[d])
  BY DEF Sound, LadderInv
<1>1. \A a \in Attachments : AttachmentStep(a)
  BY <1>0, AttachmentSteps
<1>2. CASE ladder'[d] = ladder[d]
  <2>1. ladder[d] # NoLadder => ladder[d].att \in Attachments
    BY <1>0, BusyTyped DEF Climbing
  <2> QED BY <1>0, <1>1, <1>2, <2>1 DEF Refuted, AttachmentStep, Exists, Statuses
<1>3. ASSUME NEW a \in Attachments, NEW x, NEW seen \in Statuses, NEW owners,
             owners = Owners(a) \/ owners = Owners(a) \ {x},
             ladder'[d] = Climb(a, seen, owners)
      PROVE  Enough(ladder'[d]) /\ ladder'[d].at = "delete"
  <2>1. IsFiniteSet(owners) /\ Cardinality(owners) \in 0 .. 2
    BY <1>3, FewOwners
  <2>2. /\ ladder'[d].owners = owners /\ ladder'[d].seen = seen
        /\ ladder'[d].at = "delete" /\ ladder'[d].left = 4
    BY <1>3 DEF Climb, ATTEMPTS
  <2> QED BY <2>1, <2>2 DEF Enough
<1>4. CASE d \in Callers /\ \E a \in Attachments : DeleteIssueAttachment(d, a)
  <2> PICK a \in Attachments : DeleteIssueAttachment(d, a)
    BY <1>4
  <2> PICK seen \in View(a) \cap Statuses :
           ladder' = [ladder EXCEPT ![d] = Climb(a, seen, Owners(a))]
    BY DEF DeleteIssueAttachment
  <2>1. ladder'[d] = Climb(a, seen, Owners(a))
    BY <1>0 DEF Typed
  <2> QED BY <1>3, <2>1
<1>5. CASE d \in Workers /\ \E a \in Attachments : SweepAttachment(d, a)
  <2> PICK a \in Attachments : SweepAttachment(d, a)
    BY <1>5
  <2>1. ladder'[d] = Climb(a, Shown(sweep[d], a), Owners(a) \ {sweep[d].of})
    BY <1>0 DEF Typed, SweepAttachment, Shown
  <2>2. Shown(sweep[d], a) \in Statuses
    BY DEF Shown, Statuses
  <2> QED BY <1>3, <2>1, <2>2
<1>6. CASE GiveUp(d) \/ (d \in Workers /\ Crash(d))
  BY <1>0, <1>6 DEF Typed, GiveUp, Crash, Enough
<1>7. CASE DeleteUploaded(d)
  <2>0. ladder[d] \in Climbing /\ ladder[d] # NoLadder /\ ladder[d].at = "delete"
    BY <1>0, <1>7, BusyTyped DEF DeleteUploaded, NoLadder
  <2>1. CASE ladder' = [ladder EXCEPT ![d] = NoLadder]
    BY <1>0, <2>1 DEF Typed, Enough
  <2>2. CASE /\ Missing(ladder[d].owners) # {}
             /\ ladder' = [ladder EXCEPT
                   ![d].owners = @ \ {Dropped(Missing(ladder[d].owners))},
                   ![d].left = @ - 1]
    <3> DEFINE y == Dropped(Missing(ladder[d].owners))
    <3>1. y \in ladder[d].owners
      BY <2>2 DEF Dropped, Missing
    <3> HIDE DEF y
    <3>2. /\ ladder'[d].owners = ladder[d].owners \ {y}
          /\ ladder'[d].left = ladder[d].left - 1
          /\ ladder'[d].seen = ladder[d].seen /\ ladder'[d].at = "delete"
          /\ ladder'[d].lagged = ladder[d].lagged
      BY <1>0, <2>0, <2>2 DEF Typed, Climbing, y
    <3>3. IsFiniteSet(ladder[d].owners)
      BY <1>0, <2>0 DEF Enough
    <3>4. /\ IsFiniteSet(ladder[d].owners \ {y})
          /\ Cardinality(ladder[d].owners \ {y}) = Cardinality(ladder[d].owners) - 1
      BY <3>1, <3>3, FS_RemoveElement
    <3>5. Cardinality(ladder[d].owners) \in Nat /\ ladder[d].left \in Int
      BY <2>0, <3>3, FS_CardinalityType DEF Climbing
    <3> QED BY <1>0, <2>0, <3>2, <3>4, <3>5 DEF Enough
  <2> QED BY <1>7, <2>1, <2>2 DEF DeleteUploaded
<1>8. CASE DeletePending(d)
  <2>0. ladder[d] \in Climbing /\ ladder[d] # NoLadder /\ ladder[d].seen = "PENDING"
    BY <1>0, <1>8, BusyTyped DEF DeletePending, NoLadder
  <2>1. CASE ladder' = [ladder EXCEPT ![d] = NoLadder]
    BY <1>0, <2>1 DEF Typed, Enough
  <2>2. CASE /\ ladder' = [ladder EXCEPT ![d] = Refused(ladder[d])]
             /\ attachment[ladder[d].att] # "PENDING" /\ UNCHANGED attachment
    <3>1. /\ ladder'[d].owners = ladder[d].owners /\ ladder'[d].left = ladder[d].left
          /\ ladder'[d].seen = ladder[d].seen /\ ladder'[d].att = ladder[d].att
          /\ ladder'[d].lagged = ladder[d].lagged
      BY <1>0, <2>0, <2>2 DEF Typed, Refused, Climbing
    <3>2. attachment[ladder[d].att] # "unborn"
      BY <2>0 DEF PastInv, LadderOK, Past
    <3> QED BY <1>0, <2>0, <2>2, <3>1, <3>2 DEF Enough
  <2> QED BY <1>8, <2>1, <2>2 DEF DeletePending, StillPending
<1>9. CASE Reread(d)
  <2>0. ladder[d] \in Climbing /\ ladder[d] # NoLadder /\ ladder[d].at = "reread"
    BY <1>0, <1>9, BusyTyped DEF Reread, NoLadder
  <2> DEFINE again(seen) == Again(ladder[d], seen)
  <2>1. PICK seen \in View(ladder[d].att) :
           ladder' = [ladder EXCEPT ![d] = IF seen \in Statuses THEN again(seen)
                                           ELSE NoLadder]
    BY <1>9 DEF Reread
  <2>3. CASE seen \notin Statuses
    BY <1>0, <2>1, <2>3 DEF Typed, Enough
  <2>4. CASE seen \in Statuses
    <3>1. ladder'[d] = again(seen)
      BY <1>0, <2>1, <2>4 DEF Typed
    <3>2. /\ ladder'[d].owners = ladder[d].owners /\ ladder'[d].left = ladder[d].left - 1
          /\ ladder'[d].seen = seen /\ ladder'[d].at = "delete"
          /\ ~ladder'[d].lagged =>
                ~ladder[d].lagged /\ seen = attachment[ladder[d].att]
      BY <2>0, <3>1 DEF Climbing, Again
    <3>3. /\ ladder[d].seen = "PENDING"
          /\ ~ladder'[d].lagged => seen # "PENDING"
      BY <1>0, <2>0, <3>2 DEF Refuted, Enough
    <3>4. IsFiniteSet(ladder[d].owners) /\ ladder[d].left \in Int
      BY <1>0, <2>0 DEF Enough, Climbing
    <3>5. Cardinality(ladder[d].owners) \in Nat
      BY <3>4, FS_CardinalityType
    <3> QED BY <1>0, <2>0, <3>2, <3>3, <3>4, <3>5 DEF Enough
  <2> QED BY <2>3, <2>4
<1> QED BY <1>0, <1>2, <1>4, <1>5, <1>6, <1>7, <1>8, <1>9, LadderMoves DEF Rung

\* ATTACHMENT_DELETE_ATTEMPTS is enough but for a re-read that lags: one attempt for
\* each counter that may be gone, one for a confirm that comes between, and one to
\* succeed.
THEOREM AttemptsSuffice == Spec => []LadderSuffices
<1>1. Init => LadderInv
  BY DEF Init, LadderInv, Enough, Refuted
<1>2. Sound /\ PastInv /\ LadderInv /\ [Next]_vars => LadderInv'
  BY LadderStep DEF LadderInv, Enough, Refuted
<1>3. Sound /\ LadderInv => LadderSuffices
  <2> SUFFICES ASSUME Sound, LadderInv, NEW d \in Callers \cup Workers,
                      ladder[d] # NoLadder, ~ladder[d].lagged
               PROVE  ladder[d].left # 0
    BY DEF LadderSuffices, Actors
  <2>1. ladder[d] \in Climbing /\ Enough(ladder[d])
    BY BusyTyped DEF Sound, LadderInv, Actors
  <2>2. Cardinality(ladder[d].owners) \in Nat /\ ladder[d].left \in Int
    BY <2>1, FS_CardinalityType DEF Enough, Climbing
  <2> QED BY <2>1, <2>2 DEF Enough
<1> QED BY <1>1, <1>2, <1>3, Pages, PTL DEF Spec
=============================================================================
