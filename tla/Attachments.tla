---------------------------- MODULE Attachments ----------------------------
(***************************************************************************)
(* The comments and attachments of one Issue: mixins/comment.py and        *)
(* mixins/attachment.py over DynamoDB, S3, DynamoDB's TTL and the event     *)
(* path.                                                                   *)
(*                                                                         *)
(* The Issue counts its comments and its UPLOADED attachments; a comment    *)
(* counts the UPLOADED attachments linked to it.  An attachment is PENDING  *)
(* until a confirm finds its object in S3.  Rows are deleted by clients,    *)
(* by TTL and by two sweeps, all of them through a ladder of conditional    *)
(* transactions; the object goes last, when the event of the row's delete   *)
(* arrives.                                                                *)
(*                                                                         *)
(* One partition is enough: no operation here touches two Issues.  Comment  *)
(* and attachment ids are UUIDv7 and never drawn twice.  The Issue's own id *)
(* is short and may be drawn again for a new Issue, which then finds in its *)
(* partition what the sweep of the old one has not removed.                 *)
(*                                                                         *)
(* A definition named Mutant... is the one that follows it with a           *)
(* plausible bug put in; nothing else uses it.                              *)
(***************************************************************************)
EXTENDS Integers, FiniteSets

CONSTANTS
    Comments,     \* comment ids
    Attachments,  \* attachment ids
    Unlinked,     \* the comment_id of an attachment of the Issue itself
    Callers,      \* concurrent calls of delete_issue_attachment
    Workers,      \* concurrent executions of the event consumer
    MaxReuse,     \* times the Issue's id is drawn again
    MaxFaults     \* crashes of a handler plus duplicate deliveries, in all

ASSUME FiniteAssumption == IsFiniteSet(Comments) /\ IsFiniteSet(Attachments)
ASSUME DisjointAssumption == Comments \cap Attachments = {} /\ Callers \cap Workers = {}
ASSUME UnlinkedAssumption == Unlinked \notin Comments \cup {"issue"}
ASSUME TheIssueAssumption == "issue" \notin Comments \cup Attachments
ASSUME BoundsAssumption == MaxFaults \in Nat /\ MaxReuse \in Nat

VARIABLES
    issue,            \* the IssueInfo row: live or not
    reused,           \* times the Issue's id was drawn again, at most MaxReuse
    tainted,          \* history: the Issue that stands met what the last one left
    num_comments,     \* IssueInfo.num_comments
    num_attachments,  \* IssueInfo.num_attachments, and a comment's under its id
    comment,          \* IssueComment rows: "unborn", "live" or "gone"
    attachment,       \* IssueAttachment rows: "unborn", a status, or "gone"
    comment_of,       \* IssueAttachment.comment_id, set when its row is written
    replica,          \* the copy of them a get_item may answer from
    post,             \* presigned POSTs a caller still holds, by attachment
    object,           \* objects in S3
    late,             \* history: attachments POSTed after their row had gone
    confirming,       \* confirms between HeadObject and their transaction
    ladder,           \* the delete_attachment_with_counters each actor is in
    queue,            \* events on their way to a worker
    sweep,            \* the sweep each worker is in
    faults            \* faults so far, at most MaxFaults

identity == <<issue, reused, tainted>>
rows == <<identity, num_comments, num_attachments, comment, attachment, comment_of>>
storage == <<post, object, late>>
vars == <<rows, replica, storage, confirming, ladder, queue, sweep, faults>>

Actors == Callers \cup Workers
Statuses == {"PENDING", "UPLOADED"}
TheIssue == "issue"

Linked(a) == comment_of[a] # Unlinked
LinkedTo(x) == {a \in Attachments : comment_of[a] = x}
Exists(a) == attachment[a] \in Statuses
CommentLive(c) == comment[c] = "live"

\* Events: the sweep of a deleted Issue or comment, or the object of an attachment.
Events == [of : {TheIssue} \cup Comments \cup Attachments]
Deleted(x) == [of |-> x]
Emit(events) == queue' = queue \cup events

NoLadder == [at |-> "none"]
NoSweep == [of |-> "none"]

\* ATTACHMENT_DELETE_ATTEMPTS
MutantATTEMPTS == 3
ATTEMPTS == 4

Init ==
    /\ issue = "live" /\ reused = 0 /\ tainted = FALSE
    /\ num_comments = 0
    /\ num_attachments = [x \in {TheIssue} \cup Comments |-> 0]
    /\ comment = [c \in Comments |-> "unborn"]
    /\ attachment = [a \in Attachments |-> "unborn"]
    /\ comment_of = [a \in Attachments |-> Unlinked]
    /\ replica = attachment
    /\ post = {} /\ object = {} /\ late = {}
    /\ confirming = {}
    /\ ladder = [d \in Actors |-> NoLadder]
    /\ queue = {}
    /\ sweep = [w \in Workers |-> NoSweep]
    /\ faults = 0

-----------------------------------------------------------------------------
(***************************************************************************)
(* Comments and the Issue                                                  *)
(***************************************************************************)
CreateIssueComment(c) ==
    /\ issue = "live" /\ comment[c] = "unborn"
    /\ comment' = [comment EXCEPT ![c] = "live"]
    /\ num_comments' = num_comments + 1
    /\ UNCHANGED <<identity, num_attachments, attachment, comment_of, replica,
                   storage, confirming, ladder, queue, sweep, faults>>

\* Without its Issue the delete is refused and the row left to the sweep.
MutantDeletable(c) == issue = "live" /\ comment[c] # "unborn"
Deletable(c) == issue = "live" /\ CommentLive(c)

DeleteIssueComment(c) ==
    /\ Deletable(c)
    /\ comment' = [comment EXCEPT ![c] = "gone"]
    /\ num_comments' = num_comments - 1
    /\ Emit({Deleted(c)})
    /\ UNCHANGED <<identity, num_attachments, attachment, comment_of, replica,
                   storage, confirming, ladder, sweep, faults>>

DeleteIssue ==
    /\ issue = "live"
    /\ issue' = "gone"
    /\ Emit({Deleted(TheIssue)})
    /\ UNCHANGED <<reused, tainted, num_comments, num_attachments, comment, attachment,
                   comment_of, replica, storage, confirming, ladder, sweep, faults>>

\* A sweep of the Issue that is past its first page no longer looks for its row.
PastFirstPage(w) ==
    /\ sweep[w] # NoSweep /\ sweep[w].of = TheIssue
    /\ sweep[w].unread # Comments \cup Attachments

\* create_issue draws the id of an Issue that is gone.
CreateIssue ==
    /\ issue = "gone" /\ reused < MaxReuse
    /\ issue' = "live" /\ reused' = reused + 1
    /\ tainted' = (\/ \E c \in Comments : CommentLive(c)
                   \/ \E a \in Attachments : Exists(a)
                   \/ \E w \in Workers : PastFirstPage(w))
    /\ num_comments' = 0
    /\ num_attachments' = [num_attachments EXCEPT ![TheIssue] = 0]
    /\ UNCHANGED <<comment, attachment, comment_of, replica, storage, confirming, ladder,
                   queue, sweep, faults>>

-----------------------------------------------------------------------------
(***************************************************************************)
(* Uploads                                                                 *)
(***************************************************************************)
\* The ConditionChecks on the Issue and on the named comment.
MutantParentsLive(c) == issue = "live"
ParentsLive(c) == issue = "live" /\ (c # Unlinked => CommentLive(c))

InitiateUpload(a, c) ==
    /\ attachment[a] = "unborn" /\ ParentsLive(c)
    /\ attachment' = [attachment EXCEPT ![a] = "PENDING"]
    /\ comment_of' = [comment_of EXCEPT ![a] = c]
    /\ post' = post \cup {a}
    /\ UNCHANGED <<identity, num_comments, num_attachments, comment, replica, object, late,
                   confirming, ladder, queue, sweep, faults>>

\* What get_primary_item may return: the row, or an older state of it.
View(a) == {attachment[a], replica[a]}

ResignUpload(a) ==
    /\ "PENDING" \in View(a)
    /\ a \notin post
    /\ post' = post \cup {a}
    /\ UNCHANGED <<rows, replica, object, late, confirming, ladder, queue, sweep, faults>>

\* The caller POSTs the bytes to S3, which knows the signature, not the row.
Upload(a) ==
    /\ a \in post /\ a \notin object
    /\ object' = object \cup {a}
    /\ late' = IF Exists(a) THEN late ELSE late \cup {a}
    /\ UNCHANGED <<rows, replica, post, confirming, ladder, queue, sweep, faults>>

\* PRESIGN_EXPIRY_SECONDS after signing.
PostExpires(a) ==
    /\ a \in post
    /\ post' = post \ {a}
    /\ UNCHANGED <<rows, replica, object, late, confirming, ladder, queue, sweep, faults>>

\* confirm_issue_attachment_uploaded: the read, whatever its status, and the head.
MutantHeaded(a) == TRUE
Headed(a) == a \in object

ConfirmRead(a) ==
    /\ View(a) \cap Statuses # {} /\ Headed(a)
    /\ a \notin confirming
    /\ confirming' = confirming \cup {a}
    /\ UNCHANGED <<rows, replica, storage, ladder, queue, sweep, faults>>

MutantConfirmable(a) == attachment[a] \in Statuses /\ ParentsLive(comment_of[a])
Confirmable(a) == attachment[a] = "PENDING" /\ ParentsLive(comment_of[a])

\* The owners that count attachment a.
Owners(a) == {TheIssue} \cup (IF Linked(a) THEN {comment_of[a]} ELSE {})
Count(owners, d) ==
    num_attachments' =
       [x \in DOMAIN num_attachments |->
           IF x \in owners THEN num_attachments[x] + d ELSE num_attachments[x]]

ConfirmWrite(a) ==
    /\ a \in confirming
    /\ confirming' = confirming \ {a}
    /\ IF Confirmable(a)
         THEN /\ attachment' = [attachment EXCEPT ![a] = "UPLOADED"]
              /\ Count(Owners(a), 1)
         ELSE UNCHANGED <<attachment, num_attachments>>
    /\ UNCHANGED <<identity, num_comments, comment, comment_of, replica, storage, ladder,
                   queue, sweep, faults>>

\* DynamoDB deletes a PENDING row past its expires_at, no condition of ours.
TTLExpires(a) ==
    /\ attachment[a] = "PENDING"
    /\ attachment' = [attachment EXCEPT ![a] = "gone"]
    /\ Emit({Deleted(a)})
    /\ UNCHANGED <<identity, num_comments, num_attachments, comment, comment_of, replica,
                   storage, confirming, ladder, sweep, faults>>

Propagate(a) ==
    /\ replica[a] # attachment[a]
    /\ replica' = [replica EXCEPT ![a] = attachment[a]]
    /\ UNCHANGED <<rows, storage, confirming, ladder, queue, sweep, faults>>

-----------------------------------------------------------------------------
(***************************************************************************)
(* delete_attachment_with_counters, run by callers and by sweeps.           *)
(***************************************************************************)
\* lagged is history: a re-read of this ladder was answered by a lagging copy.
Climb(a, seen, owners) ==
    [at |-> "delete", att |-> a, seen |-> seen, owners |-> owners, left |-> ATTEMPTS,
     lagged |-> FALSE]

\* The row goes, and the stream sees it go.
Remove(a) ==
    /\ attachment' = [attachment EXCEPT ![a] = "gone"]
    /\ Emit({Deleted(a)})

\* The counters of owners whose own row is gone.
Missing(owners) ==
    {x \in owners : IF x = TheIssue THEN issue # "live" ELSE ~CommentLive(x)}

\* The first counter whose update is refused is dropped: the Issue's comes first.
Dropped(owners) == IF TheIssue \in owners THEN TheIssue ELSE CHOOSE x \in owners : TRUE

\* delete_issue_attachment reads the row and enters the ladder with it.
DeleteIssueAttachment(d, a) ==
    /\ ladder[d] = NoLadder
    /\ \E seen \in View(a) \cap Statuses :
          ladder' = [ladder EXCEPT ![d] = Climb(a, seen, Owners(a))]
    /\ UNCHANGED <<rows, replica, storage, confirming, queue, sweep, faults>>

\* Seen UPLOADED: a delete with every decrement still asked for.  A refused
\* Delete means someone else removed the row, and counted it out.
DeleteUploaded(d) ==
    LET l == ladder[d] a == ladder[d].att IN
    /\ l.at = "delete" /\ l.left > 0 /\ l.seen = "UPLOADED"
    /\ \/ /\ attachment[a] # "UPLOADED"
          /\ ladder' = [ladder EXCEPT ![d] = NoLadder]
          /\ UNCHANGED <<attachment, num_attachments, queue>>
       \/ /\ attachment[a] = "UPLOADED" /\ Missing(l.owners) = {}
          /\ Remove(a)
          /\ Count(l.owners, -1)
          /\ ladder' = [ladder EXCEPT ![d] = NoLadder]
       \/ /\ attachment[a] = "UPLOADED" /\ Missing(l.owners) # {}
          /\ ladder' = [ladder EXCEPT ![d].owners = @ \ {Dropped(Missing(l.owners))},
                                      ![d].left = @ - 1]
          /\ UNCHANGED <<attachment, num_attachments, queue>>
    /\ UNCHANGED <<identity, num_comments, comment, comment_of, replica, storage, confirming,
                   sweep, faults>>

\* The condition of pending_attachment_delete; its mutant deletes blind.
MutantStillPending(a) == Exists(a)
StillPending(a) == attachment[a] = "PENDING"

\* Seen PENDING: a delete with no decrement; refused, the row is read again.
MutantRefused(l) == NoLadder
Refused(l) == [l EXCEPT !.at = "reread"]

DeletePending(d) ==
    LET l == ladder[d] a == ladder[d].att IN
    /\ l.at = "delete" /\ l.left > 0 /\ l.seen = "PENDING"
    /\ IF StillPending(a)
         THEN Remove(a) /\ ladder' = [ladder EXCEPT ![d] = NoLadder]
         ELSE ladder' = [ladder EXCEPT ![d] = Refused(l)] /\ UNCHANGED <<attachment, queue>>
    /\ UNCHANGED <<identity, num_comments, num_attachments, comment, comment_of, replica,
                   storage, confirming, sweep, faults>>

\* Back to the delete with the row as it was read again, one attempt spent.
Again(l, seen) ==
    [l EXCEPT !.at = "delete", !.seen = seen, !.left = @ - 1,
              !.lagged = @ \/ seen # attachment[l.att]]

Reread(d) ==
    /\ ladder[d].at = "reread"
    /\ \E seen \in View(ladder[d].att) :
          ladder' = [ladder EXCEPT ![d] = IF seen \in Statuses THEN Again(@, seen)
                                          ELSE NoLadder]
    /\ UNCHANGED <<rows, replica, storage, confirming, queue, sweep, faults>>

Rung(d) == DeleteUploaded(d) \/ DeletePending(d) \/ Reread(d)

\* Out of attempts: an error to a caller, a redelivery for a sweep.
GiveUp(d) ==
    /\ ladder[d].at = "delete" /\ ladder[d].left = 0
    /\ ladder' = [ladder EXCEPT ![d] = NoLadder]
    /\ IF d \in Workers
         THEN /\ Emit({Deleted(sweep[d].of)})
              /\ sweep' = [sweep EXCEPT ![d] = NoSweep]
         ELSE UNCHANGED <<queue, sweep>>
    /\ UNCHANGED <<rows, replica, storage, confirming, faults>>

-----------------------------------------------------------------------------
(***************************************************************************)
(* The event consumer                                                      *)
(***************************************************************************)
\* Both sweeps page the whole partition; handle_issue_comment_deleted acts on no
\* comment, and on the attachments linked to its own.
MutantSweepOf(x) == [of |-> x, unread |-> Comments, page |-> {}, uploaded |-> {}]
SweepOf(x) ==
    [of |-> x,
     unread |-> IF x = TheIssue THEN Comments \cup Attachments ELSE Attachments,
     page |-> {}, uploaded |-> {}]

SweptBy(x, a) == Exists(a) /\ (x = TheIssue \/ a \in LinkedTo(x))

Deliver(w, x) ==
    /\ sweep[w] = NoSweep /\ Deleted(x) \in queue
    /\ sweep' = [sweep EXCEPT ![w] = SweepOf(x)]
    /\ \/ queue' = queue \ {Deleted(x)} /\ UNCHANGED faults
       \/ faults < MaxFaults /\ faults' = faults + 1 /\ UNCHANGED queue
    /\ UNCHANGED <<rows, replica, storage, confirming, ladder>>

\* The info row comes first, so the first page of the Issue's sweep shows an Issue
\* that has taken the id since: its rows are left alone.
MutantLivePartition(w) == FALSE
LivePartition(w) ==
    sweep[w].of = TheIssue /\ ~PastFirstPage(w) /\ issue = "live"

SkipLivePartition(w) ==
    /\ sweep[w] # NoSweep /\ LivePartition(w)
    /\ sweep' = [sweep EXCEPT ![w] = NoSweep]
    /\ UNCHANGED <<rows, replica, storage, confirming, ladder, queue, faults>>

\* A consistent page of the partition, where comments sort before attachments.
ReadPage(w, page) ==
    /\ sweep[w] # NoSweep /\ sweep[w].page = {} /\ ladder[w] = NoLadder
    /\ ~LivePartition(w)
    /\ page # {} /\ page \subseteq sweep[w].unread
    /\ page \cap Attachments # {} => sweep[w].unread \cap Comments \subseteq page
    /\ sweep' = [sweep EXCEPT
          ![w].unread = @ \ page,
          ![w].page = {c \in page \cap Comments : CommentLive(c)}
                        \cup {a \in page \cap Attachments : SweptBy(sweep[w].of, a)},
          ![w].uploaded = {a \in page \cap Attachments : attachment[a] = "UPLOADED"}]
    /\ UNCHANGED <<rows, replica, storage, confirming, ladder, queue, faults>>

\* delete_row: a comment gone already is no error, and no event.
SweepComment(w, c) ==
    /\ sweep[w] # NoSweep /\ c \in sweep[w].page
    /\ sweep' = [sweep EXCEPT ![w].page = @ \ {c}]
    /\ comment' = [comment EXCEPT ![c] = "gone"]
    /\ Emit({e \in {Deleted(c)} : CommentLive(c)})
    /\ UNCHANGED <<identity, num_comments, num_attachments, attachment, comment_of, replica,
                   storage, confirming, ladder, faults>>

\* The Issue's sweep leaves out the Issue's counter, the comment's the comment's.
SweepAttachment(w, a) ==
    /\ sweep[w] # NoSweep /\ ladder[w] = NoLadder
    /\ a \in sweep[w].page /\ sweep[w].page \cap Comments = {}
    /\ sweep' = [sweep EXCEPT ![w].page = @ \ {a}]
    /\ ladder' = [ladder EXCEPT ![w] =
          Climb(a, IF a \in sweep[w].uploaded THEN "UPLOADED" ELSE "PENDING",
                Owners(a) \ {sweep[w].of})]
    /\ UNCHANGED <<rows, replica, storage, confirming, queue, faults>>

FinishSweep(w) ==
    /\ sweep[w] # NoSweep /\ ladder[w] = NoLadder
    /\ sweep[w].unread = {} /\ sweep[w].page = {}
    /\ sweep' = [sweep EXCEPT ![w] = NoSweep]
    /\ UNCHANGED <<rows, replica, storage, confirming, ladder, queue, faults>>

Crash(w) ==
    /\ sweep[w] # NoSweep /\ faults < MaxFaults
    /\ faults' = faults + 1
    /\ Emit({Deleted(sweep[w].of)})
    /\ sweep' = [sweep EXCEPT ![w] = NoSweep]
    /\ ladder' = [ladder EXCEPT ![w] = NoLadder]
    /\ UNCHANGED <<rows, replica, storage, confirming>>

\* DeleteObject of S3; an error is raised, so that the event comes back.
MutantWithout(a) == object
Without(a) == object \ {a}

HandleAttachmentDeleted(a) ==
    /\ Deleted(a) \in queue
    /\ object' = Without(a)
    /\ \/ queue' = queue \ {Deleted(a)} /\ UNCHANGED faults
       \/ faults < MaxFaults /\ faults' = faults + 1 /\ UNCHANGED queue
    /\ UNCHANGED <<rows, replica, post, late, confirming, ladder, sweep>>

-----------------------------------------------------------------------------
Client ==
    \/ \E c \in Comments : CreateIssueComment(c) \/ DeleteIssueComment(c)
    \/ DeleteIssue \/ CreateIssue
    \/ \E a \in Attachments, c \in Comments \cup {Unlinked} : InitiateUpload(a, c)
    \/ \E a \in Attachments : \/ ResignUpload(a) \/ Upload(a)
                              \/ ConfirmRead(a) \/ ConfirmWrite(a)
    \/ \E d \in Callers, a \in Attachments : DeleteIssueAttachment(d, a)
    \/ \E d \in Callers : Rung(d) \/ GiveUp(d)

Environment == \E a \in Attachments : PostExpires(a) \/ TTLExpires(a) \/ Propagate(a)

Sweep(w) ==
    \/ SkipLivePartition(w)
    \/ sweep[w] # NoSweep /\ \E page \in SUBSET sweep[w].unread : ReadPage(w, page)
    \/ \E c \in Comments : SweepComment(w, c)
    \/ \E a \in Attachments : SweepAttachment(w, a)
    \/ Rung(w) \/ GiveUp(w)
    \/ FinishSweep(w)

Next ==
    \/ Client
    \/ Environment
    \/ \E w \in Workers, x \in {TheIssue} \cup Comments : Deliver(w, x)
    \/ \E w \in Workers : Sweep(w) \/ Crash(w)
    \/ \E a \in Attachments : HandleAttachmentDeleted(a)

Spec == Init /\ [][Next]_vars

\* The consumer works on, and every event is delivered in the end; a duplicate
\* costs a fault, so redelivery alone cannot go on for ever.
Fairness ==
    /\ \A w \in Workers : WF_vars(Sweep(w))
    /\ \A x \in {TheIssue} \cup Comments : SF_vars(\E w \in Workers : Deliver(w, x))
    /\ \A a \in Attachments : WF_vars(HandleAttachmentDeleted(a))

FairSpec == Spec /\ Fairness

-----------------------------------------------------------------------------
(***************************************************************************)
(* Properties                                                              *)
(***************************************************************************)
Life == {"unborn", "live", "gone"}
Owner == {TheIssue} \cup Comments
Ladders == {NoLadder} \cup [at : {"delete", "reread"}, att : Attachments, seen : Statuses,
                            owners : SUBSET Owner, left : 0 .. ATTEMPTS,
                            lagged : BOOLEAN]
Sweeps == {NoSweep} \cup [of : Owner, unread : SUBSET (Comments \cup Attachments),
                          page : SUBSET (Comments \cup Attachments),
                          uploaded : SUBSET Attachments]

\* The type of every variable; no count is negative, but for those of an Issue that
\* met what was left of another.
TypeOK ==
    /\ issue \in Life /\ reused \in 0 .. MaxReuse /\ tainted \in BOOLEAN
    /\ num_comments \in Int /\ num_attachments \in [Owner -> Int]
    /\ ~tainted => num_comments >= 0 /\ num_attachments[TheIssue] >= 0
    /\ \A c \in Comments : num_attachments[c] >= 0
    /\ comment \in [Comments -> Life]
    /\ attachment \in [Attachments -> Statuses \cup {"unborn", "gone"}]
    /\ replica \in [Attachments -> Statuses \cup {"unborn", "gone"}]
    /\ comment_of \in [Attachments -> Comments \cup {Unlinked}]
    /\ post \subseteq Attachments /\ object \subseteq Attachments
    /\ late \subseteq Attachments
    /\ confirming \subseteq Attachments
    /\ ladder \in [Actors -> Ladders]
    /\ queue \subseteq Events
    /\ sweep \in [Workers -> Sweeps]
    /\ faults \in 0 .. MaxFaults

Uploaded(x) == {a \in Attachments : attachment[a] = "UPLOADED" /\ x \in Owners(a)}

\* An Issue counts its comment rows and its UPLOADED attachments, and a comment its
\* UPLOADED attachments, exactly, whichever of confirms, deletes and sweeps meet on
\* them, whatever they read before, and though sweeps of an Issue that had the same
\* id are still to come.  Only rows that the old Issue left, or its sweep underway,
\* may spoil the counts of the new one; those of comments stay exact even then.
CountsExact ==
    /\ issue = "live" /\ ~tainted =>
          /\ num_comments = Cardinality({c \in Comments : CommentLive(c)})
          /\ num_attachments[TheIssue] = Cardinality(Uploaded(TheIssue))
    /\ \A c \in Comments : CommentLive(c) => num_attachments[c] = Cardinality(Uploaded(c))

\* The sweep of x is still to come, or has y ahead of it.
SweepAhead(x, y) ==
    \/ Deleted(x) \in queue
    \/ \E w \in Workers : /\ sweep[w] # NoSweep /\ sweep[w].of = x
                          /\ \/ y \in sweep[w].unread \cup sweep[w].page
                             \/ ladder[w] # NoLadder /\ ladder[w].att = y

\* No row outlives its Issue, nor an attachment its comment, beyond the sweep
\* that follows.
NoStrandedRow ==
    /\ issue = "gone" => /\ \A c \in Comments : CommentLive(c) => SweepAhead(TheIssue, c)
                         /\ \A a \in Attachments : Exists(a) => SweepAhead(TheIssue, a)
    /\ \A a \in Attachments : Exists(a) /\ Linked(a) /\ comment[comment_of[a]] = "gone"
                                => SweepAhead(comment_of[a], a)

\* An UPLOADED attachment can be downloaded: its object is there.
UploadedHasObject == \A a \in Attachments : attachment[a] = "UPLOADED" => a \in object

\* An object whose row is gone, POSTed while the row stood.
Stray(a) == attachment[a] = "gone" /\ a \in object \ late

\* The object of a deleted attachment still has the handler that removes it ahead,
\* TTL deletes included.  (One POSTed after its row went may have none.)
NoStrandedObject == \A a \in Attachments : Stray(a) => Deleted(a) \in queue

\* delete_attachment_with_counters runs out of its attempts only after a re-read
\* that lagged: a confirm that overtakes it and every owner it finds gone, one by
\* one, leave it an attempt, whatever its caller had read.
LadderSuffices ==
    \A d \in Actors : ladder[d] # NoLadder /\ ladder[d].left = 0 => ladder[d].lagged

\* Caller d returns from delete_issue_attachment without an error.
Returns(d) == Rung(d) /\ ladder'[d] = NoLadder

\* A delete_issue_attachment that returns leaves no row behind.
DeletesDelete ==
    [][\A d \in Callers : Returns(d) => attachment'[ladder[d].att] = "gone"]_vars

\* It does so but for one case: the re-read that follows a refused delete took the
\* row for missing, from a copy that had not got it yet.
DeletesUnlessMissed ==
    [][\A d \in Callers : Returns(d) =>
          \/ attachment'[ladder[d].att] = "gone"
          \/ ladder[d].at = "reread" /\ replica[ladder[d].att] = "unborn"]_vars

\* Once its Issue is deleted, a row goes in the end; so does its object.
RowsGo == \A a \in Attachments : (issue = "gone" /\ Exists(a)) ~> ~Exists(a)
ObjectsGo == \A a \in Attachments : Stray(a) ~> ~Stray(a)
=============================================================================
