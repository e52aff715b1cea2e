------------------------- MODULE AttachmentCountsProofs -------------------------
(***************************************************************************)
(* Proofs that the counts of an Issue and of its comments are exact.       *)
(***************************************************************************)
EXTENDS AttachmentsProofs

\* A ladder asks for no counter that does not count its attachment, and leaves out
\* only those whose row is gone (or is not the Issue the attachment was of).
OwnersOK(l) ==
    l # NoLadder =>
       /\ l.owners \subseteq Owners(l.att)
       /\ Exists(l.att) /\ TheIssue \notin l.owners => issue # "live" \/ tainted
       /\ \A c \in Comments : comment_of[l.att] = c /\ CommentLive(c) => c \in l.owners

\* A sweep past its first page has seen the Issue gone; that of a comment, which is
\* gone for good, touches no comment.
SweepOK(s) ==
    s # NoSweep =>
       /\ s.of = TheIssue /\ s.unread # Comments \cup Attachments
             => issue # "live" \/ tainted
       /\ s.of \in Comments => /\ comment[s.of] = "gone"
                               /\ (s.unread \cup s.page) \cap Comments = {}

\* The event of a comment's delete follows it.
EventsOK == \A c \in Comments : Deleted(c) \in queue => comment[c] = "gone"

\* Nothing is linked to a comment that is yet to be created.
BornOK ==
    \A c \in Comments : comment[c] = "unborn" => num_attachments[c] = 0 /\ LinkedTo(c) = {}

\* The counts of what is gone stay what they were.
NotNegative ==
    /\ ~tainted => num_comments >= 0 /\ num_attachments[TheIssue] >= 0
    /\ \A c \in Comments : num_attachments[c] >= 0

WorkInv ==
    /\ \A d \in Actors : OwnersOK(ladder[d])
    /\ \A w \in Workers : SweepOK(sweep[w])
    /\ EventsOK

CountInv == BornOK /\ CountsExact /\ NotNegative

LEMMA InitCounts == Init => WorkInv /\ CountInv
<1> SUFFICES ASSUME Init PROVE WorkInv /\ CountInv
  OBVIOUS
<1>1. WorkInv
  BY DEF Init, WorkInv, OwnersOK, SweepOK, EventsOK
<1>2. TheIssue \notin Comments
  BY TheIssueAssumption DEF TheIssue
<1>3. num_comments = 0 /\ num_attachments[TheIssue] = 0
      /\ \A c \in Comments : num_attachments[c] = 0
  BY DEF Init
<1>4. BornOK /\ NotNegative
  BY <1>3, UnlinkedAssumption DEF Init, BornOK, NotNegative, LinkedTo
<1>5. {c \in Comments : CommentLive(c)} = {} /\ \A x : Uploaded(x) = {}
  BY DEF Init, CommentLive, Uploaded
<1>6. CountsExact
  BY <1>3, <1>5, FS_EmptySet DEF CountsExact
<1> QED BY <1>1, <1>4, <1>6 DEF CountInv

-----------------------------------------------------------------------------
(***************************************************************************)
(* What ladders and sweeps know of the Issue and the comments.             *)
(***************************************************************************)
LEMMA IdentitySteps ==
  ASSUME Typed, [Next]_vars
  PROVE  \/ UNCHANGED <<issue, tainted>>
         \/ issue' = "gone" /\ UNCHANGED tainted
         \/ CreateIssue
<1> USE DEF identity, rows, storage
<1>1. CASE DeleteIssue
  BY <1>1 DEF DeleteIssue
<1>2. CASE \/ \E c \in Comments : CreateIssueComment(c) \/ DeleteIssueComment(c)
           \/ \E a \in Attachments, c \in Comments \cup {Unlinked} : InitiateUpload(a, c)
           \/ \E a \in Attachments : \/ ResignUpload(a) \/ Upload(a) \/ ConfirmRead(a)
                                     \/ ConfirmWrite(a) \/ HandleAttachmentDeleted(a)
           \/ \E d \in Callers, a \in Attachments : DeleteIssueAttachment(d, a)
           \/ \E d \in Actors : Rung(d) \/ GiveUp(d)
           \/ Environment
  BY <1>2
  DEF CreateIssueComment, DeleteIssueComment, InitiateUpload, ResignUpload, Upload,
      ConfirmRead, ConfirmWrite, HandleAttachmentDeleted, DeleteIssueAttachment, Rung,
      DeleteUploaded, DeletePending, Reread, GiveUp, Environment, PostExpires, TTLExpires,
      Propagate
<1>3. CASE \/ \E w \in Workers, x \in {TheIssue} \cup Comments : Deliver(w, x)
           \/ \E w \in Workers : \/ SkipLivePartition(w) \/ FinishSweep(w) \/ Crash(w)
                                 \/ \E page \in SUBSET sweep[w].unread : ReadPage(w, page)
                                 \/ \E c \in Comments : SweepComment(w, c)
                                 \/ \E a \in Attachments : SweepAttachment(w, a)
           \/ UNCHANGED vars
  BY <1>3
  DEF Deliver, SkipLivePartition, FinishSweep, Crash, ReadPage, SweepComment, SweepAttachment,
      vars
<1> QED BY <1>1, <1>2, <1>3 DEF Next, Client, Sweep, Actors

\* The Issue that stands is not the one that is gone, and knows it.
LEMMA SpoiltStays ==
  ASSUME Typed, [Next]_vars, issue # "live" \/ tainted,
         \/ \E a \in Attachments : Exists(a)
         \/ \E w \in Workers : PastFirstPage(w)
  PROVE  issue' # "live" \/ tainted'
<1>1. CASE CreateIssue
  BY <1>1 DEF CreateIssue
<1>2. CASE UNCHANGED <<issue, tainted>>
  BY <1>2
<1>3. CASE issue' = "gone"
  BY <1>3
<1> QED BY <1>1, <1>2, <1>3, IdentitySteps

LEMMA EventsStep ==
  ASSUME Sound, PastInv, WorkInv, [Next]_vars PROVE EventsOK'
<1> USE DEF identity, rows, storage
<1> SUFFICES ASSUME NEW c \in Comments, Deleted(c) \in queue' PROVE comment'[c] = "gone"
  BY DEF EventsOK, Deleted
<1>0. Typed /\ AtWork /\ CommentStep(c) /\ c \in Owner
  BY ParentSteps DEF Sound, Owner
<1>a. c # TheIssue /\ c \notin Attachments
  BY TheIssueAssumption, DisjointAssumption DEF TheIssue
<1>b. \A y : Deleted(y) = Deleted(c) => y = c
  BY DEF Deleted
<1>c. comment[c] = "gone" => comment'[c] = "gone"
  BY <1>0 DEF CommentStep
<1>1. CASE queue' \subseteq queue
  BY <1>1, <1>c DEF WorkInv, EventsOK
<1>2. CASE \E y : y # c /\ queue' = queue \cup {Deleted(y)}
  BY <1>2, <1>b, <1>c DEF WorkInv, EventsOK
<1>3. CASE \E d \in Comments : DeleteIssueComment(d)
  <2> PICK d \in Comments : DeleteIssueComment(d)
    BY <1>3
  <2>1. CASE d = c
    BY <1>0, <2>1 DEF Typed, DeleteIssueComment
  <2>2. CASE d # c
    BY <1>2, <2>2 DEF DeleteIssueComment, Emit
  <2> QED BY <2>1, <2>2
<1>4. CASE \E w \in Workers, d \in Comments : SweepComment(w, d)
  <2> PICK w \in Workers, d \in Comments : SweepComment(w, d)
    BY <1>4
  <2>1. CASE d = c
    BY <1>0, <2>1 DEF Typed, SweepComment
  <2>2. CASE d # c
    <3>1. queue' = queue \/ queue' = queue \cup {Deleted(d)}
      BY DEF SweepComment, Emit
    <3> QED BY <1>1, <1>2, <2>2, <3>1
  <2> QED BY <2>1, <2>2
<1>5. CASE \E w \in Workers : GiveUp(w) \/ Crash(w)
  <2> PICK w \in Workers : GiveUp(w) \/ Crash(w)
    BY <1>5
  <2>1. sweep[w] # NoSweep /\ queue' = queue \cup {Deleted(sweep[w].of)}
    BY <1>0 DEF AtWork, GiveUp, Crash, Emit, NoLadder, Actors
  <2>2. CASE sweep[w].of = c
    BY <1>c, <2>1, <2>2 DEF WorkInv, SweepOK
  <2>3. CASE sweep[w].of # c
    BY <1>2, <2>1, <2>3
  <2> QED BY <2>2, <2>3
<1>6. CASE \E d \in Callers : GiveUp(d)
  BY <1>1, <1>6, DisjointAssumption DEF GiveUp
<1>7. CASE DeleteIssue
  BY <1>2, <1>7, <1>a DEF DeleteIssue, Emit
<1>8. CASE \E a \in Attachments : TTLExpires(a)
  BY <1>2, <1>8, <1>a DEF TTLExpires, Emit
<1>9. CASE \E d \in Actors : DeleteUploaded(d)
  <2> PICK d \in Actors : DeleteUploaded(d)
    BY <1>9
  <2>1. ladder[d].att \in Attachments
    BY <1>0, BusyTyped DEF DeleteUploaded, NoLadder, Climbing
  <2>2. UNCHANGED queue \/ Remove(ladder[d].att)
    BY DEF DeleteUploaded
  <2> QED BY <1>1, <1>2, <1>a, <2>1, <2>2 DEF Remove, Emit
<1>10. CASE \E d \in Actors : DeletePending(d)
  <2> PICK d \in Actors : DeletePending(d)
    BY <1>10
  <2>1. ladder[d].att \in Attachments
    BY <1>0, BusyTyped DEF DeletePending, NoLadder, Climbing
  <2>2. UNCHANGED queue \/ Remove(ladder[d].att)
    BY DEF DeletePending
  <2> QED BY <1>1, <1>2, <1>a, <2>1, <2>2 DEF Remove, Emit
<1>11. CASE \/ \E d \in Comments : CreateIssueComment(d)
            \/ CreateIssue
            \/ \E a \in Attachments, d \in Comments \cup {Unlinked} : InitiateUpload(a, d)
            \/ \E a \in Attachments : \/ ResignUpload(a) \/ Upload(a) \/ ConfirmRead(a)
                                      \/ ConfirmWrite(a) \/ HandleAttachmentDeleted(a)
                                      \/ PostExpires(a) \/ Propagate(a)
            \/ \E d \in Callers, a \in Attachments : DeleteIssueAttachment(d, a)
            \/ \E d \in Actors : Reread(d)
  BY <1>1, <1>11
  DEF CreateIssueComment, CreateIssue, InitiateUpload, ResignUpload, Upload, ConfirmRead,
      ConfirmWrite, HandleAttachmentDeleted, PostExpires, Propagate, DeleteIssueAttachment,
      Reread
<1>12. CASE \/ \E w \in Workers, x \in {TheIssue} \cup Comments : Deliver(w, x)
            \/ \E w \in Workers : \/ SkipLivePartition(w) \/ FinishSweep(w)
                                  \/ \E page \in SUBSET sweep[w].unread : ReadPage(w, page)
                                  \/ \E a \in Attachments : SweepAttachment(w, a)
            \/ UNCHANGED vars
  BY <1>1, <1>12
  DEF Deliver, SkipLivePartition, FinishSweep, ReadPage, SweepAttachment, vars
<1> QED BY <1>3, <1>4, <1>5, <1>6, <1>7, <1>8, <1>9, <1>10, <1>11, <1>12
        DEF Next, Client, Environment, Rung, Sweep, Actors

LEMMA SweepOKStep ==
  ASSUME Sound, PastInv, WorkInv, [Next]_vars, NEW w \in Workers, sweep'[w] # NoSweep
  PROVE  /\ sweep'[w].of = TheIssue /\ sweep'[w].unread # Comments \cup Attachments
               => issue' # "live" \/ tainted'
         /\ sweep'[w].of \in Comments =>
               /\ comment'[sweep'[w].of] = "gone"
               /\ (sweep'[w].unread \cup sweep'[w].page) \cap Comments = {}
<1> USE DEF identity, rows, storage
<1>0. Typed /\ AtWork /\ SweepOK(sweep[w])
  BY DEF Sound, WorkInv
<1>a. \A c \in Comments : comment[c] = "gone" => comment'[c] = "gone"
  BY <1>0, ParentSteps DEF CommentStep
<1>1. CASE /\ sweep[w] # NoSweep
           /\ sweep'[w].of = sweep[w].of /\ sweep'[w].unread = sweep[w].unread
           /\ sweep'[w].page \subseteq sweep[w].page
  <2>1. ASSUME sweep[w].of = TheIssue, sweep[w].unread # Comments \cup Attachments
        PROVE  issue' # "live" \/ tainted'
    BY <1>0, <1>1, <2>1, SpoiltStays DEF SweepOK, PastFirstPage
  <2>2. ASSUME sweep[w].of \in Comments
        PROVE  comment'[sweep[w].of] = "gone"
    BY <1>0, <1>1, <1>a, <2>2 DEF SweepOK
  <2>3. ASSUME sweep[w].of \in Comments
        PROVE  (sweep'[w].unread \cup sweep'[w].page) \cap Comments = {}
    BY <1>0, <1>1, <2>3 DEF SweepOK
  <2> QED BY <1>1, <2>1, <2>2, <2>3
<1>2. CASE sweep'[w] = sweep[w]
  BY <1>1, <1>2
<1>3. CASE \E x \in Owner : Deliver(w, x)
  <2> PICK x \in Owner : Deliver(w, x)
    BY <1>3
  <2>1. sweep'[w] = SweepOf(x)
    BY <1>0 DEF Typed, Deliver
  <2>2. x \in Comments => comment'[x] = "gone"
    BY <1>a DEF Deliver, WorkInv, EventsOK
  <2> QED BY <2>1, <2>2, DisjointAssumption, TheIssueAssumption DEF SweepOf, TheIssue
<1>4. CASE SkipLivePartition(w) \/ FinishSweep(w) \/ Crash(w) \/ GiveUp(w)
  BY <1>0, <1>4 DEF Typed, SkipLivePartition, FinishSweep, Crash, GiveUp
<1>5. CASE \E page \in SUBSET sweep[w].unread : ReadPage(w, page)
  <2> PICK page \in SUBSET sweep[w].unread : ReadPage(w, page)
    BY <1>5
  <2>1. sweep[w] \in Sweeping /\ sweep[w] # NoSweep
    BY <1>0, BusyTyped DEF ReadPage
  <2>2. /\ sweep'[w].of = sweep[w].of /\ sweep'[w].unread \subseteq sweep[w].unread
        /\ sweep'[w].page \subseteq sweep[w].unread
    BY <1>0, <2>1 DEF Typed, ReadPage, Sweeping
  <2>3. UNCHANGED <<issue, tainted, comment>>
    BY DEF ReadPage
  <2>4. sweep[w].of = TheIssue => issue # "live" \/ tainted
    BY <1>0, <2>1 DEF ReadPage, LivePartition, PastFirstPage, SweepOK
  <2>5. sweep[w].of \in Comments =>
           comment[sweep[w].of] = "gone" /\ sweep[w].unread \cap Comments = {}
    BY <1>0, <2>1 DEF SweepOK
  <2> QED BY <2>2, <2>3, <2>4, <2>5
<1>6. CASE \/ \E c \in Comments : SweepComment(w, c)
           \/ \E a \in Attachments : SweepAttachment(w, a)
  <2>1. sweep[w] \in Sweeping /\ sweep[w] # NoSweep
    BY <1>0, <1>6, BusyTyped DEF SweepComment, SweepAttachment
  <2>2. PICK y : sweep' = [sweep EXCEPT ![w].page = @ \ {y}]
    BY <1>6 DEF SweepComment, SweepAttachment
  <2>3. /\ sweep'[w].of = sweep[w].of /\ sweep'[w].unread = sweep[w].unread
        /\ sweep'[w].page \subseteq sweep[w].page
    BY <1>0, <2>1, <2>2 DEF Typed, Sweeping
  <2> QED BY <1>1, <2>1, <2>3
<1> QED BY <1>0, <1>2, <1>3, <1>4, <1>5, <1>6, SweepMoves

LEMMA OwnersOKStep ==
  ASSUME Sound, PastInv, WorkInv, BornOK, [Next]_vars, NEW d \in Actors,
         ladder'[d] # NoLadder, NEW a, a = ladder'[d].att
  PROVE  /\ ladder'[d].owners \subseteq Owners(a)'
         /\ Exists(a)' /\ TheIssue \notin ladder'[d].owners => issue' # "live" \/ tainted'
         /\ \A c \in Comments : comment_of'[a] = c /\ CommentLive(c)'
               => c \in ladder'[d].owners
<1> USE DEF identity, rows, storage
<1>0. Typed /\ AtWork /\ OwnersOK(ladder[d]) /\ LadderOK(ladder[d])
  BY DEF Sound, WorkInv, PastInv
<1>1. ASSUME ladder[d] # NoLadder, a = ladder[d].att, ladder'[d].owners = ladder[d].owners
      PROVE  /\ ladder'[d].owners \subseteq Owners(a)'
             /\ Exists(a)' /\ TheIssue \notin ladder'[d].owners
                   => issue' # "live" \/ tainted'
             /\ \A c \in Comments : comment_of'[a] = c /\ CommentLive(c)'
                   => c \in ladder'[d].owners
  <2>1. a \in Attachments /\ attachment[a] # "unborn"
    BY <1>0, <1>1, BusyTyped DEF Climbing, LadderOK, Past, Statuses
  <2>2. comment_of'[a] = comment_of[a] /\ (Exists(a)' => Exists(a))
    BY <1>0, <2>1, AttachmentSteps DEF AttachmentStep, Exists, Statuses
  <2>3. Owners(a)' = Owners(a)
    BY <2>2 DEF Owners, Linked
  <2>4. Exists(a)' /\ TheIssue \notin ladder[d].owners => issue' # "live" \/ tainted'
    BY <1>0, <1>1, <2>1, <2>2, SpoiltStays DEF OwnersOK
  <2>5. ASSUME NEW c \in Comments, comment_of[a] = c, CommentLive(c)' PROVE CommentLive(c)
    <3>1. comment[c] # "unborn"
      BY <2>1, <2>5 DEF BornOK, LinkedTo
    <3>2. CommentStep(c)
      BY <1>0, ParentSteps
    <3> QED BY <2>5, <3>1, <3>2 DEF CommentStep, CommentLive
  <2>6. ASSUME NEW c \in Comments, comment_of[a] = c, CommentLive(c)'
        PROVE  c \in ladder[d].owners
    BY <1>0, <1>1, <2>5, <2>6 DEF OwnersOK
  <2>7. ladder[d].owners \subseteq Owners(a)
    BY <1>0, <1>1 DEF OwnersOK
  <2> QED BY <1>1, <2>2, <2>3, <2>4, <2>6, <2>7
<1>2. CASE ladder'[d] = ladder[d]
  BY <1>1, <1>2
<1>3. CASE d \in Callers /\ \E b \in Attachments : DeleteIssueAttachment(d, b)
  <2> PICK b \in Attachments : DeleteIssueAttachment(d, b)
    BY <1>3
  <2> PICK seen \in View(b) \cap Statuses :
           ladder' = [ladder EXCEPT ![d] = Climb(b, seen, Owners(b))]
    BY DEF DeleteIssueAttachment
  <2>1. a = b /\ ladder'[d].owners = Owners(b)
    BY <1>0 DEF Typed, Climb
  <2>2. UNCHANGED <<issue, tainted, comment, attachment, comment_of>>
    BY DEF DeleteIssueAttachment
  <2> QED BY <2>1, <2>2, UnlinkedAssumption DEF Owners, Linked
<1>4. CASE d \in Workers /\ \E b \in Attachments : SweepAttachment(d, b)
  <2> PICK b \in Attachments : SweepAttachment(d, b)
    BY <1>4
  <2>0. sweep[d] \in Sweeping /\ sweep[d] # NoSweep /\ b \notin sweep[d].unread
    BY <1>0, <1>4, BusyTyped DEF AtWork, SweepAttachment
  <2>1. a = b /\ ladder'[d].owners = Owners(b) \ {sweep[d].of}
    BY <1>0 DEF Typed, SweepAttachment, Climb
  <2>2. UNCHANGED <<issue, tainted, comment, attachment, comment_of>>
    BY DEF SweepAttachment
  <2>3. sweep[d].of = TheIssue => issue # "live" \/ tainted
    BY <1>4, <2>0 DEF WorkInv, SweepOK
  <2>4. sweep[d].of \in Comments => ~CommentLive(sweep[d].of)
    BY <1>4, <2>0 DEF WorkInv, SweepOK, CommentLive
  <2>5. Owners(b)' = Owners(b)
    BY <2>2 DEF Owners, Linked
  <2>6. TheIssue \notin ladder'[d].owners => issue' # "live" \/ tainted'
    BY <2>1, <2>2, <2>3 DEF Owners
  <2>7. \A c \in Comments : comment_of'[b] = c /\ CommentLive(c)' => c \in ladder'[d].owners
    BY <2>1, <2>2, <2>4, UnlinkedAssumption DEF Owners, Linked, CommentLive
  <2> QED BY <2>1, <2>5, <2>6, <2>7
<1>5. CASE DeleteUploaded(d)
  <2>0. ladder[d] \in Climbing /\ ladder[d] # NoLadder
    BY <1>0, <1>5, BusyTyped DEF DeleteUploaded, NoLadder
  <2> DEFINE y == Dropped(Missing(ladder[d].owners))
  <2>1. /\ Missing(ladder[d].owners) # {}
        /\ ladder' = [ladder EXCEPT ![d].owners = @ \ {y}, ![d].left = @ - 1]
        /\ UNCHANGED attachment
    BY <1>0, <1>5 DEF Typed, DeleteUploaded
  <2>2. y \in Missing(ladder[d].owners)
    BY <2>1 DEF Dropped
  <2> HIDE DEF y
  <2>3. a = ladder[d].att /\ ladder'[d].owners = ladder[d].owners \ {y}
    BY <1>0, <2>0, <2>1 DEF Typed, Climbing
  <2>4. UNCHANGED <<issue, tainted, comment, attachment, comment_of>>
    BY <1>5, <2>1 DEF DeleteUploaded
  <2>5. /\ y = TheIssue => issue # "live"
        /\ y \in Comments => ~CommentLive(y)
    BY <2>2, TheIssueAssumption DEF Missing, TheIssue
  <2>6. Owners(a)' = Owners(a)
    BY <2>4 DEF Owners, Linked
  <2>7. ladder[d].owners \subseteq Owners(a)
    BY <1>0, <2>0, <2>3 DEF OwnersOK
  <2>8. Exists(a)' /\ TheIssue \notin ladder'[d].owners
               => issue' # "live" \/ tainted'
    BY <1>0, <2>0, <2>3, <2>4, <2>5 DEF OwnersOK, Exists
  <2>9. \A c \in Comments : comment_of'[a] = c /\ CommentLive(c)'
               => c \in ladder'[d].owners
    BY <1>0, <2>0, <2>3, <2>4, <2>5 DEF OwnersOK, CommentLive
  <2> QED BY <2>3, <2>6, <2>7, <2>8, <2>9
<1>6. CASE DeletePending(d)
  <2>0. ladder[d] \in Climbing /\ ladder[d] # NoLadder
    BY <1>0, <1>6, BusyTyped DEF DeletePending, NoLadder
  <2>1. a = ladder[d].att /\ ladder'[d].owners = ladder[d].owners
    BY <1>0, <1>6, <2>0 DEF Typed, DeletePending, Refused, Climbing
  <2> QED BY <1>1, <2>0, <2>1
<1>7. CASE Reread(d)
  <2>0. ladder[d] \in Climbing /\ ladder[d] # NoLadder
    BY <1>0, <1>7, BusyTyped DEF Reread, NoLadder
  <2> DEFINE again(seen) == Again(ladder[d], seen)
  <2>1. PICK seen \in View(ladder[d].att) :
           ladder' = [ladder EXCEPT ![d] = IF seen \in Statuses THEN again(seen)
                                           ELSE NoLadder]
    BY <1>7 DEF Reread
  <2>2. ladder'[d] = again(seen)
    BY <1>0, <2>1 DEF Typed
  <2>3. a = ladder[d].att /\ ladder'[d].owners = ladder[d].owners
    BY <2>0, <2>2 DEF Climbing, Again
  <2> QED BY <1>1, <2>0, <2>3
<1>8. ~GiveUp(d) /\ ~(d \in Workers /\ Crash(d))
  BY <1>0 DEF Typed, GiveUp, Crash
<1> QED BY <1>0, <1>2, <1>3, <1>4, <1>5, <1>6, <1>7, <1>8, LadderMoves DEF Rung

LEMMA WorkStep ==
  Sound /\ PastInv /\ WorkInv /\ BornOK /\ [Next]_vars => WorkInv'
<1> SUFFICES ASSUME Sound, PastInv, WorkInv, BornOK, [Next]_vars PROVE WorkInv'
  OBVIOUS
<1>1. \A d \in Actors : OwnersOK(ladder[d])'
  BY OwnersOKStep DEF OwnersOK, Owners, Linked, Exists, CommentLive
<1>2. \A w \in Workers : SweepOK(sweep[w])'
  BY SweepOKStep DEF SweepOK
<1> QED BY <1>1, <1>2, EventsStep DEF WorkInv

-----------------------------------------------------------------------------
(***************************************************************************)
(* What one step may do to the counts.                                     *)
(***************************************************************************)
OwnerLive(x) == IF x = TheIssue THEN issue = "live" ELSE CommentLive(x)

\* The count of x moves with the attachments it counts while the row of x stands.
NumStep(x) ==
    \/ num_attachments'[x] = num_attachments[x] /\ Uploaded(x)' = Uploaded(x)
    \/ /\ OwnerLive(x) /\ UNCHANGED <<issue, tainted, comment>>
       /\ \/ /\ num_attachments'[x] = num_attachments[x] + 1
             /\ \E a \in Attachments \ Uploaded(x) : Uploaded(x)' = Uploaded(x) \cup {a}
          \/ /\ num_attachments'[x] = num_attachments[x] - 1
             /\ \E a \in Uploaded(x) : Uploaded(x)' = Uploaded(x) \ {a}
    \/ ~OwnerLive(x) /\ num_attachments'[x] = num_attachments[x]
    \/ x = TheIssue /\ issue = "live" /\ tainted /\ UNCHANGED <<issue, tainted>>
    \/ x = TheIssue /\ CreateIssue

LEMMA SameUploads ==
  ASSUME NEW x \in Owner,
         \A a \in Attachments :
            (attachment'[a] = "UPLOADED" /\ x \in Owners(a)')
               <=> (attachment[a] = "UPLOADED" /\ x \in Owners(a))
  PROVE  Uploaded(x)' = Uploaded(x)
  BY DEF Uploaded

LEMMA ConfirmCounts ==
  ASSUME Typed, NEW x \in Owner, NEW a \in Attachments, ConfirmWrite(a) PROVE NumStep(x)
<1> USE DEF identity, rows, storage
<1>1. UNCHANGED <<issue, tainted, comment, comment_of>> /\ \A b : Owners(b)' = Owners(b)
  BY DEF ConfirmWrite, Owners, Linked
<1>2. CASE ~Confirmable(a)
  <2>1. UNCHANGED <<attachment, num_attachments>>
    BY <1>2 DEF ConfirmWrite
  <2> QED BY <1>1, <2>1, SameUploads DEF NumStep
<1>3. CASE Confirmable(a)
  <2>1. attachment' = [attachment EXCEPT ![a] = "UPLOADED"] /\ Count(Owners(a), 1)
    BY <1>3 DEF ConfirmWrite
  <2>2. attachment[a] = "PENDING" /\ ParentsLive(comment_of[a])
    BY <1>3 DEF Confirmable
  <2>3. CASE x \in Owners(a)
    <3>1. OwnerLive(x)
      BY <2>2, <2>3, TheIssueAssumption
      DEF Typed, Owners, Linked, OwnerLive, ParentsLive, TheIssue
    <3>2. num_attachments'[x] = num_attachments[x] + 1
      BY <2>1, <2>3 DEF Typed, Count
    <3>3. a \notin Uploaded(x) /\ Uploaded(x)' = Uploaded(x) \cup {a}
      BY <1>1, <2>1, <2>2, <2>3 DEF Typed, Uploaded
    <3> QED BY <1>1, <3>1, <3>2, <3>3 DEF NumStep
  <2>4. CASE x \notin Owners(a)
    <3>1. num_attachments'[x] = num_attachments[x]
      BY <2>1, <2>4 DEF Typed, Count
    <3>2. Uploaded(x)' = Uploaded(x)
      BY <1>1, <2>1, <2>4, SameUploads DEF Typed
    <3> QED BY <3>1, <3>2 DEF NumStep
  <2> QED BY <2>3, <2>4
<1> QED BY <1>2, <1>3

LEMMA DeleteCounts ==
  ASSUME Sound, WorkInv, NEW x \in Owner, NEW d \in Actors, DeleteUploaded(d)
  PROVE  NumStep(x)
<1> USE DEF identity, rows, storage
<1>0. Typed /\ OwnersOK(ladder[d])
  BY DEF Sound, WorkInv
<1> DEFINE a == ladder[d].att
<1> DEFINE owners == ladder[d].owners
<1>1. UNCHANGED <<issue, tainted, comment, comment_of>> /\ \A b : Owners(b)' = Owners(b)
  BY DEF DeleteUploaded, Owners, Linked
<1>2. ladder[d] # NoLadder /\ ladder[d] \in Climbing
  BY <1>0, BusyTyped DEF DeleteUploaded, NoLadder
<1>3. a \in Attachments /\ owners \subseteq Owner /\ owners \subseteq Owners(a)
      /\ (Exists(a) /\ TheIssue \notin owners => issue # "live" \/ tainted)
      /\ \A c \in Comments : comment_of[a] = c /\ CommentLive(c) => c \in owners
  BY <1>0, <1>2 DEF OwnersOK, Climbing
<1>4. \/ UNCHANGED <<attachment, num_attachments>>
      \/ /\ attachment[a] = "UPLOADED" /\ Missing(owners) = {}
         /\ attachment' = [attachment EXCEPT ![a] = "gone"] /\ Count(owners, -1)
  BY DEF DeleteUploaded, Remove
<1> HIDE DEF a, owners
<1>5. CASE UNCHANGED <<attachment, num_attachments>>
  BY <1>1, <1>5, SameUploads DEF NumStep
<1>6. CASE /\ attachment[a] = "UPLOADED" /\ Missing(owners) = {}
           /\ attachment' = [attachment EXCEPT ![a] = "gone"] /\ Count(owners, -1)
  <2>1. CASE x \in owners
    <3>1. OwnerLive(x)
      BY <1>6, <2>1 DEF Missing, OwnerLive
    <3>2. num_attachments'[x] = num_attachments[x] - 1
      BY <1>0, <1>6, <2>1 DEF Typed, Count
    <3>3. a \in Uploaded(x) /\ Uploaded(x)' = Uploaded(x) \ {a}
      BY <1>0, <1>1, <1>3, <1>6, <2>1 DEF Typed, Uploaded
    <3> QED BY <1>1, <3>1, <3>2, <3>3 DEF NumStep
  <2>2. CASE x \notin owners
    <3>1. num_attachments'[x] = num_attachments[x]
      BY <1>0, <1>6, <2>2 DEF Typed, Count
    <3>2. CASE x \notin Owners(a)
      <4>1. Uploaded(x)' = Uploaded(x)
        BY <1>0, <1>1, <1>6, <3>2, SameUploads DEF Typed
      <4> QED BY <3>1, <4>1 DEF NumStep
    <3>3. CASE x = TheIssue
      <4>1. issue # "live" \/ tainted
        BY <1>3, <1>6, <2>2, <3>3 DEF Exists, Statuses
      <4> QED BY <1>1, <3>1, <3>3, <4>1 DEF NumStep, OwnerLive
    <3>4. CASE x # TheIssue /\ x \in Owners(a)
      <4>1. x \in Comments /\ comment_of[a] = x
        BY <3>4 DEF Owners, Owner
      <4>2. ~OwnerLive(x)
        BY <1>3, <2>2, <3>4, <4>1 DEF OwnerLive
      <4> QED BY <3>1, <4>2 DEF NumStep
    <3> QED BY <3>2, <3>3, <3>4
  <2> QED BY <2>1, <2>2
<1> QED BY <1>4, <1>5, <1>6

\* A step that starts or ends an attachment that is not UPLOADED.
LEMMA PendingCounts ==
  ASSUME Typed, NEW x \in Owner, NEW a \in Attachments, NEW s,
         attachment[a] # "UPLOADED", s # "UPLOADED",
         attachment' = [attachment EXCEPT ![a] = s],
         \A b \in Attachments : b # a => comment_of'[b] = comment_of[b],
         UNCHANGED num_attachments
  PROVE  NumStep(x)
<1>1. ASSUME NEW b \in Attachments
      PROVE (attachment'[b] = "UPLOADED" /\ x \in Owners(b)')
               <=> (attachment[b] = "UPLOADED" /\ x \in Owners(b))
  BY DEF Typed, Owners, Linked
<1> QED BY <1>1, SameUploads DEF NumStep

LEMMA NumSteps ==
  ASSUME Sound, WorkInv, [Next]_vars, NEW x \in Owner PROVE NumStep(x)
<1> USE DEF identity, rows, storage
<1>0. Typed
  BY DEF Sound
<1>1. CASE UNCHANGED <<attachment, comment_of, num_attachments>>
  <2>1. Uploaded(x)' = Uploaded(x)
    BY <1>1, SameUploads DEF Owners, Linked
  <2> QED BY <1>1, <2>1 DEF NumStep
<1>2. CASE CreateIssue
  <2>1. CASE x # TheIssue
    <3>1. num_attachments'[x] = num_attachments[x] /\ UNCHANGED <<attachment, comment_of>>
      BY <1>0, <1>2, <2>1 DEF Typed, CreateIssue
    <3>2. Uploaded(x)' = Uploaded(x)
      BY <3>1, SameUploads DEF Owners, Linked
    <3> QED BY <3>1, <3>2 DEF NumStep
  <2> QED BY <1>2, <2>1 DEF NumStep
<1>3. CASE \E a \in Attachments, c \in Comments \cup {Unlinked} : InitiateUpload(a, c)
  <2> PICK a \in Attachments, c \in Comments \cup {Unlinked} : InitiateUpload(a, c)
    BY <1>3
  <2>1. /\ attachment[a] = "unborn" /\ UNCHANGED num_attachments
        /\ attachment' = [attachment EXCEPT ![a] = "PENDING"]
        /\ \A b \in Attachments : b # a => comment_of'[b] = comment_of[b]
    BY <1>0 DEF Typed, InitiateUpload
  <2> QED BY <1>0, <2>1, PendingCounts
<1>4. CASE \E a \in Attachments : ConfirmWrite(a)
  BY <1>0, <1>4, ConfirmCounts
<1>5. CASE \E d \in Actors : DeleteUploaded(d)
  BY <1>5, DeleteCounts
<1>6. CASE \E d \in Actors : DeletePending(d)
  <2> PICK d \in Actors : DeletePending(d)
    BY <1>6
  <2>1. ladder[d].att \in Attachments
    BY <1>0, BusyTyped DEF DeletePending, NoLadder, Climbing
  <2>2. UNCHANGED <<comment_of, num_attachments>>
    BY DEF DeletePending
  <2>3. \/ UNCHANGED attachment
        \/ /\ attachment[ladder[d].att] = "PENDING"
           /\ attachment' = [attachment EXCEPT ![ladder[d].att] = "gone"]
    BY DEF DeletePending, StillPending, Remove
  <2> QED BY <1>0, <1>1, <2>1, <2>2, <2>3, PendingCounts
<1>7. CASE \E a \in Attachments : TTLExpires(a)
  BY <1>0, <1>7, PendingCounts DEF TTLExpires
<1>8. CASE \/ \E c \in Comments : CreateIssueComment(c) \/ DeleteIssueComment(c)
           \/ DeleteIssue
           \/ \E a \in Attachments : \/ ResignUpload(a) \/ Upload(a) \/ ConfirmRead(a)
                                     \/ HandleAttachmentDeleted(a)
                                     \/ PostExpires(a) \/ Propagate(a)
           \/ \E d \in Callers, a \in Attachments : DeleteIssueAttachment(d, a)
           \/ \E d \in Actors : Reread(d) \/ GiveUp(d)
  BY <1>1, <1>8
  DEF CreateIssueComment, DeleteIssueComment, DeleteIssue, ResignUpload, Upload, ConfirmRead,
      HandleAttachmentDeleted, PostExpires, Propagate, DeleteIssueAttachment, Reread, GiveUp
<1>9. CASE \/ \E w \in Workers, y \in {TheIssue} \cup Comments : Deliver(w, y)
           \/ \E w \in Workers : \/ SkipLivePartition(w) \/ FinishSweep(w) \/ Crash(w)
                                 \/ \E page \in SUBSET sweep[w].unread : ReadPage(w, page)
                                 \/ \E c \in Comments : SweepComment(w, c)
                                 \/ \E a \in Attachments : SweepAttachment(w, a)
           \/ UNCHANGED vars
  BY <1>1, <1>9
  DEF Deliver, SkipLivePartition, FinishSweep, Crash, ReadPage, SweepComment, SweepAttachment,
      vars
<1> QED BY <1>2, <1>3, <1>4, <1>5, <1>6, <1>7, <1>8, <1>9
        DEF Next, Client, Environment, Rung, Sweep, Actors

LiveComments == {c \in Comments : CommentLive(c)}

\* A sweep that deletes comments without counting them out is never that of the
\* Issue that stands.
CommentsStep ==
    \/ UNCHANGED <<num_comments, comment>>
    \/ /\ issue = "live" /\ UNCHANGED <<issue, tainted>>
       /\ \/ /\ num_comments' = num_comments + 1
             /\ \E c \in Comments \ LiveComments : LiveComments' = LiveComments \cup {c}
          \/ /\ num_comments' = num_comments - 1
             /\ \E c \in LiveComments : LiveComments' = LiveComments \ {c}
    \/ /\ issue # "live" \/ tainted
       /\ UNCHANGED <<issue, tainted, num_comments>>
    \/ CreateIssue

LEMMA CommentsSteps ==
  ASSUME Sound, WorkInv, [Next]_vars PROVE CommentsStep
<1> USE DEF identity, rows, storage
<1>0. Typed /\ AtWork
  BY DEF Sound
<1>1. CASE \E c \in Comments : CreateIssueComment(c)
  <2> PICK c \in Comments : CreateIssueComment(c)
    BY <1>1
  <2>1. c \notin LiveComments /\ LiveComments' = LiveComments \cup {c}
    BY <1>0 DEF Typed, CreateIssueComment, LiveComments, CommentLive
  <2> QED BY <2>1 DEF CreateIssueComment, CommentsStep
<1>2. CASE \E c \in Comments : DeleteIssueComment(c)
  <2> PICK c \in Comments : DeleteIssueComment(c)
    BY <1>2
  <2>1. c \in LiveComments /\ LiveComments' = LiveComments \ {c}
    BY <1>0 DEF Typed, DeleteIssueComment, Deletable, LiveComments, CommentLive
  <2> QED BY <2>1 DEF DeleteIssueComment, Deletable, CommentsStep
<1>3. CASE \E w \in Workers, c \in Comments : SweepComment(w, c)
  <2> PICK w \in Workers, c \in Comments : SweepComment(w, c)
    BY <1>3
  <2>1. sweep[w] \in Sweeping /\ SweepOK(sweep[w]) /\ c \notin sweep[w].unread
    BY <1>0, BusyTyped DEF SweepComment, WorkInv, AtWork
  <2>2. sweep[w].of = TheIssue
    BY <2>1 DEF SweepComment, SweepOK, Sweeping, Owner
  <2>3. issue # "live" \/ tainted
    BY <2>1, <2>2 DEF SweepComment, SweepOK
  <2> QED BY <2>3 DEF SweepComment, CommentsStep
<1>4. CASE \/ DeleteIssue
           \/ \E a \in Attachments, c \in Comments \cup {Unlinked} : InitiateUpload(a, c)
           \/ \E a \in Attachments : \/ ResignUpload(a) \/ Upload(a) \/ ConfirmRead(a)
                                     \/ ConfirmWrite(a) \/ HandleAttachmentDeleted(a)
           \/ \E d \in Callers, a \in Attachments : DeleteIssueAttachment(d, a)
           \/ \E d \in Actors : Rung(d) \/ GiveUp(d)
           \/ Environment
  BY <1>4
  DEF DeleteIssue, InitiateUpload, ResignUpload, Upload, ConfirmRead, ConfirmWrite,
      HandleAttachmentDeleted, DeleteIssueAttachment, Rung, DeleteUploaded, DeletePending,
      Reread, GiveUp, Environment, PostExpires, TTLExpires, Propagate, CommentsStep
<1>5. CASE \/ \E w \in Workers, x \in {TheIssue} \cup Comments : Deliver(w, x)
           \/ \E w \in Workers : \/ SkipLivePartition(w) \/ FinishSweep(w) \/ Crash(w)
                                 \/ \E page \in SUBSET sweep[w].unread : ReadPage(w, page)
                                 \/ \E a \in Attachments : SweepAttachment(w, a)
           \/ UNCHANGED vars
  BY <1>5
  DEF Deliver, SkipLivePartition, FinishSweep, Crash, ReadPage, SweepAttachment, vars,
      CommentsStep
<1>6. CASE CreateIssue
  BY <1>6 DEF CommentsStep
<1> QED BY <1>1, <1>2, <1>3, <1>4, <1>5, <1>6 DEF Next, Client, Sweep, Actors

-----------------------------------------------------------------------------
(***************************************************************************)
(* The counts                                                              *)
(***************************************************************************)
LEMMA FiniteSets ==
  /\ IsFiniteSet(LiveComments) /\ Cardinality(LiveComments) \in Nat
  /\ \A x : IsFiniteSet(Uploaded(x)) /\ Cardinality(Uploaded(x)) \in Nat
<1>1. LiveComments \subseteq Comments /\ \A x : Uploaded(x) \subseteq Attachments
  BY DEF LiveComments, Uploaded
<1>2. IsFiniteSet(LiveComments) /\ \A x : IsFiniteSet(Uploaded(x))
  BY <1>1, FiniteAssumption, FS_Subset
<1> QED BY <1>2, FS_CardinalityType

LEMMA FinitePrimed ==
  /\ IsFiniteSet(LiveComments') /\ Cardinality(LiveComments') \in Nat
  /\ \A x : IsFiniteSet(Uploaded(x)') /\ Cardinality(Uploaded(x)') \in Nat
<1>1. LiveComments' \subseteq Comments /\ \A x : Uploaded(x)' \subseteq Attachments
  BY DEF LiveComments, Uploaded
<1>2. IsFiniteSet(LiveComments') /\ \A x : IsFiniteSet(Uploaded(x)')
  BY <1>1, FiniteAssumption, FS_Subset
<1> QED BY <1>2, FS_CardinalityType

LEMMA BornStep ==
  ASSUME Sound, PastInv, WorkInv, BornOK, [Next]_vars PROVE BornOK'
<1> SUFFICES ASSUME NEW c \in Comments, comment'[c] = "unborn"
             PROVE  num_attachments'[c] = 0 /\ \A a \in Attachments : comment_of'[a] # c
  BY DEF BornOK, LinkedTo
<1>0. Typed /\ AtWork /\ CommentStep(c) /\ NumStep(c)
  BY ParentSteps, NumSteps DEF Sound, Owner
<1>1. comment[c] = "unborn"
  BY <1>0 DEF Typed, CommentStep
<1>2. num_attachments[c] = 0 /\ \A a \in Attachments : comment_of[a] # c
  BY <1>1 DEF BornOK, LinkedTo
<1>3. c # TheIssue /\ ~OwnerLive(c) /\ c # Unlinked
  BY <1>1, TheIssueAssumption, UnlinkedAssumption DEF OwnerLive, CommentLive, TheIssue
<1>4. num_attachments'[c] = 0
  BY <1>0, <1>2, <1>3 DEF NumStep
<1>5. ASSUME NEW a \in Attachments PROVE comment_of'[a] # c
  <2>1. AttachmentStep(a)
    BY <1>0, AttachmentSteps
  <2>2. ParentsLive(c) => FALSE
    BY <1>1, <1>3 DEF ParentsLive, CommentLive
  <2> QED BY <1>2, <2>1, <2>2 DEF AttachmentStep
<1> QED BY <1>4, <1>5

\* A count that was exact is exact after a step in which its row stands.
LEMMA Tally ==
  ASSUME NEW x \in Owner, num_attachments[x] = Cardinality(Uploaded(x)),
         \/ num_attachments'[x] = num_attachments[x] /\ Uploaded(x)' = Uploaded(x)
         \/ /\ num_attachments'[x] = num_attachments[x] + 1
            /\ \E a \in Attachments \ Uploaded(x) : Uploaded(x)' = Uploaded(x) \cup {a}
         \/ /\ num_attachments'[x] = num_attachments[x] - 1
            /\ \E a \in Uploaded(x) : Uploaded(x)' = Uploaded(x) \ {a}
  PROVE  num_attachments'[x] = Cardinality(Uploaded(x)')
<1>1. IsFiniteSet(Uploaded(x))
  BY FiniteSets
<1>2. ASSUME NEW a, a \notin Uploaded(x)
      PROVE  Cardinality(Uploaded(x) \cup {a}) = Cardinality(Uploaded(x)) + 1
  BY <1>1, <1>2, FS_AddElement
<1>3. ASSUME NEW a \in Uploaded(x)
      PROVE  Cardinality(Uploaded(x) \ {a}) = Cardinality(Uploaded(x)) - 1
  BY <1>1, FS_RemoveElement
<1> QED BY <1>2, <1>3

LEMMA CommentCount ==
  ASSUME Sound, PastInv, WorkInv, CountInv, [Next]_vars, NEW c \in Comments
  PROVE  /\ CommentLive(c)' => num_attachments'[c] = Cardinality(Uploaded(c)')
         /\ num_attachments'[c] >= 0
<1>0. Typed /\ CommentStep(c) /\ NumStep(c) /\ c \in Owner
  BY ParentSteps, NumSteps DEF Sound, Owner
<1>1. c # TheIssue
  BY TheIssueAssumption DEF TheIssue
<1>2. CommentLive(c) => num_attachments[c] = Cardinality(Uploaded(c))
  BY DEF CountInv, CountsExact
<1>3. ASSUME CommentLive(c)'
      PROVE  num_attachments'[c] = Cardinality(Uploaded(c)')
  <2>1. CASE CommentLive(c)
    BY <1>0, <1>1, <1>2, <2>1, Tally DEF NumStep, OwnerLive
  <2>2. CASE ~CommentLive(c)
    <3>1. comment[c] = "unborn" /\ UNCHANGED <<attachment, comment_of>>
      BY <1>0, <1>3, <2>2 DEF CommentStep, CommentLive
    <3>2. num_attachments[c] = 0 /\ LinkedTo(c) = {}
      BY <3>1 DEF CountInv, BornOK
    <3>3. Uploaded(c) = {}
      BY <1>1, <3>2 DEF Uploaded, LinkedTo, Owners
    <3>4. Uploaded(c)' = Uploaded(c)
      BY <1>0, <3>1, SameUploads DEF Owners, Linked
    <3>5. num_attachments'[c] = num_attachments[c]
      BY <1>0, <1>1, <2>2 DEF NumStep, OwnerLive
    <3> QED BY <3>2, <3>3, <3>4, <3>5, FS_EmptySet
  <2> QED BY <2>1, <2>2
<1>4. CASE CommentLive(c)'
  <2>1. Cardinality(Uploaded(c)') \in Nat
    BY FinitePrimed
  <2> QED BY <1>3, <1>4, <2>1
<1>5. CASE ~CommentLive(c)'
  <2>1. num_attachments'[c] = num_attachments[c]
    BY <1>0, <1>1, <1>5 DEF NumStep, OwnerLive, CommentLive
  <2> QED BY <1>5, <2>1 DEF CountInv, NotNegative
<1> QED BY <1>3, <1>4, <1>5

LEMMA IssueCounts ==
  ASSUME Sound, PastInv, WorkInv, CountInv, [Next]_vars
  PROVE  /\ issue' = "live" /\ ~tainted' =>
               /\ num_comments' = Cardinality(LiveComments')
               /\ num_attachments'[TheIssue] = Cardinality(Uploaded(TheIssue)')
         /\ ~tainted' => num_comments' >= 0 /\ num_attachments'[TheIssue] >= 0
<1> USE DEF identity, rows, storage
<1>0. Typed /\ NumStep(TheIssue) /\ CommentsStep /\ TheIssue \in Owner
  BY NumSteps, CommentsSteps DEF Sound, Owner
<1>1. CASE CreateIssue /\ ~tainted'
  <2>1. ~(\E c \in Comments : CommentLive(c)) /\ ~(\E a \in Attachments : Exists(a))
    BY <1>1 DEF CreateIssue
  <2>2. UNCHANGED <<comment, attachment, comment_of>> /\ num_comments' = 0
        /\ num_attachments'[TheIssue] = 0
    BY <1>0, <1>1 DEF Typed, CreateIssue
  <2>3. LiveComments' = {} /\ Uploaded(TheIssue)' = {}
    BY <2>1, <2>2 DEF LiveComments, CommentLive, Uploaded, Exists, Statuses
  <2> QED BY <2>2, <2>3, FS_EmptySet
<1>2. CASE issue' = "live" /\ ~tainted' /\ ~CreateIssue
  <2>1. issue = "live" /\ ~tainted
    BY <1>0, <1>2, IdentitySteps
  <2>2. /\ num_comments = Cardinality(LiveComments)
        /\ num_attachments[TheIssue] = Cardinality(Uploaded(TheIssue))
    BY <2>1 DEF CountInv, CountsExact, LiveComments
  <2>3. num_attachments'[TheIssue] = Cardinality(Uploaded(TheIssue)')
    BY <1>0, <1>2, <2>1, <2>2, Tally DEF NumStep, OwnerLive
  <2>4. num_comments' = Cardinality(LiveComments')
    <3>1. IsFiniteSet(LiveComments)
      BY FiniteSets
    <3>2. ASSUME NEW c, c \notin LiveComments
          PROVE  Cardinality(LiveComments \cup {c}) = Cardinality(LiveComments) + 1
      BY <3>1, <3>2, FS_AddElement
    <3>3. ASSUME NEW c \in LiveComments
          PROVE  Cardinality(LiveComments \ {c}) = Cardinality(LiveComments) - 1
      BY <3>1, FS_RemoveElement
    <3>4. UNCHANGED comment => LiveComments' = LiveComments
      BY DEF LiveComments, CommentLive
    <3> QED BY <1>0, <1>2, <2>1, <2>2, <3>2, <3>3, <3>4 DEF CommentsStep
  <2> QED BY <2>3, <2>4, FinitePrimed
<1>3. CASE issue' # "live" /\ ~tainted' /\ ~CreateIssue
  <2>1. ~tainted
    BY <1>0, <1>3, IdentitySteps
  <2>2. num_comments >= 0 /\ num_attachments[TheIssue] >= 0
    BY <2>1 DEF CountInv, NotNegative
  <2>3. num_attachments'[TheIssue] = num_attachments[TheIssue]
    BY <1>0, <1>3 DEF NumStep, OwnerLive
  <2>4. num_comments' = num_comments
    BY <1>0, <1>3 DEF CommentsStep
  <2> QED BY <1>3, <2>2, <2>3, <2>4
<1> QED BY <1>1, <1>2, <1>3

LEMMA CountStep ==
  ASSUME Sound, PastInv, WorkInv, CountInv, [Next]_vars PROVE CountInv'
<1>1. BornOK'
  BY BornStep DEF CountInv
<1>2. CountsExact'
  BY IssueCounts, CommentCount DEF CountsExact, LiveComments
<1>3. NotNegative'
  BY IssueCounts, CommentCount DEF NotNegative
<1> QED BY <1>1, <1>2, <1>3 DEF CountInv

THEOREM Counts == Spec => [](Sound /\ PastInv /\ WorkInv /\ CountInv)
<1>1. Init => Sound /\ PastInv /\ WorkInv /\ CountInv
  BY InitSound, InitCounts DEF Init, PastInv, PageOK, LadderOK
<1>2. Sound /\ PastInv /\ WorkInv /\ CountInv /\ [Next]_vars
         => (Sound /\ PastInv /\ WorkInv /\ CountInv)'
  BY SoundStep, PastStep, WorkStep, CountStep DEF CountInv
<1> QED BY <1>1, <1>2, PTL DEF Spec

\* num_comments and num_attachments are what a scan of the partition would count,
\* whichever of confirms, deletes, sweeps, crashes and redeliveries have met on the
\* rows, and for a reused id as well once nothing of the old Issue was left.
THEOREM CountsAreExact == Spec => []CountsExact
<1>1. CountInv => CountsExact
  BY DEF CountInv
<1> QED BY <1>1, Counts, PTL

\* Every variable keeps its type, and no counter goes below zero.
THEOREM TypeCorrect == Spec => []TypeOK
<1>1. Sound /\ CountInv => TypeOK
  BY DEF Sound, Typed, CountInv, NotNegative, TypeOK
<1> QED BY <1>1, Counts, PTL
=============================================================================
