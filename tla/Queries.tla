------------------------------ MODULE Queries ------------------------------
(***************************************************************************)
(* Reading rows page by page while they change: run_query and paginate      *)
(* (manager.py) with the two kinds of sort key they are used with.          *)
(*                                                                         *)
(* "thread": the comments of an Issue in its partition, under              *)
(* get_issue_comments and get_issue_comments_after (mixins/comment.py).  A  *)
(* comment has one key, its UUIDv7.                                         *)
(* "listing": the Issues of one status in GSI1, under get_issues_by_status  *)
(* (mixins/issue.py).  An Issue has a new key, its status_updated_at,       *)
(* whenever its status is written.  get_spaces and                          *)
(* get_issue_comment_attachments are listings whose rows keep their key.    *)
(*                                                                         *)
(* Keys are drawn by the caller before its write commits, and are numbered  *)
(* here in the order they are drawn.  A page is the start of what a query   *)
(* still has to return, at most Limit rows and possibly fewer (DynamoDB     *)
(* stops at 1 MB), read from the table or from a copy that lags behind it;  *)
(* an index is always such a copy.                                          *)
(***************************************************************************)
EXTENDS Integers, Sequences, SequencesExt, FiniteSets

CONSTANTS
    Issues,    \* the Issues that a listing may hold
    MaxKeys,   \* bound on the keys drawn
    Limit      \* rows a page may hold

ASSUME BoundsAssumption == MaxKeys \in Nat \ {0} /\ Limit \in Nat \ {0}

VARIABLES
    index,      \* "thread" or "listing": what is being read
    row,        \* the row each key was drawn for, in the order of the keys
    writing,    \* keys drawn and not committed
    entries,    \* the keys in the index
    late,       \* history: keys committed behind one drawn later
    lagging,    \* the keys a lagging copy shows
    thread,     \* the comments the syncing caller holds
    query       \* the pages being read, or those of the last reading

vars == <<index, row, writing, entries, late, lagging, thread, query>>

\* The partition's sort keys: the info row, then comments, then attachments.
\* GSI1PK holds the Issues of one status and nothing else.
InfoKey == 0
AttachmentKey == MaxKeys + 1
Keys == 1 .. MaxKeys
Drawn == 1 .. Len(row)
Partition(keys) == IF index = "thread" THEN {InfoKey, AttachmentKey} \cup keys ELSE keys

\* A comment is a row of its own.
RowsOf(kind) == IF kind = "thread" THEN {Len(row) + 1} ELSE Issues
KeysOf(r) == {k \in Drawn : row[k] = r}

\* The newest comment the syncing caller holds, InfoKey when it holds none.
Newest == IF thread = {} THEN InfoKey ELSE CHOOSE k \in thread : \A j \in thread : j <= k

Modes == {"oldest first", "newest first", "after"}
ModesOf(kind) == IF kind = "thread" THEN Modes ELSE {"oldest first"}
NoQuery == [at |-> "none", mode |-> "after", start |-> <<>>, got |-> <<>>, still |-> {}]

Init ==
    /\ index \in {"thread", "listing"}
    /\ row = <<>> /\ writing = {}
    /\ entries = {} /\ late = {} /\ lagging = {}
    /\ thread = {}
    /\ query = NoQuery

-----------------------------------------------------------------------------
\* An id, or a status_updated_at, is drawn.
Draw(r) ==
    /\ Len(row) < MaxKeys /\ r \in RowsOf(index)
    /\ row' = Append(row, r)
    /\ writing' = writing \cup {Len(row) + 1}
    /\ UNCHANGED <<index, entries, late, lagging, thread, query>>

\* Rewriting the key moves the row: it leaves the place it had.
Replaced(k) == KeysOf(row[k]) \ {k}

\* still: the keys a query that started has no excuse to miss or to repeat.
Commit(k) ==
    /\ k \in writing
    /\ writing' = writing \ {k}
    /\ entries' = (entries \ Replaced(k)) \cup {k}
    /\ late' = late \cup {j \in {k} : \E i \in Drawn \ writing : i > k}
    /\ query' = [query EXCEPT !.still = @ \ KeysOf(row[k])]
    /\ UNCHANGED <<index, row, lagging, thread>>

\* The sort key fed by updated_at, which every write sets.
MutantKept(k) == (entries \ Replaced(k)) \cup {k}
Kept(k) == entries

\* An Issue is edited and keeps its status: the time drawn is its updated_at.
Edit(k) ==
    /\ index = "listing" /\ k \in writing /\ KeysOf(row[k]) \cap entries # {}
    /\ writing' = writing \ {k}
    /\ entries' = Kept(k)
    /\ UNCHANGED <<index, row, late, lagging, thread, query>>

\* A comment or an Issue is deleted, or an Issue is given another status.
Leave(k) ==
    /\ k \in entries
    /\ entries' = entries \ {k}
    /\ query' = [query EXCEPT !.still = @ \ {k}]
    /\ UNCHANGED <<index, row, writing, late, lagging, thread>>

\* A partition is copied write by write in their order: its copy is what it once
\* was.  An index is not one partition's log: it takes up, and drops, places of rows
\* in any order.
Propagate ==
    /\ lagging # entries
    /\ \/ index = "thread" /\ lagging' = entries
       \/ /\ index = "listing"
          /\ \/ \E k \in entries \ lagging : lagging' = lagging \cup {k}
             \/ \E k \in lagging \ entries : lagging' = lagging \ {k}
    /\ UNCHANGED <<index, row, writing, entries, late, thread, query>>

-----------------------------------------------------------------------------
\* SK_EXCLUSIVE_SUFFIX left out.
MutantInclusive(mode, k) ==
    k \in Keys /\ (mode = "after" => k >= Newest)

\* The key condition of each query.  BETWEEN starts past the last comment held
\* and ends with the comments; without an end it would run into attachments.
MutantInRange(mode, k) ==
    IF mode = "after" THEN k > Newest ELSE k \in Keys
InRange(mode, k) ==
    k \in Keys /\ (mode = "after" => k > Newest)

Before(mode, j, k) == IF mode = "newest first" THEN j > k ELSE j < k

\* ExclusiveStartKey: what is left after the key of the row read last, whether
\* that row still stands or not.
Beyond(mode, start, k) == \A i \in 1 .. Len(start) : Before(mode, start[i], k)

Remaining(keys) ==
    {k \in Partition(keys) : InRange(query.mode, k) /\ Beyond(query.mode, query.start, k)}

\* The rows of a page are in order, and in front of those it leaves.
InOrder(page, rest) ==
    \A i \in DOMAIN page :
       /\ \A j \in DOMAIN page : i < j => Before(query.mode, page[i], page[j])
       /\ \A k \in rest \ ToSet(page) : Before(query.mode, page[i], k)

\* What stands in the table and in the copy, and at no other place.
Standing ==
    {k \in entries \cap lagging : KeysOf(row[k]) \cap (entries \cup lagging) = {k}}

Begin(mode) ==
    /\ query.at # "reading" /\ mode \in ModesOf(index)
    /\ query' = [at |-> "reading", mode |-> mode, start |-> <<>>, got |-> <<>>,
                 still |-> Standing]
    /\ UNCHANGED <<index, row, writing, entries, late, lagging, thread>>

Copies == IF index = "thread" THEN {entries, lagging} ELSE {lagging}

\* LastEvaluatedKey is there when rows are left, and when the page filled up.
MutantMore(page, rest) == Len(page) = Limit
More(page, rest) == Len(page) = Limit \/ rest # ToSet(page)

ReadPage(n) ==
    /\ query.at = "reading"
    /\ \E keys \in Copies : \E page \in [1 .. n -> Remaining(keys)] :
          /\ InOrder(page, Remaining(keys))
          /\ n = 0 => Remaining(keys) = {}
          /\ query' = [query EXCEPT
                !.got = @ \o page,
                !.start = IF n = 0 THEN @ ELSE <<Last(page)>>,
                !.at = IF More(page, Remaining(keys)) THEN "reading" ELSE "read"]
    /\ UNCHANGED <<index, row, writing, entries, late, lagging, thread>>

\* The caller adds what a whole sync returned to the thread it holds.
Extend ==
    /\ query.at = "read" /\ query.mode = "after"
    /\ thread' = thread \cup ToSet(query.got)
    /\ query' = [query EXCEPT !.at = "none"]
    /\ UNCHANGED <<index, row, writing, entries, late, lagging>>

Next ==
    \/ \E r \in RowsOf(index) : Draw(r)
    \/ \E k \in Drawn : Commit(k) \/ Edit(k) \/ Leave(k)
    \/ Propagate
    \/ \E mode \in Modes : Begin(mode)
    \/ \E n \in 0 .. Limit : ReadPage(n)
    \/ Extend

Spec == Init /\ [][Next]_vars

-----------------------------------------------------------------------------
(***************************************************************************)
(* Properties                                                              *)
(***************************************************************************)
\* The type of every variable; a page holds rows of the query and no other.
TypeOK ==
    /\ index \in {"thread", "listing"}
    /\ row \in Seq(Keys \cup Issues) /\ Len(row) <= MaxKeys
    /\ writing \subseteq Drawn /\ late \subseteq Drawn /\ entries \subseteq Drawn
    /\ lagging \subseteq Drawn /\ thread \subseteq Drawn
    /\ query \in [at : {"none", "reading", "read"}, mode : Modes, start : Seq(Keys),
                  got : Seq(Keys), still : SUBSET Drawn]
    /\ Len(query.start) <= 1

\* The pages of a query return a key once, in the order asked for, and a sync none
\* that the caller already holds, whatever is written in between.
OnceInOrder ==
    /\ \A i, j \in 1 .. Len(query.got) :
          i < j => Before(query.mode, query.got[i], query.got[j])
    /\ query.at # "none" /\ query.mode = "after" => ToSet(query.got) \cap thread = {}

\* A query read to its end returns every row that stood all along, and returns it
\* once: an Issue comes twice, or not at all, only if its status was written while it
\* was read or just before.  No edit moves it.
PassComplete ==
    /\ query.at = "read" /\ query.mode # "after" => query.still \subseteq ToSet(query.got)
    /\ \A j \in query.still : \A k \in ToSet(query.got) : row[j] = row[k] => j = k

\* A caller that syncs to the end holds every comment that stood all along, but
\* for those that committed behind a comment whose id was drawn later: no other is
\* ever missed, however pages lag, fall short or meet deleted rows.
SyncComplete ==
    query.at = "read" /\ query.mode = "after"
       => query.still \ late \subseteq thread \cup ToSet(query.got)
=============================================================================
