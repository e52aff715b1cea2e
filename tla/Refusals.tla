------------------------------ MODULE Refusals ------------------------------
(***************************************************************************)
(* What a caller is told.  A call sends conditional requests one after      *)
(* another; when one is refused, the code works out from the old items and  *)
(* from the positions in CancellationReasons which error to raise.  Between *)
(* any two requests others change the rows, and the reply to a write may be *)
(* lost.                                                                   *)
(*                                                                         *)
(* A behaviour is one call of one operation of mixins/space.py,             *)
(* mixins/issue.py, mixins/comment.py or mixins/attachment.py, on arguments *)
(* that pass validation, over the rows its requests name.  The states of a  *)
(* row are those its conditions tell apart.                                 *)
(***************************************************************************)
EXTENDS Integers, Sequences, Functions

CONSTANTS
    TRANSACT_RETRY_ATTEMPTS,
    RETRY_ISSUE_ID_COLLISIONS,
    MaxChanges,   \* bound on the steps of others
    MaxLost       \* bound on the replies lost

ASSUME AttemptsAssumption ==
    TRANSACT_RETRY_ATTEMPTS \in Nat \ {0} /\ RETRY_ISSUE_ID_COLLISIONS \in Nat \ {0}
ASSUME BoundsAssumption == MaxChanges \in Nat /\ MaxLost \in Nat

VARIABLES
    call,      \* the operation and its arguments
    table,     \* the state of each row the call names, and of its object in S3
    lagging,   \* the state of each in a lagging copy
    at,        \* "ready", "calling" or "returned"
    step,      \* the request being sent
    attempts,  \* of retry_on_transaction_conflict, left
    rolls,     \* of create_issue's ids, left
    tries,     \* of delete_issue_attachment's ladder, left
    dropped,   \* the counters it has found gone: their rows
    lagged,    \* history: was a re-read of it answered by a lagging copy?
    result,    \* what the call returned
    seen,      \* history: every state of every row since the call began
    applied,   \* history: did the call change a row?
    resent,    \* history: was a single-item write applied, and sent again?
    changes,   \* steps of others so far, at most MaxChanges
    lost       \* replies lost so far, at most MaxLost

ladder == <<tries, dropped, lagged>>
progress == <<at, step, attempts, rolls, ladder, result, applied, resent, lost>>
vars == <<call, table, lagging, seen, changes, progress>>

-----------------------------------------------------------------------------
(***************************************************************************)
(* Rows.  An Issue is HELD when it is BLOCKED with active blockers; "done"  *)
(* is a satisfied blocker; "version" tells whether the version the caller   *)
(* read still is the row's.                                                 *)
(***************************************************************************)
IssueStates == {"none", "TODO", "BLOCKED", "HELD", "DONE"}
States ==
    [space |-> {"none", "empty", "full"},
     issue |-> IssueStates,
     blocking |-> IssueStates,
     blocker |-> {"none", "active", "done"},
     comment |-> {"none", "live"},
     attachment |-> {"none", "PENDING", "UPLOADED"},
     object |-> {"none", "stored"},
     version |-> {"read", "moved"}]
AllStates == UNION {States[r] : r \in DOMAIN States}
Live(r) == States[r] \ {"none"}

\* What a write makes of the state of a row.
Kept == [s \in AllStates |-> {s}]
Become(t) == [s \in AllStates |-> {t}]
Counted == [Kept EXCEPT !["empty"] = {"full"}]
Uncounted == [Kept EXCEPT !["full"] = {"full", "empty"}]
Blocked == [Become("BLOCKED") EXCEPT !["HELD"] = {"HELD"}]
Released == [Kept EXCEPT !["HELD"] = {"HELD", "BLOCKED"}]

\* An item of a request: the states its condition allows, what becomes of the row,
\* and whether the code looks at the old item a refusal returns (ALL_OLD).
Item(r, ok, to) == [row |-> r, ok |-> ok, to |-> to, old |-> FALSE]
MutantItemOld(r, ok, to) == Item(r, ok, to)
ItemOld(r, ok, to) == [row |-> r, ok |-> ok, to |-> to, old |-> TRUE]
Put(r, t) == Item(r, {"none"}, Become(t))
Delete(r) == Item(r, Live(r), Become("none"))
Exists(r) == Item(r, Live(r), Kept)

Transaction(items) == [kind |-> "transaction", items |-> items]
Write(item) == [kind |-> "write", items |-> <<item>>]
Read(r, ok) == [kind |-> "read", items |-> <<ItemOld(r, ok, Kept)>>]
HeadObject == [kind |-> "head", items |-> <<Item("object", {"stored"}, Kept)>>]

-----------------------------------------------------------------------------
(***************************************************************************)
(* The requests of each operation.                                         *)
(***************************************************************************)
GetItem(r) == <<Read(r, Live(r))>>
UpdateItem(r) == <<Write(ItemOld(r, Live(r), Kept))>>

CreateSpace == <<Write(Put("space", "empty"))>>
DeleteSpace == <<Write(ItemOld("space", {"empty"}, Become("none")))>>

CreateIssue ==
    <<Transaction(<<Item("space", Live("space"), Counted), Put("issue", "TODO")>>)>>
DeleteIssue ==
    <<Transaction(<<Delete("issue"), Item("space", Live("space"), Uncounted)>>)>>

TransitionIssue(s) ==
    <<Write(ItemOld("issue",
        (IF s = "DONE" THEN Live("issue") ELSE Live("issue") \ {"DONE"})
           \ (IF s = "BLOCKED" THEN {} ELSE {"HELD"}),
        IF s = "BLOCKED" THEN Blocked ELSE Become(s)))>>

\* The blocked Issue is counted and not moved to BLOCKED.
MutantAddIssueBlocker ==
    <<Transaction(<<ItemOld("blocking", Live("blocking") \ {"DONE"}, Kept),
                    ItemOld("issue", Live("issue") \ {"DONE"}, Kept),
                    Put("blocker", "active")>>)>>
AddIssueBlocker ==
    <<Transaction(<<ItemOld("blocking", Live("blocking") \ {"DONE"}, Kept),
                    ItemOld("issue", Live("issue") \ {"DONE"}, Become("HELD")),
                    Put("blocker", "active")>>)>>

\* The active form, and the bare delete it falls back to.
DeleteIssueBlocker ==
    <<Transaction(<<Item("blocker", {"active"}, Become("none")),
                    Item("issue", Live("issue"), Released)>>),
      Write(Item("blocker", {"done"}, Become("none")))>>

CreateIssueComment ==
    <<Transaction(<<Exists("issue"), Put("comment", "live")>>)>>
DeleteIssueComment ==
    <<Transaction(<<Delete("comment"), Exists("issue")>>)>>

IfLinked(linked, item) == IF linked THEN <<item>> ELSE <<>>

InitiateUpload(linked) ==
    <<Transaction(<<Exists("issue")>> \o IfLinked(linked, Exists("comment"))
                     \o <<Put("attachment", "PENDING")>>)>>
ResignUpload == <<Read("attachment", {"PENDING"})>>
ConfirmUploaded(linked) ==
    <<Read("attachment", Live("attachment")), HeadObject,
      Transaction(<<ItemOld("attachment", {"PENDING"}, Become("UPLOADED")),
                    Exists("issue")>> \o IfLinked(linked, Exists("comment")))>>

\* The read and the two rungs: the delete of a PENDING row, and of one that was counted.
DeleteIssueAttachment(linked) ==
    <<Read("attachment", Live("attachment")),
      Transaction(<<Item("attachment", {"PENDING"}, Become("none"))>>),
      Transaction(<<Item("attachment", {"UPLOADED"}, Become("none")),
                    Exists("issue")>> \o IfLinked(linked, Exists("comment")))>>

\* One short of what a confirm and two lost owners take.
MutantATTACHMENT_DELETE_ATTEMPTS == 3
ATTACHMENT_DELETE_ATTEMPTS == 4

\* The operations and the arguments that change what they send.
Calls ==
    [op : {"get"}, row : {"space", "issue", "comment", "attachment"}]
    \cup [op : {"update"}, row : {"space", "issue", "comment"}, fenced : BOOLEAN]
    \cup [op : {"transition_issue"}, status : {"TODO", "BLOCKED", "DONE"}, fenced : BOOLEAN]
    \cup [op : {"initiate_upload", "confirm_uploaded", "delete_issue_attachment"},
          linked : BOOLEAN]
    \cup [op : {"create_space", "delete_space", "create_issue", "delete_issue",
                "add_issue_blocker", "delete_issue_blocker", "create_issue_comment",
                "delete_issue_comment", "resign_upload"}]

RequestsOf(c) ==
    CASE c.op = "get" -> GetItem(c.row)
      [] c.op = "update" -> UpdateItem(c.row)
      [] c.op = "create_space" -> CreateSpace
      [] c.op = "delete_space" -> DeleteSpace
      [] c.op = "create_issue" -> CreateIssue
      [] c.op = "delete_issue" -> DeleteIssue
      [] c.op = "transition_issue" -> TransitionIssue(c.status)
      [] c.op = "add_issue_blocker" -> AddIssueBlocker
      [] c.op = "delete_issue_blocker" -> DeleteIssueBlocker
      [] c.op = "create_issue_comment" -> CreateIssueComment
      [] c.op = "delete_issue_comment" -> DeleteIssueComment
      [] c.op = "initiate_upload" -> InitiateUpload(c.linked)
      [] c.op = "resign_upload" -> ResignUpload
      [] c.op = "confirm_uploaded" -> ConfirmUploaded(c.linked)
      [] c.op = "delete_issue_attachment" -> DeleteIssueAttachment(c.linked)

\* Each item of a transaction sent on its own.
MutantRequests(c) ==
    IF c.op = "add_issue_blocker"
      THEN LET items == AddIssueBlocker[1].items
           IN [i \in DOMAIN items |-> Write(items[i])]
      ELSE RequestsOf(c)
Requests(c) == RequestsOf(c)

Fenced(c) == "fenced" \in DOMAIN c /\ c.fenced
RowsOf(c) ==
    {"version"}
    \cup UNION {{item.row : item \in Range(request.items)} : request \in Range(Requests(c))}

\* update_issue_comment is not retried.
AttemptsOf(c) ==
    IF c.op = "update" /\ c.row = "comment" THEN 1 ELSE TRANSACT_RETRY_ATTEMPTS

-----------------------------------------------------------------------------
(***************************************************************************)
(* Errors: each names a row and the states it says that row was in.         *)
(***************************************************************************)
Error(name, r, states) == [error |-> name, row |-> r, states |-> states]
Success == Error("none", "version", {})
Failed == Error("failed", "version", {})
Unexplained == Error("DDBInternalError", "version", {})
GaveUp == Error("DDBInternalError", "attachment", {})
Conflict == Error("DDBTransactionConflictError", "version", {})
Collision == Error("DDBIdCollisionError", "issue", Live("issue"))

\* classify of transition_issue.
Classify(status, old) ==
    CASE status # "DONE" /\ old = "DONE" -> Error("DDBTerminalStatusError", "issue", {"DONE"})
      [] status # "BLOCKED" /\ old = "HELD" -> Error("DDBStillBlockedError", "issue", {"HELD"})
      [] OTHER -> Unexplained

\* What a row that exists was refused for.
DomainError(c, r, old) ==
    CASE c.op = "delete_space" -> Error("DDBSpaceNotEmptyError", r, {"full"})
      [] c.op = "transition_issue" -> Classify(c.status, old)
      [] r = "blocking" -> Error("DDBBlockingIssueDoneError", r, {"DONE"})
      [] r = "issue" /\ c.op = "add_issue_blocker" ->
            Error("DDBTerminalStatusError", r, {"DONE"})
      [] r = "attachment" -> Error("DDBAttachmentStatusError", r, {"UPLOADED"})
      [] OTHER -> Unexplained

\* The error for a refused item, given the old item that came back, "none" if there
\* is none or the code does not look.  A Put is refused only by a row that exists;
\* for the rest missing comes before stale, and stale before what the row holds.
Explain(c, item, old) ==
    IF item.ok = {"none"} THEN Error("DDBExistsError", item.row, Live(item.row))
    ELSE IF item.row = "object" THEN Error("StorageObjectMissingError", "object", {"none"})
    ELSE IF old = "none" THEN Error("DDBMissingError", item.row, {"none"})
    ELSE IF Fenced(c) /\ table["version"] = "moved"
      THEN Error("DDBVersionConflictError", "version", {"moved"})
    ELSE DomainError(c, item.row, old)

\* The positions of CancellationReasons in the order the code looks at them.
Checks(c, n) ==
    IF c.op = "delete_issue_blocker" /\ n = 1 THEN <<2, 1>>
    ELSE [i \in DOMAIN Requests(c)[n].items |-> i]

-----------------------------------------------------------------------------
(***************************************************************************)
(* Others                                                                  *)
(***************************************************************************)
IssueMoves ==
    ({"none"} \X {"TODO", "BLOCKED", "DONE"})
    \cup ({"TODO", "BLOCKED"} \X {"TODO", "BLOCKED", "HELD", "DONE", "none"})
    \cup {<<"HELD", "BLOCKED">>, <<"HELD", "none">>, <<"DONE", "none">>}
Moves ==
    [space |-> {<<"none", "empty">>, <<"empty", "none">>, <<"empty", "full">>,
                <<"full", "empty">>},
     issue |-> IssueMoves,
     blocking |-> IssueMoves,
     blocker |-> {<<"none", "active">>, <<"active", "done">>, <<"active", "none">>,
                  <<"done", "none">>},
     comment |-> {<<"live", "none">>},
     attachment |-> {<<"PENDING", "UPLOADED">>, <<"PENDING", "none">>, <<"UPLOADED", "none">>},
     object |-> {<<"none", "stored">>, <<"stored", "none">>},
     version |-> {<<"read", "moved">>}]

\* What the other modules show of rows together, when ids are not reused: a Space
\* counts its Issues, an active blocker holds the Issue it names and is satisfied
\* only when the other is DONE or gone, an UPLOADED attachment has its object.
Implies(t, r, s, q, ok) ==
    {r, q} \subseteq DOMAIN t /\ t[r] \in s => t[q] \in ok
Possible(t) ==
    /\ Implies(t, "issue", Live("issue"), "space", {"full"})
    /\ Implies(t, "blocker", {"active"}, "issue", {"HELD", "none"})
    /\ Implies(t, "blocker", {"done"}, "blocking", {"DONE", "none"})
    /\ Implies(t, "attachment", {"UPLOADED"}, "object", {"stored"})

Facts(t) == {<<r, t[r]>> : r \in DOMAIN t}
Becomes(t) ==
    /\ table' = t
    /\ seen' = IF at = "calling" THEN seen \cup Facts(t) ELSE seen

Others(r, s) ==
    /\ at # "returned" /\ changes < MaxChanges
    /\ r \in DOMAIN table /\ <<table[r], s>> \in Moves[r]
    /\ <<r, s>> = <<"object", "none">> => table["attachment"] = "none"
    /\ LET t == [table EXCEPT ![r] = s] IN Possible(t) /\ Becomes(t)
    /\ changes' = changes + 1
    /\ UNCHANGED <<call, lagging, progress>>

Propagate(r) ==
    /\ at # "returned" /\ lagging[r] # table[r]
    /\ lagging' = [lagging EXCEPT ![r] = table[r]]
    /\ UNCHANGED <<call, table, seen, changes, progress>>

Init ==
    /\ call \in Calls
    /\ table \in {t \in [RowsOf(call) -> AllStates] :
                    /\ \A r \in DOMAIN t : t[r] \in States[r]
                    /\ t["version"] = "read" /\ Possible(t)}
    /\ lagging \in {table}
         \cup {[table EXCEPT ![r] = "none"] : r \in DOMAIN table \ {"version"}}
    /\ at = "ready" /\ step = 1 /\ attempts = AttemptsOf(call)
    /\ rolls = RETRY_ISSUE_ID_COLLISIONS
    /\ tries = ATTACHMENT_DELETE_ATTEMPTS /\ dropped = {} /\ lagged = FALSE
    /\ result = Success
    /\ seen = {} /\ applied = FALSE /\ resent = FALSE
    /\ changes = 0 /\ lost = 0

-----------------------------------------------------------------------------
(***************************************************************************)
(* The call                                                                *)
(***************************************************************************)
Begin ==
    /\ at = "ready" /\ at' = "calling"
    /\ seen' = Facts(table)
    /\ UNCHANGED <<call, table, lagging, step, attempts, rolls, ladder, result, applied,
                   resent, changes, lost>>

Return(answer) == at' = "returned" /\ result' = answer

Request == Requests(call)[step]
Items == Request.items

\* get_primary_item may be answered by a lagging copy; nothing else is.
Views == IF Request.kind = "read" THEN {table, lagging} ELSE {table}

Refuses(item, view) ==
    \/ view[item.row] \notin item.ok
    \/ Request.kind = "write" /\ Fenced(call) /\ view["version"] = "moved"
RefusedItems(view) ==
    {i \in DOMAIN Items : Items[i].row \notin dropped /\ Refuses(Items[i], view)}

\* The states the rows of a request may be left in.
Effects ==
    LET named == {item.row : item \in Range(Items)}
        left == UNION {item.to[table[item.row]] : item \in Range(Items)}
    IN {[r \in DOMAIN table |->
            IF r \in named THEN pick[r]
            ELSE IF r = "version" /\ Fenced(call) THEN "moved" ELSE table[r]] :
          pick \in {f \in [named -> left] :
                      \A item \in Range(Items) : f[item.row] \in item.to[table[item.row]]}}

Apply ==
    /\ \E t \in Effects : Becomes(t)
    /\ applied' = (applied \/ Request.kind \in {"write", "transaction"})

\* A read goes on to the next request; the fallback and the other rung are for a refusal.
LastRequest ==
    \/ step = Len(Requests(call))
    \/ call.op \in {"delete_issue_blocker", "delete_issue_attachment"}

Accepted ==
    /\ at = "calling" /\ ~(call.op = "delete_issue_attachment" /\ step = 1)
    /\ \E view \in Views : RefusedItems(view) = {}
    /\ Apply
    /\ IF LastRequest THEN Return(Success) /\ UNCHANGED step
                      ELSE step' = step + 1 /\ UNCHANGED <<at, result>>
    /\ UNCHANGED <<call, lagging, attempts, rolls, ladder, resent, changes, lost>>

\* A create draws its id anew whenever it is tried again: another row, which may exist.
Redrawn ==
    LET WithId(r) ==
          {t \in {[table EXCEPT ![r] = s] : s \in States[r]} : Possible(t)}
    IN CASE call.op = "create_issue" -> WithId("issue")
         [] call.op = "create_issue_comment" -> WithId("comment")
         [] call.op = "initiate_upload" -> WithId("attachment")
         [] OTHER -> {table}

\* The first refused item the code looks at, or 0.
Blamed(view) ==
    LET order == Checks(call, step)
        found == {j \in DOMAIN order : order[j] \in RefusedItems(view)}
    IN IF found = {} THEN 0 ELSE order[CHOOSE j \in found : \A k \in found : j <= k]

\* delete_issue_blocker: the row is not active, so it is satisfied or gone.
FallBack ==
    /\ at = "calling" /\ call.op = "delete_issue_blocker" /\ step = 1
    /\ Blamed(table) = 1
    /\ step' = 2
    /\ UNCHANGED <<call, table, lagging, at, attempts, rolls, ladder, result, seen, applied,
                   resent, changes, lost>>

\* create_issue: the id is taken, another is drawn.
Reroll ==
    /\ at = "calling" /\ call.op = "create_issue" /\ rolls > 1
    /\ Blamed(table) = 2
    /\ rolls' = rolls - 1
    /\ \E t \in Redrawn : Becomes(t)
    /\ UNCHANGED <<call, lagging, at, step, attempts, ladder, result, applied, resent,
                   changes, lost>>

\* delete_issue_attachment: the row is read, and the rung is that of the status read.
\* Past the first read, which is the caller's, it reads only what a refusal left in doubt.
OnLadder ==
    call.op = "delete_issue_attachment"
      /\ (step # 1 \/ tries < ATTACHMENT_DELETE_ATTEMPTS)

FindAttachment(view) ==
    /\ at = "calling" /\ call.op = "delete_issue_attachment" /\ step = 1
    /\ view \in Views /\ RefusedItems(view) = {}
    /\ IF tries = 0 THEN Return(GaveUp) /\ UNCHANGED step
                    ELSE /\ step' = IF view["attachment"] = "PENDING" THEN 2 ELSE 3
                         /\ UNCHANGED <<at, result>>
    /\ attempts' = AttemptsOf(call)
    /\ lagged' = (lagged \/ (OnLadder /\ view["attachment"] # table["attachment"]))
    /\ UNCHANGED <<call, table, lagging, rolls, tries, dropped, seen, applied, resent, changes,
                   lost>>

\* Not PENDING any more: confirmed, or gone.
PendingRefused ==
    /\ at = "calling" /\ call.op = "delete_issue_attachment" /\ step = 2
    /\ RefusedItems(table) # {}
    /\ tries' = tries - 1 /\ step' = 1
    /\ UNCHANGED <<call, table, lagging, at, attempts, rolls, dropped, lagged, result, seen,
                   applied, resent, changes, lost>>

\* The row of a counter is gone: the delete goes on without that counter.
CounterRefused ==
    /\ at = "calling" /\ call.op = "delete_issue_attachment" /\ step = 3
    /\ Blamed(table) > 1
    /\ dropped' = dropped \cup {Items[Blamed(table)].row}
    /\ tries' = tries - 1
    /\ IF tries = 1 THEN Return(GaveUp) ELSE UNCHANGED <<at, result>>
    /\ attempts' = AttemptsOf(call)
    /\ UNCHANGED <<call, table, lagging, step, rolls, lagged, seen, applied, resent, changes,
                   lost>>

\* The row is gone, whoever removed it.
AlreadyGone ==
    /\ at = "calling" /\ OnLadder
    /\ \/ step = 1 /\ \E view \in Views : RefusedItems(view) # {}
       \/ step = 3 /\ Blamed(table) = 1
    /\ Return(Success)
    /\ UNCHANGED <<call, table, lagging, step, attempts, rolls, ladder, seen, applied, resent,
                   changes, lost>>

Told(view) ==
    LET i == Blamed(view)
    IN IF i = 0 THEN Unexplained
       ELSE IF call.op = "create_issue" /\ i = 2 THEN Collision
       ELSE Explain(call, Items[i], IF Items[i].old THEN view[Items[i].row] ELSE "none")

Refused(view) ==
    /\ at = "calling" /\ view \in Views /\ RefusedItems(view) # {}
    /\ ~(call.op = "delete_issue_blocker" /\ step = 1 /\ Blamed(view) = 1)
    /\ ~(call.op = "create_issue" /\ rolls > 1 /\ Blamed(view) = 2)
    /\ ~OnLadder
    /\ Return(Told(view))
    /\ seen' = seen \cup {<<item.row, view[item.row]>> : item \in Range(Items)}
    /\ UNCHANGED <<call, table, lagging, step, attempts, rolls, ladder, applied, resent,
                   changes, lost>>

Writing == at = "calling" /\ Request.kind \in {"write", "transaction"}

\* A transaction in flight holds a row.  The whole call is tried again, or, on the
\* ladder, that transaction alone.
MeetConflict ==
    /\ Writing
    /\ \/ /\ attempts > 1
          /\ attempts' = attempts - 1
          /\ step' = IF call.op = "delete_issue_attachment" THEN step ELSE 1
          /\ rolls' = RETRY_ISSUE_ID_COLLISIONS
          /\ \E t \in Redrawn : Becomes(t)
          /\ UNCHANGED <<at, result>>
       \/ /\ attempts = 1
          /\ Return(Conflict)
          /\ UNCHANGED <<table, seen, step, attempts, rolls>>
    /\ UNCHANGED <<call, lagging, ladder, applied, resent, changes, lost>>

\* The request is applied and its reply lost.  The AWS client sends it again, or
\* gives up; a transaction sent again has the token of the first and is not applied
\* twice, which is then as if the reply had come.
LoseReply ==
    /\ Writing /\ RefusedItems(table) = {} /\ lost < MaxLost
    /\ Apply
    /\ lost' = lost + 1
    /\ \/ Request.kind = "write" /\ resent' = TRUE /\ UNCHANGED <<at, result>>
       \/ Return(Failed) /\ UNCHANGED resent
    /\ UNCHANGED <<call, lagging, step, attempts, rolls, ladder, changes>>

\* An error of another kind: DDBInternalError or StorageInternalError.
Fail ==
    /\ at = "calling"
    /\ Return(Failed)
    /\ UNCHANGED <<call, table, lagging, seen, step, attempts, rolls, ladder, applied, resent,
                   changes, lost>>

Next ==
    \/ \E r \in DOMAIN table : Propagate(r) \/ \E s \in States[r] : Others(r, s)
    \/ Begin \/ Accepted \/ FallBack \/ Reroll
    \/ \E view \in {table, lagging} : Refused(view) \/ FindAttachment(view)
    \/ PendingRefused \/ CounterRefused \/ AlreadyGone
    \/ MeetConflict \/ LoseReply \/ Fail

Spec == Init /\ [][Next]_vars

-----------------------------------------------------------------------------
(***************************************************************************)
(* Properties                                                              *)
(***************************************************************************)
\* The type of every variable; no call leaves rows that the other modules exclude.
TypeOK ==
    /\ call \in Calls /\ DOMAIN table = RowsOf(call) /\ DOMAIN lagging = RowsOf(call)
    /\ \A r \in DOMAIN table : table[r] \in States[r] /\ lagging[r] \in States[r]
    /\ Possible(table)
    /\ at \in {"ready", "calling", "returned"} /\ step \in 1 .. Len(Requests(call))
    /\ attempts \in 1 .. TRANSACT_RETRY_ATTEMPTS /\ rolls \in 1 .. RETRY_ISSUE_ID_COLLISIONS
    /\ tries \in 0 .. ATTACHMENT_DELETE_ATTEMPTS /\ dropped \subseteq {"issue", "comment"}
    /\ lagged \in BOOLEAN
    /\ result.row \in DOMAIN States /\ result.states \subseteq States[result.row]
    /\ seen \subseteq UNION {{r} \X States[r] : r \in DOMAIN table}
    /\ applied \in BOOLEAN /\ resent \in BOOLEAN
    /\ changes \in 0 .. MaxChanges /\ lost \in 0 .. MaxLost

\* An error tells the caller something that was so while the call ran, of the row it
\* names, or of the lagging copy its read was answered from: whatever others did
\* between the requests of the call, and whichever of several conditions failed.
ErrorsAreTrue ==
    at = "returned" /\ result.states # {}
       => \E s \in result.states : <<result.row, s>> \in seen

\* A refused condition is never reported as DDBInternalError, save by a delete of an
\* attachment that gave up because a lagging copy answered one of its re-reads: its
\* attempts are enough for every confirm and every lost owner it can meet.
NothingUnexplained == result # Unexplained /\ (result = GaveUp => lagged)

\* A call that ends in an error other than an internal one changed nothing: what it
\* had to change it changed in one request, or not at all.  The exception is a
\* single-item write whose reply was lost: sent again, it may be refused for what the
\* first one wrote.
RefusedChangedNothing ==
    at = "returned" /\ result \notin {Success, Failed} /\ applied => resent
=============================================================================
