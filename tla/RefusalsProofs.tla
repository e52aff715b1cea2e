--------------------------- MODULE RefusalsProofs ---------------------------
(***************************************************************************)
(* What a caller is told, for any number of attempts and ids drawn, of      *)
(* changes made by others and of replies lost.                              *)
(*                                                                         *)
(* The requests of the fifteen operations come down to what their items     *)
(* may be refused for: a row that exists, one that is missing, or what a    *)
(* row holds (Reason).  For each the code has an error, and the refusal     *)
(* proves what that error says.                                             *)
(***************************************************************************)
EXTENDS Refusals, SequenceTheorems, TLAPS

-----------------------------------------------------------------------------
(***************************************************************************)
(* Rows and what writes make of them                                       *)
(***************************************************************************)
Rows == {"space", "issue", "blocking", "blocker", "comment", "attachment", "object"}

LEMMA StatesAre ==
  /\ DOMAIN States = Rows \cup {"version"}
  /\ States["space"] = {"none", "empty", "full"}
  /\ States["issue"] = IssueStates /\ States["blocking"] = IssueStates
  /\ States["blocker"] = {"none", "active", "done"}
  /\ States["comment"] = {"none", "live"}
  /\ States["attachment"] = {"none", "PENDING", "UPLOADED"}
  /\ States["object"] = {"none", "stored"}
  /\ States["version"] = {"read", "moved"}
  /\ \A r \in Rows : "none" \in States[r] /\ States[r] \subseteq AllStates
                     /\ Live(r) = States[r] \ {"none"}
<1>1. /\ DOMAIN States = Rows \cup {"version"}
      /\ States["space"] = {"none", "empty", "full"}
      /\ States["issue"] = IssueStates /\ States["blocking"] = IssueStates
      /\ States["blocker"] = {"none", "active", "done"}
      /\ States["comment"] = {"none", "live"}
      /\ States["attachment"] = {"none", "PENDING", "UPLOADED"}
      /\ States["object"] = {"none", "stored"}
      /\ States["version"] = {"read", "moved"}
  BY DEF States, Rows
<1>2. \A r \in Rows : "none" \in States[r] /\ States[r] \subseteq AllStates
  BY <1>1 DEF Rows, IssueStates, AllStates
<1> QED BY <1>1, <1>2 DEF Live

\* A write leaves a row in one of its states.
Keeps(r, to) == \A s \in States[r] : to[s] \subseteq States[r]

LEMMA WritesKeep ==
  /\ \A r \in Rows : Keeps(r, Kept) /\ \A t \in States[r] : Keeps(r, Become(t))
  /\ Keeps("space", Counted) /\ Keeps("space", Uncounted)
  /\ Keeps("issue", Blocked) /\ Keeps("issue", Released)
<1>1. \A s \in AllStates : Kept[s] = {s} /\ \A t : Become(t)[s] = {t}
  BY DEF Kept, Become
<1>2. \A r \in Rows : Keeps(r, Kept) /\ \A t \in States[r] : Keeps(r, Become(t))
  <2> SUFFICES ASSUME NEW r \in Rows, NEW t \in States[r], NEW s \in States[r]
               PROVE  Kept[s] \subseteq States[r] /\ Become(t)[s] \subseteq States[r]
    BY StatesAre DEF Keeps
  <2> QED BY <1>1, StatesAre
<1>3. \A s \in States["space"] :
         Counted[s] \subseteq {s, "full"} /\ Uncounted[s] \subseteq {s, "full", "empty"}
  BY <1>1, StatesAre DEF Counted, Uncounted, Kept, Rows
<1>4. \A s \in States["issue"] :
         /\ Blocked[s] \subseteq {"BLOCKED", "HELD"}
         /\ Released[s] \subseteq {s, "HELD", "BLOCKED"}
  BY <1>1, StatesAre DEF Blocked, Released, Kept, Become, Rows
<1> QED BY <1>2, <1>3, <1>4, StatesAre DEF Keeps, IssueStates

LEMMA Fields ==
  \A r, ok, to :
     /\ Item(r, ok, to).row = r /\ Item(r, ok, to).ok = ok
     /\ Item(r, ok, to).to = to /\ Item(r, ok, to).old = FALSE
     /\ ItemOld(r, ok, to).row = r /\ ItemOld(r, ok, to).ok = ok
     /\ ItemOld(r, ok, to).to = to /\ ItemOld(r, ok, to).old = TRUE
BY DEF Item, ItemOld

LEMMA TwoItems ==
  ASSUME NEW a, NEW b
  PROVE  <<a>> \o <<b>> = <<a, b>>
<1> DEFINE S == {a, b}
           s == <<a>>
           t == <<b>>
           u == s \o t
<1>1. /\ s \in Seq(S) /\ t \in Seq(S) /\ <<a, b>> \in Seq(S)
      /\ Len(s) = 1 /\ Len(t) = 1 /\ Len(<<a, b>>) = 2
      /\ s[1] = a /\ t[1] = b
  OBVIOUS
<1>2. /\ s \o t \in Seq(S) /\ Len(s \o t) = Len(s) + Len(t)
      /\ \A i \in 1 .. Len(s) + Len(t) :
            (s \o t)[i] = IF i <= Len(s) THEN s[i] ELSE t[i - Len(s)]
  <2> HIDE DEF S, s, t
  <2> QED BY <1>1, ConcatProperties
<1>3. u \in Seq(S) /\ Len(u) = 2 /\ u[1] = a /\ u[2] = b
  <2> HIDE DEF S, s, t
  <2>1. /\ 1 \in 1 .. Len(s) + Len(t) /\ 2 \in 1 .. Len(s) + Len(t)
        /\ 1 <= Len(s) /\ ~(2 <= Len(s)) /\ 2 - Len(s) = 1
    BY <1>1
  <2> QED BY <1>1, <1>2, <2>1
<1>4. \A i \in 1 .. Len(u) : u[i] = <<a, b>>[i]
  <2> HIDE DEF u
  <2>1. \A i \in 1 .. 2 : i = 1 \/ i = 2
    OBVIOUS
  <2> QED BY <1>3, <2>1
<1> HIDE DEF S, u
<1>5. u = <<a, b>>
  BY <1>1, <1>3, <1>4, SeqEqual
<1> QED BY <1>5 DEF u

LEMMA ThreeItems ==
  ASSUME NEW a, NEW b, NEW c
  PROVE  <<a, b>> \o <<c>> = <<a, b, c>>
<1> DEFINE S == {a, b, c}
           s == <<a, b>>
           t == <<c>>
           u == s \o t
<1>1. /\ s \in Seq(S) /\ t \in Seq(S) /\ <<a, b, c>> \in Seq(S)
      /\ Len(s) = 2 /\ Len(t) = 1 /\ Len(<<a, b, c>>) = 3
      /\ s[1] = a /\ s[2] = b /\ t[1] = c
  OBVIOUS
<1>2. /\ s \o t \in Seq(S) /\ Len(s \o t) = Len(s) + Len(t)
      /\ \A i \in 1 .. Len(s) + Len(t) :
            (s \o t)[i] = IF i <= Len(s) THEN s[i] ELSE t[i - Len(s)]
  <2> HIDE DEF S, s, t
  <2> QED BY <1>1, ConcatProperties
<1>3. u \in Seq(S) /\ Len(u) = 3 /\ u[1] = a /\ u[2] = b /\ u[3] = c
  <2> HIDE DEF S, s, t
  <2> QED BY <1>1, <1>2
<1>4. \A i \in 1 .. Len(u) : u[i] = <<a, b, c>>[i]
  <2> HIDE DEF u
  <2>1. \A i \in 1 .. 3 : i = 1 \/ i = 2 \/ i = 3
    OBVIOUS
  <2> QED BY <1>3, <2>1
<1> HIDE DEF S, u
<1>5. u = <<a, b, c>>
  BY <1>1, <1>3, <1>4, SeqEqual
<1> QED BY <1>5 DEF u

-----------------------------------------------------------------------------
(***************************************************************************)
(* The requests                                                            *)
(***************************************************************************)
LEMMA CallsAre ==
  ASSUME NEW c \in Calls
  PROVE  /\ c.op \in {"get", "update", "create_space", "delete_space", "create_issue",
                      "delete_issue", "transition_issue", "add_issue_blocker",
                      "delete_issue_blocker", "create_issue_comment",
                      "delete_issue_comment", "initiate_upload", "resign_upload",
                      "confirm_uploaded", "delete_issue_attachment"}
         /\ c.op = "get" => c.row \in {"space", "issue", "comment", "attachment"}
         /\ c.op = "update" => c.row \in {"space", "issue", "comment"}
         /\ c.op = "transition_issue" => c.status \in {"TODO", "BLOCKED", "DONE"}
         /\ c.op \in {"initiate_upload", "confirm_uploaded", "delete_issue_attachment"}
              => c.linked \in BOOLEAN
         /\ c.op \notin {"update", "transition_issue"} => ~Fenced(c)
BY DEF Calls, Fenced

LEMMA RequestsAre ==
  ASSUME NEW c \in Calls
  PROVE  /\ c.op = "get" => Requests(c) = GetItem(c.row)
         /\ c.op = "update" => Requests(c) = UpdateItem(c.row)
         /\ c.op = "create_space" => Requests(c) = CreateSpace
         /\ c.op = "delete_space" => Requests(c) = DeleteSpace
         /\ c.op = "create_issue" => Requests(c) = CreateIssue
         /\ c.op = "delete_issue" => Requests(c) = DeleteIssue
         /\ c.op = "transition_issue" => Requests(c) = TransitionIssue(c.status)
         /\ c.op = "add_issue_blocker" => Requests(c) = AddIssueBlocker
         /\ c.op = "delete_issue_blocker" => Requests(c) = DeleteIssueBlocker
         /\ c.op = "create_issue_comment" => Requests(c) = CreateIssueComment
         /\ c.op = "delete_issue_comment" => Requests(c) = DeleteIssueComment
         /\ c.op = "initiate_upload" => Requests(c) = InitiateUpload(c.linked)
         /\ c.op = "resign_upload" => Requests(c) = ResignUpload
         /\ c.op = "confirm_uploaded" => Requests(c) = ConfirmUploaded(c.linked)
         /\ c.op = "delete_issue_attachment" => Requests(c) = DeleteIssueAttachment(c.linked)
BY DEF Requests, RequestsOf

\* A comment's item in front of the last one, or behind it.
LEMMA LinkedItems ==
  ASSUME NEW a, NEW b, NEW c
  PROVE  /\ <<a>> \o IfLinked(TRUE, b) \o <<c>> = <<a, b, c>>
         /\ <<a>> \o IfLinked(FALSE, b) \o <<c>> = <<a, c>>
         /\ <<a, c>> \o IfLinked(TRUE, b) = <<a, c, b>>
         /\ <<a, c>> \o IfLinked(FALSE, b) = <<a, c>>
<1>1. <<a>> \o <<b>> = <<a, b>> /\ <<a>> \o <<c>> = <<a, c>>
  BY TwoItems
<1>2. <<a, b>> \o <<c>> = <<a, b, c>> /\ <<a, c>> \o <<b>> = <<a, c, b>>
  BY ThreeItems
<1>3. <<a>> \o <<>> = <<a>> /\ <<a, c>> \o <<>> = <<a, c>>
  OBVIOUS
<1>4. IfLinked(TRUE, b) = <<b>> /\ IfLinked(FALSE, b) = <<>>
  BY DEF IfLinked
<1> QED BY <1>1, <1>2, <1>3, <1>4, Zenon

InitiateItems(linked) ==
    IF linked THEN <<Exists("issue"), Exists("comment"), Put("attachment", "PENDING")>>
              ELSE <<Exists("issue"), Put("attachment", "PENDING")>>
Confirmation == ItemOld("attachment", {"PENDING"}, Become("UPLOADED"))
ConfirmItems(linked) ==
    IF linked THEN <<Confirmation, Exists("issue"), Exists("comment")>>
              ELSE <<Confirmation, Exists("issue")>>
Removal == Item("attachment", {"UPLOADED"}, Become("none"))
RemovalItems(linked) ==
    IF linked THEN <<Removal, Exists("issue"), Exists("comment")>>
              ELSE <<Removal, Exists("issue")>>

LEMMA UploadsAre ==
  ASSUME NEW linked \in BOOLEAN
  PROVE  /\ InitiateUpload(linked) = <<Transaction(InitiateItems(linked))>>
         /\ ConfirmUploaded(linked) =
              <<Read("attachment", Live("attachment")), HeadObject,
                Transaction(ConfirmItems(linked))>>
         /\ DeleteIssueAttachment(linked) =
              <<Read("attachment", Live("attachment")),
                Transaction(<<Item("attachment", {"PENDING"}, Become("none"))>>),
                Transaction(RemovalItems(linked))>>
<1>1. ASSUME NEW l \in {TRUE, FALSE}
      PROVE  <<Exists("issue")>> \o IfLinked(l, Exists("comment"))
                \o <<Put("attachment", "PENDING")>> = InitiateItems(l)
  <2>1. CASE l = TRUE
    <3>1. <<Exists("issue")>> \o IfLinked(TRUE, Exists("comment"))
             \o <<Put("attachment", "PENDING")>>
             = <<Exists("issue"), Exists("comment"), Put("attachment", "PENDING")>>
      <4>1. <<Exists("issue")>> \o <<Exists("comment")>>
               = <<Exists("issue"), Exists("comment")>>
        BY TwoItems
      <4>2. <<Exists("issue"), Exists("comment")>> \o <<Put("attachment", "PENDING")>>
               = <<Exists("issue"), Exists("comment"), Put("attachment", "PENDING")>>
        BY ThreeItems
      <4>3. IfLinked(TRUE, Exists("comment")) = <<Exists("comment")>>
        BY DEF IfLinked
      <4> QED BY <4>1, <4>2, <4>3, Zenon
    <3>2. InitiateItems(TRUE)
             = <<Exists("issue"), Exists("comment"), Put("attachment", "PENDING")>>
      BY DEF InitiateItems
    <3> QED BY <2>1, <3>1, <3>2, Zenon
  <2>2. CASE l = FALSE
    BY <2>2, LinkedItems, Zenon DEF InitiateItems
  <2> QED BY <2>1, <2>2
<1>2. ASSUME NEW l \in {TRUE, FALSE}
      PROVE  <<Confirmation, Exists("issue")>> \o IfLinked(l, Exists("comment"))
                = ConfirmItems(l)
  <2>1. CASE l = TRUE
    BY <2>1, LinkedItems, Zenon DEF ConfirmItems
  <2>2. CASE l = FALSE
    BY <2>2, LinkedItems, Zenon DEF ConfirmItems
  <2> QED BY <2>1, <2>2
<1>3. InitiateUpload(linked) = <<Transaction(InitiateItems(linked))>>
  BY <1>1, Zenon DEF InitiateUpload
<1>4. ConfirmUploaded(linked) =
         <<Read("attachment", Live("attachment")), HeadObject,
           Transaction(ConfirmItems(linked))>>
  BY <1>2, Zenon DEF ConfirmUploaded, Confirmation
<1>5. ASSUME NEW l \in {TRUE, FALSE}
      PROVE  <<Removal, Exists("issue")>> \o IfLinked(l, Exists("comment"))
                = RemovalItems(l)
  <2>1. CASE l = TRUE
    BY <2>1, LinkedItems, Zenon DEF RemovalItems
  <2>2. CASE l = FALSE
    BY <2>2, LinkedItems, Zenon DEF RemovalItems
  <2> QED BY <2>1, <2>2
<1>6. DeleteIssueAttachment(linked) =
         <<Read("attachment", Live("attachment")),
           Transaction(<<Item("attachment", {"PENDING"}, Become("none"))>>),
           Transaction(RemovalItems(linked))>>
  BY <1>5, Zenon DEF DeleteIssueAttachment, Removal
<1> QED BY <1>3, <1>4, <1>6

\* All operations but three send one request.
Several == {"delete_issue_blocker", "confirm_uploaded", "delete_issue_attachment"}

LEMMA SoleRequest ==
  ASSUME NEW c \in Calls, c.op \notin Several
  PROVE  \E request : /\ Requests(c) = <<request>>
                      /\ request.kind \in {"read", "write", "transaction"}
<1> USE DEF Several
<1>0. /\ \A r, ok : Read(r, ok).kind = "read"
      /\ \A item : Write(item).kind = "write"
      /\ \A items : Transaction(items).kind = "transaction"
  BY DEF Read, Write, Transaction
<1>1. CASE c.op = "get"
  BY <1>0, <1>1, RequestsAre DEF GetItem
<1>2. CASE c.op = "update"
  BY <1>0, <1>2, RequestsAre DEF UpdateItem
<1>3. CASE c.op = "create_space"
  BY <1>0, <1>3, RequestsAre DEF CreateSpace
<1>4. CASE c.op = "delete_space"
  BY <1>0, <1>4, RequestsAre DEF DeleteSpace
<1>5. CASE c.op = "create_issue"
  BY <1>0, <1>5, RequestsAre DEF CreateIssue
<1>6. CASE c.op = "delete_issue"
  BY <1>0, <1>6, RequestsAre DEF DeleteIssue
<1>7. CASE c.op = "transition_issue"
  BY <1>0, <1>7, RequestsAre DEF TransitionIssue
<1>8. CASE c.op = "add_issue_blocker"
  BY <1>0, <1>8, RequestsAre DEF AddIssueBlocker
<1>9. CASE c.op = "create_issue_comment"
  BY <1>0, <1>9, RequestsAre DEF CreateIssueComment
<1>10. CASE c.op = "delete_issue_comment"
  BY <1>0, <1>10, RequestsAre DEF DeleteIssueComment
<1>11. CASE c.op = "initiate_upload"
  BY <1>0, <1>11, RequestsAre, CallsAre, UploadsAre
<1>12. CASE c.op = "resign_upload"
  BY <1>0, <1>12, RequestsAre DEF ResignUpload
<1> QED BY <1>1, <1>2, <1>3, <1>4, <1>5, <1>6, <1>7, <1>8, <1>9, <1>10, <1>11, <1>12, CallsAre

LEMMA OneRequest ==
  ASSUME NEW a
  PROVE  /\ DOMAIN <<a>> = 1 .. 1 /\ Len(<<a>>) = 1 /\ <<a>>[1] = a
OBVIOUS

LEMMA TwoRequests ==
  ASSUME NEW a, NEW b
  PROVE  /\ DOMAIN <<a, b>> = 1 .. 2 /\ Len(<<a, b>>) = 2
         /\ <<a, b>>[1] = a /\ <<a, b>>[2] = b
OBVIOUS

LEMMA ThreeRequests ==
  ASSUME NEW a, NEW b, NEW c
  PROVE  /\ DOMAIN <<a, b, c>> = 1 .. 3 /\ Len(<<a, b, c>>) = 3
         /\ <<a, b, c>>[1] = a /\ <<a, b, c>>[2] = b /\ <<a, b, c>>[3] = c
OBVIOUS

\* How many requests an operation sends, and which of them write.
LEMMA Kinds ==
  ASSUME NEW c \in Calls
  PROVE  /\ DOMAIN Requests(c) = 1 .. Len(Requests(c)) /\ Len(Requests(c)) \in 1 .. 3
         /\ c.op = "delete_issue_blocker" => Len(Requests(c)) = 2
         /\ c.op \in {"confirm_uploaded", "delete_issue_attachment"} => Len(Requests(c)) = 3
         /\ c.op \notin Several => Len(Requests(c)) = 1
         /\ \A n \in 1 .. Len(Requests(c)) :
               /\ Requests(c)[n].kind \in {"read", "write", "head", "transaction"}
               /\ Requests(c)[n].kind \in {"write", "transaction"}
                    => \/ n = Len(Requests(c))
                       \/ c.op \in {"delete_issue_blocker", "delete_issue_attachment"}
<1>1. CASE c.op \notin Several
  <2>1. PICK request : /\ Requests(c) = <<request>>
                       /\ request.kind \in {"read", "write", "transaction"}
    BY <1>1, SoleRequest
  <2>2. /\ DOMAIN Requests(c) = 1 .. 1 /\ Len(Requests(c)) = 1
        /\ Requests(c)[1] = request
    BY <2>1, OneRequest
  <2> QED BY <1>1, <2>1, <2>2 DEF Several
<1>2. CASE c.op = "delete_issue_blocker"
  <2>1. PICK a, b : /\ Requests(c) = <<a, b>>
                    /\ a.kind = "transaction" /\ b.kind = "write"
    BY <1>2, RequestsAre DEF DeleteIssueBlocker, Transaction, Write
  <2>2. /\ DOMAIN Requests(c) = 1 .. 2 /\ Len(Requests(c)) = 2
        /\ Requests(c)[1] = a /\ Requests(c)[2] = b
    BY <2>1, TwoRequests
  <2> QED BY <1>2, <2>1, <2>2 DEF Several
<1>3. CASE c.op = "confirm_uploaded"
  <2>1. Requests(c) = <<Read("attachment", Live("attachment")), HeadObject,
                        Transaction(ConfirmItems(c.linked))>>
    BY <1>3, RequestsAre, CallsAre, UploadsAre
  <2>2. /\ DOMAIN Requests(c) = 1 .. 3 /\ Len(Requests(c)) = 3
        /\ Requests(c)[1] = Read("attachment", Live("attachment"))
        /\ Requests(c)[2] = HeadObject
        /\ Requests(c)[3] = Transaction(ConfirmItems(c.linked))
    BY <2>1, ThreeRequests
  <2>3. /\ Requests(c)[1].kind = "read" /\ Requests(c)[2].kind = "head"
        /\ Requests(c)[3].kind = "transaction"
    BY <2>2 DEF Read, HeadObject, Transaction
  <2>4. \A n \in 1 .. 3 : n = 1 \/ n = 2 \/ n = 3
    OBVIOUS
  <2> QED BY <1>3, <2>2, <2>3, <2>4 DEF Several
<1>4. CASE c.op = "delete_issue_attachment"
  <2>1. PICK a, b, d : /\ Requests(c) = <<a, b, d>>
                       /\ a.kind = "read" /\ b.kind = "transaction" /\ d.kind = "transaction"
    BY <1>4, RequestsAre, CallsAre, UploadsAre DEF Read, Transaction
  <2>2. /\ DOMAIN Requests(c) = 1 .. 3 /\ Len(Requests(c)) = 3
        /\ Requests(c)[1] = a /\ Requests(c)[2] = b /\ Requests(c)[3] = d
    BY <2>1, ThreeRequests
  <2>3. \A n \in 1 .. 3 : n = 1 \/ n = 2 \/ n = 3
    OBVIOUS
  <2> QED BY <1>4, <2>1, <2>2, <2>3 DEF Several
<1> QED BY <1>1, <1>2, <1>3, <1>4 DEF Several

\* What an item may be refused for: the states its condition allows, and what the code
\* makes of a refusal.
Reason(c, n, i, r, ok, old) ==
    \/ ok = {"none"} /\ ~Fenced(c)
    \/ ok = {"stored"} /\ r = "object" /\ ~Fenced(c)
    \/ ok = Live(r) /\ ((old /\ r # "object") \/ ~Fenced(c))
    \/ c.op = "delete_issue_blocker" /\ n = 1 /\ i = 1 /\ r = "blocker"
    \/ c.op = "delete_issue_blocker" /\ n = 2 /\ r = "blocker" /\ ok = {"done"} /\ old = FALSE
    \/ c.op = "delete_space" /\ r = "space" /\ ok = {"empty"} /\ old
    \/ /\ c.op = "transition_issue" /\ r = "issue" /\ old
       /\ "none" \notin ok
       /\ \A s \in Live("issue") \ ok :
             \/ c.status # "DONE" /\ s = "DONE"
             \/ c.status # "BLOCKED" /\ s = "HELD"
    \/ /\ c.op = "add_issue_blocker" /\ r \in {"blocking", "issue"} /\ old
       /\ ok = Live(r) \ {"DONE"}
    \/ /\ c.op \in {"resign_upload", "confirm_uploaded"} /\ r = "attachment" /\ old
       /\ ok = {"PENDING"}
    \/ /\ c.op = "delete_issue_attachment" /\ n # 1 /\ r = "attachment"
       /\ ok \in {{"PENDING"}, {"UPLOADED"}} /\ old = FALSE

\* The operations whose requests name a row.
Belongs(c, r) ==
    /\ r = "blocker" => c.op \in {"add_issue_blocker", "delete_issue_blocker"}
    /\ r = "blocking" => c.op = "add_issue_blocker"
    /\ r = "object" => c.op = "confirm_uploaded"
    /\ r = "space" => \/ c.op \in {"create_issue", "delete_issue", "create_space",
                                   "delete_space"}
                      \/ (c.op \in {"get", "update"} /\ c.row = "space")
    /\ r = "issue" => /\ c.op \notin {"create_space", "delete_space"}
                      /\ c.op \in {"get", "update"} => c.row = "issue"

Shaped(c, n, i, item) ==
    /\ item.row \in Rows /\ Belongs(c, item.row) /\ item.old \in BOOLEAN
    /\ Keeps(item.row, item.to)
    /\ Reason(c, n, i, item.row, item.ok, item.old)
    /\ c.op = "create_issue" /\ i = 2 => item.row = "issue" /\ item.ok = {"none"}

LEMMA ShapedItem ==
  ASSUME NEW c, NEW n, NEW i, NEW r \in Rows, Belongs(c, r), NEW ok, NEW to, Keeps(r, to),
         c.op = "create_issue" /\ i = 2 => r = "issue" /\ ok = {"none"}
  PROVE  /\ Reason(c, n, i, r, ok, FALSE) => Shaped(c, n, i, Item(r, ok, to))
         /\ Reason(c, n, i, r, ok, TRUE) => Shaped(c, n, i, ItemOld(r, ok, to))
<1>1. /\ Item(r, ok, to).row = r /\ Item(r, ok, to).ok = ok
      /\ Item(r, ok, to).to = to /\ Item(r, ok, to).old = FALSE
  BY Fields
<1>2. /\ ItemOld(r, ok, to).row = r /\ ItemOld(r, ok, to).ok = ok
      /\ ItemOld(r, ok, to).to = to /\ ItemOld(r, ok, to).old = TRUE
  BY Fields
<1>3. Reason(c, n, i, r, ok, FALSE) => Shaped(c, n, i, Item(r, ok, to))
  BY <1>1, Zenon DEF Shaped
<1>4. Reason(c, n, i, r, ok, TRUE) => Shaped(c, n, i, ItemOld(r, ok, to))
  BY <1>2, Zenon DEF Shaped
<1> QED BY <1>3, <1>4

\* The items most requests are made of.
LEMMA CommonItems ==
  ASSUME NEW c, NEW n, NEW i, NEW r \in Rows, Belongs(c, r), ~Fenced(c)
  PROVE  /\ ~(c.op = "create_issue" /\ i = 2) \/ r = "issue"
              => \A t \in States[r] : Shaped(c, n, i, Put(r, t))
         /\ ~(c.op = "create_issue" /\ i = 2) =>
              /\ Shaped(c, n, i, Delete(r)) /\ Shaped(c, n, i, Exists(r))
<1>1. Reason(c, n, i, r, {"none"}, FALSE) /\ Reason(c, n, i, r, Live(r), FALSE)
  BY DEF Reason
<1>2. ASSUME NEW t \in States[r], ~(c.op = "create_issue" /\ i = 2) \/ r = "issue"
      PROVE  Shaped(c, n, i, Put(r, t))
  BY <1>1, <1>2, ShapedItem, WritesKeep DEF Put
<1>3. ASSUME ~(c.op = "create_issue" /\ i = 2)
      PROVE  Shaped(c, n, i, Delete(r)) /\ Shaped(c, n, i, Exists(r))
  BY <1>1, <1>3, ShapedItem, WritesKeep, StatesAre DEF Delete, Exists
<1> QED BY <1>2, <1>3

AllShaped(c, n, items) ==
    /\ DOMAIN items \subseteq 1 .. 3
    /\ \A i \in DOMAIN items : Shaped(c, n, i, items[i])

LEMMA ShapedItems ==
  ASSUME NEW c, NEW n, NEW x, NEW y, NEW z
  PROVE  /\ Shaped(c, n, 1, x) => AllShaped(c, n, <<x>>)
         /\ Shaped(c, n, 1, x) /\ Shaped(c, n, 2, y) => AllShaped(c, n, <<x, y>>)
         /\ Shaped(c, n, 1, x) /\ Shaped(c, n, 2, y) /\ Shaped(c, n, 3, z)
              => AllShaped(c, n, <<x, y, z>>)
<1>1. Shaped(c, n, 1, x) => AllShaped(c, n, <<x>>)
  BY DEF AllShaped
<1>2. Shaped(c, n, 1, x) /\ Shaped(c, n, 2, y) => AllShaped(c, n, <<x, y>>)
  BY DEF AllShaped
<1>3. Shaped(c, n, 1, x) /\ Shaped(c, n, 2, y) /\ Shaped(c, n, 3, z)
         => AllShaped(c, n, <<x, y, z>>)
  BY DEF AllShaped
<1> QED BY <1>1, <1>2, <1>3

\* The items of the one request there is.
WellShaped(c) == \A n \in 1 .. Len(Requests(c)) : AllShaped(c, n, Requests(c)[n].items)

LEMMA SoleTransaction ==
  ASSUME NEW c, NEW items, Requests(c) = <<Transaction(items)>>, AllShaped(c, 1, items)
  PROVE  WellShaped(c)
BY DEF Transaction, WellShaped

LEMMA SoleItem ==
  ASSUME NEW c, NEW item, Shaped(c, 1, 1, item),
         \/ Requests(c) = <<Write(item)>>
         \/ \E r, ok : Requests(c) = <<Read(r, ok)>> /\ item = ItemOld(r, ok, Kept)
  PROVE  WellShaped(c)
<1>1. \E request : Requests(c) = <<request>> /\ request.items = <<item>>
  BY DEF Write, Read
<1>2. AllShaped(c, 1, <<item>>)
  BY ShapedItems
<1> QED BY <1>1, <1>2 DEF WellShaped

\* The operations that send one request.
LEMMA SoleShaped ==
  ASSUME NEW c \in Calls, c.op \notin Several
  PROVE  WellShaped(c)
<1> USE CallsAre DEF Rows, Belongs, Several
<1>1. CASE c.op = "get"
  <2>1. Requests(c) = <<Read(c.row, Live(c.row))>> /\ c.row \in Rows
    BY <1>1, RequestsAre DEF GetItem
  <2>2. c.row # "object" /\ Reason(c, 1, 1, c.row, Live(c.row), TRUE)
    BY <1>1 DEF Reason
  <2>3. Shaped(c, 1, 1, ItemOld(c.row, Live(c.row), Kept))
    BY <1>1, <2>1, <2>2, ShapedItem, WritesKeep
  <2> QED BY <2>1, <2>3, SoleItem
<1>2. CASE c.op = "update"
  <2>1. Requests(c) = <<Write(ItemOld(c.row, Live(c.row), Kept))>> /\ c.row \in Rows
    BY <1>2, RequestsAre DEF UpdateItem
  <2>2. c.row # "object" /\ Reason(c, 1, 1, c.row, Live(c.row), TRUE)
    BY <1>2 DEF Reason
  <2>3. Shaped(c, 1, 1, ItemOld(c.row, Live(c.row), Kept))
    BY <1>2, <2>1, <2>2, ShapedItem, WritesKeep
  <2> QED BY <2>1, <2>3, SoleItem
<1>3. CASE c.op = "create_space"
  <2>1. Requests(c) = <<Write(Put("space", "empty"))>> /\ ~Fenced(c)
    BY <1>3, RequestsAre DEF CreateSpace
  <2>2. Shaped(c, 1, 1, Put("space", "empty"))
    BY <1>3, <2>1, CommonItems, StatesAre
  <2> QED BY <2>1, <2>2, SoleItem
<1>4. CASE c.op = "delete_space"
  <2>1. Requests(c) = <<Write(ItemOld("space", {"empty"}, Become("none")))>>
    BY <1>4, RequestsAre DEF DeleteSpace
  <2>2. Reason(c, 1, 1, "space", {"empty"}, TRUE)
    BY <1>4 DEF Reason
  <2>3. Shaped(c, 1, 1, ItemOld("space", {"empty"}, Become("none")))
    BY <1>4, <2>2, ShapedItem, WritesKeep, StatesAre
  <2> QED BY <2>1, <2>3, SoleItem
<1>5. CASE c.op = "create_issue"
  <2> DEFINE x == Item("space", Live("space"), Counted)
             y == Put("issue", "TODO")
  <2>1. Requests(c) = <<Transaction(<<x, y>>)>> /\ ~Fenced(c)
    BY <1>5, RequestsAre DEF CreateIssue
  <2>2. Reason(c, 1, 1, "space", Live("space"), FALSE)
    BY <2>1 DEF Reason
  <2>3. Shaped(c, 1, 1, x)
    <3>1. c.op = "create_issue" /\ 1 = 2 => "space" = "issue" /\ Live("space") = {"none"}
      OBVIOUS
    <3>2. Belongs(c, "space")
      BY <1>5
    <3> HIDE DEF Belongs
    <3> QED BY <2>2, <3>1, <3>2, ShapedItem, WritesKeep, Zenon
  <2>4. Shaped(c, 1, 2, y)
    BY <1>5, <2>1, CommonItems, StatesAre DEF IssueStates
  <2> HIDE DEF x, y
  <2> QED BY <2>1, <2>3, <2>4, ShapedItems, SoleTransaction
<1>6. CASE c.op = "delete_issue"
  <2> DEFINE x == Delete("issue")
             y == Item("space", Live("space"), Uncounted)
  <2>1. Requests(c) = <<Transaction(<<x, y>>)>> /\ ~Fenced(c)
    BY <1>6, RequestsAre DEF DeleteIssue
  <2>2. Reason(c, 1, 2, "space", Live("space"), FALSE)
    BY <2>1 DEF Reason
  <2>3. Shaped(c, 1, 2, y)
    BY <1>6, <2>2, ShapedItem, WritesKeep
  <2>4. Shaped(c, 1, 1, x)
    BY <1>6, <2>1, CommonItems
  <2> HIDE DEF x, y
  <2> QED BY <2>1, <2>3, <2>4, ShapedItems, SoleTransaction
<1>7. CASE c.op = "transition_issue"
  <2> DEFINE s == c.status
             ok == (IF s = "DONE" THEN Live("issue") ELSE Live("issue") \ {"DONE"})
                      \ (IF s = "BLOCKED" THEN {} ELSE {"HELD"})
             to == IF s = "BLOCKED" THEN Blocked ELSE Become(s)
  <2>1. Requests(c) = <<Write(ItemOld("issue", ok, to))>>
    BY <1>7, RequestsAre DEF TransitionIssue
  <2>2. "none" \notin ok
    BY StatesAre
  <2>3. \A x \in Live("issue") \ ok :
           \/ c.status # "DONE" /\ x = "DONE"
           \/ c.status # "BLOCKED" /\ x = "HELD"
    OBVIOUS
  <2>4. Keeps("issue", to)
    <3>1. CASE s = "BLOCKED"
      BY <3>1, WritesKeep
    <3>2. CASE s # "BLOCKED"
      <4>1. s \in States["issue"]
        BY <1>7, StatesAre DEF IssueStates
      <4> QED BY <3>2, <4>1, WritesKeep
    <3> QED BY <3>1, <3>2
  <2> HIDE DEF ok, to
  <2>5. Reason(c, 1, 1, "issue", ok, TRUE)
    BY <1>7, <2>2, <2>3 DEF Reason
  <2>6. Shaped(c, 1, 1, ItemOld("issue", ok, to))
    BY <1>7, <2>4, <2>5, ShapedItem
  <2> QED BY <2>1, <2>6, SoleItem
<1>8. CASE c.op = "add_issue_blocker"
  <2> DEFINE x == ItemOld("blocking", Live("blocking") \ {"DONE"}, Kept)
             y == ItemOld("issue", Live("issue") \ {"DONE"}, Become("HELD"))
             z == Put("blocker", "active")
  <2>1. Requests(c) = <<Transaction(<<x, y, z>>)>> /\ ~Fenced(c)
    BY <1>8, RequestsAre DEF AddIssueBlocker
  <2>2. /\ Reason(c, 1, 1, "blocking", Live("blocking") \ {"DONE"}, TRUE)
        /\ Reason(c, 1, 2, "issue", Live("issue") \ {"DONE"}, TRUE)
    BY <1>8 DEF Reason
  <2>3. Keeps("blocking", Kept) /\ Keeps("issue", Become("HELD"))
    BY WritesKeep, StatesAre DEF IssueStates
  <2>4. Shaped(c, 1, 1, x) /\ Shaped(c, 1, 2, y)
    BY <1>8, <2>2, <2>3, ShapedItem
  <2>5. Shaped(c, 1, 3, z)
    BY <1>8, <2>1, CommonItems, StatesAre
  <2> HIDE DEF x, y, z
  <2> QED BY <2>1, <2>4, <2>5, ShapedItems, SoleTransaction
<1>9. CASE c.op = "create_issue_comment"
  <2> DEFINE x == Exists("issue")
             y == Put("comment", "live")
  <2>1. Requests(c) = <<Transaction(<<x, y>>)>> /\ ~Fenced(c)
    BY <1>9, RequestsAre DEF CreateIssueComment
  <2>2. Shaped(c, 1, 1, x) /\ Shaped(c, 1, 2, y)
    BY <1>9, <2>1, CommonItems, StatesAre
  <2> HIDE DEF x, y
  <2> QED BY <2>1, <2>2, ShapedItems, SoleTransaction
<1>10. CASE c.op = "delete_issue_comment"
  <2> DEFINE x == Delete("comment")
             y == Exists("issue")
  <2>1. Requests(c) = <<Transaction(<<x, y>>)>> /\ ~Fenced(c)
    BY <1>10, RequestsAre DEF DeleteIssueComment
  <2>2. Shaped(c, 1, 1, x) /\ Shaped(c, 1, 2, y)
    BY <1>10, <2>1, CommonItems
  <2> HIDE DEF x, y
  <2> QED BY <2>1, <2>2, ShapedItems, SoleTransaction
<1>11. CASE c.op = "initiate_upload"
  <2> DEFINE x == Exists("issue")
             y == Exists("comment")
             z == Put("attachment", "PENDING")
  <2>1. Requests(c) = <<Transaction(InitiateItems(c.linked))>> /\ ~Fenced(c)
    BY <1>11, RequestsAre, UploadsAre
  <2>2. /\ Shaped(c, 1, 1, x) /\ Shaped(c, 1, 2, y)
        /\ Shaped(c, 1, 2, z) /\ Shaped(c, 1, 3, z)
    BY <1>11, <2>1, CommonItems, StatesAre
  <2>3. InitiateItems(c.linked) = IF c.linked THEN <<x, y, z>> ELSE <<x, z>>
    BY DEF InitiateItems
  <2> HIDE DEF x, y, z
  <2>4. AllShaped(c, 1, <<x, y, z>>) /\ AllShaped(c, 1, <<x, z>>)
    BY <2>2, ShapedItems
  <2>5. AllShaped(c, 1, InitiateItems(c.linked))
    BY <2>3, <2>4, Zenon
  <2> QED BY <2>1, <2>5, SoleTransaction
<1>12. CASE c.op = "resign_upload"
  <2>1. Requests(c) = <<Read("attachment", {"PENDING"})>>
    BY <1>12, RequestsAre DEF ResignUpload
  <2>2. Reason(c, 1, 1, "attachment", {"PENDING"}, TRUE)
    BY <1>12 DEF Reason
  <2>3. Shaped(c, 1, 1, ItemOld("attachment", {"PENDING"}, Kept))
    BY <1>12, <2>2, ShapedItem, WritesKeep
  <2> QED BY <2>1, <2>3, SoleItem
<1> QED BY <1>1, <1>2, <1>3, <1>4, <1>5, <1>6, <1>7, <1>8, <1>9, <1>10, <1>11, <1>12

\* The requests of the three that send several.
LEMMA DeletionsAre ==
  ASSUME NEW c \in Calls, c.op = "delete_issue_blocker"
  PROVE  /\ Len(Requests(c)) = 2
         /\ Requests(c)[1].kind = "transaction" /\ Requests(c)[2].kind = "write"
         /\ Requests(c)[1].items = <<Item("blocker", {"active"}, Become("none")),
                                     Item("issue", Live("issue"), Released)>>
         /\ Requests(c)[2].items = <<Item("blocker", {"done"}, Become("none"))>>
<1>1. Requests(c) = DeleteIssueBlocker
  BY RequestsAre
<1> QED BY <1>1 DEF DeleteIssueBlocker, Transaction, Write

LEMMA ConfirmationsAre ==
  ASSUME NEW c \in Calls, c.op = "confirm_uploaded"
  PROVE  /\ Len(Requests(c)) = 3
         /\ Requests(c)[1].kind = "read" /\ Requests(c)[2].kind = "head"
         /\ Requests(c)[3].kind = "transaction"
         /\ Requests(c)[1].items = <<ItemOld("attachment", Live("attachment"), Kept)>>
         /\ Requests(c)[2].items = <<Item("object", {"stored"}, Kept)>>
         /\ Requests(c)[3].items = ConfirmItems(c.linked)
<1>1. Requests(c) = <<Read("attachment", Live("attachment")), HeadObject,
                      Transaction(ConfirmItems(c.linked))>>
  BY RequestsAre, CallsAre, UploadsAre
<1>2. /\ Len(Requests(c)) = 3
      /\ Requests(c)[1] = Read("attachment", Live("attachment"))
      /\ Requests(c)[2] = HeadObject
      /\ Requests(c)[3] = Transaction(ConfirmItems(c.linked))
  BY <1>1, ThreeRequests
<1> QED BY <1>2 DEF Read, HeadObject, Transaction

LEMMA RemovalsAre ==
  ASSUME NEW c \in Calls, c.op = "delete_issue_attachment"
  PROVE  /\ Len(Requests(c)) = 3
         /\ Requests(c)[1].kind = "read"
         /\ Requests(c)[2].kind = "transaction" /\ Requests(c)[3].kind = "transaction"
         /\ Requests(c)[1].items = <<ItemOld("attachment", Live("attachment"), Kept)>>
         /\ Requests(c)[2].items = <<Item("attachment", {"PENDING"}, Become("none"))>>
         /\ Requests(c)[3].items = RemovalItems(c.linked)
<1>1. Requests(c) = <<Read("attachment", Live("attachment")),
                      Transaction(<<Item("attachment", {"PENDING"}, Become("none"))>>),
                      Transaction(RemovalItems(c.linked))>>
  BY RequestsAre, CallsAre, UploadsAre
<1>2. /\ Len(Requests(c)) = 3
      /\ Requests(c)[1] = Read("attachment", Live("attachment"))
      /\ Requests(c)[2] = Transaction(<<Item("attachment", {"PENDING"}, Become("none"))>>)
      /\ Requests(c)[3] = Transaction(RemovalItems(c.linked))
  BY <1>1, ThreeRequests
<1> QED BY <1>2 DEF Read, Transaction

\* Every item of every request is one of those.
LEMMA Shape ==
  ASSUME NEW c \in Calls
  PROVE  WellShaped(c)
<1> USE DEF Rows, Belongs
<1>1. CASE c.op = "delete_issue_blocker"
  <2> DEFINE x == Item("blocker", {"active"}, Become("none"))
             y == Item("issue", Live("issue"), Released)
             z == Item("blocker", {"done"}, Become("none"))
  <2>0. ~Fenced(c)
    BY <1>1, CallsAre
  <2>1. /\ Reason(c, 1, 1, "blocker", {"active"}, FALSE)
        /\ Reason(c, 1, 2, "issue", Live("issue"), FALSE)
        /\ Reason(c, 2, 1, "blocker", {"done"}, FALSE)
    BY <1>1, <2>0 DEF Reason
  <2>2. /\ Keeps("blocker", Become("none")) /\ Keeps("issue", Released)
    BY WritesKeep, StatesAre
  <2>3. Shaped(c, 1, 1, x) /\ Shaped(c, 1, 2, y) /\ Shaped(c, 2, 1, z)
    BY <1>1, <2>1, <2>2, ShapedItem
  <2>4. /\ Len(Requests(c)) = 2
        /\ Requests(c)[1].items = <<x, y>> /\ Requests(c)[2].items = <<z>>
    BY <1>1, DeletionsAre
  <2> HIDE DEF x, y, z
  <2>5. AllShaped(c, 1, <<x, y>>)
    BY <2>3, ShapedItems
  <2>6. AllShaped(c, 2, <<z>>)
    BY <2>3 DEF AllShaped
  <2>7. \A n \in 1 .. 2 : n = 1 \/ n = 2
    OBVIOUS
  <2> QED BY <2>4, <2>5, <2>6, <2>7 DEF WellShaped
<1>2. CASE c.op = "confirm_uploaded"
  <2> DEFINE x == ItemOld("attachment", Live("attachment"), Kept)
             y == Item("object", {"stored"}, Kept)
             u == Exists("issue")
             v == Exists("comment")
  <2>0. ~Fenced(c) /\ c.linked \in BOOLEAN
    BY <1>2, CallsAre
  <2>1. /\ Reason(c, 1, 1, "attachment", Live("attachment"), TRUE)
        /\ Reason(c, 2, 1, "object", {"stored"}, FALSE)
        /\ Reason(c, 3, 1, "attachment", {"PENDING"}, TRUE)
    BY <1>2, <2>0 DEF Reason
  <2>2. /\ Keeps("attachment", Kept) /\ Keeps("object", Kept)
        /\ Keeps("attachment", Become("UPLOADED"))
    BY WritesKeep, StatesAre
  <2>3. Shaped(c, 1, 1, x) /\ Shaped(c, 2, 1, y) /\ Shaped(c, 3, 1, Confirmation)
    BY <1>2, <2>1, <2>2, ShapedItem DEF Confirmation
  <2>4. Shaped(c, 3, 2, u) /\ Shaped(c, 3, 3, v)
    BY <1>2, <2>0, CommonItems
  <2>5. ConfirmItems(c.linked) = IF c.linked THEN <<Confirmation, u, v>>
                                             ELSE <<Confirmation, u>>
    BY DEF ConfirmItems
  <2>6. /\ Len(Requests(c)) = 3
        /\ Requests(c)[1].items = <<x>> /\ Requests(c)[2].items = <<y>>
        /\ Requests(c)[3].items = ConfirmItems(c.linked)
    BY <1>2, ConfirmationsAre
  <2> HIDE DEF x, y, u, v
  <2>7. AllShaped(c, 3, <<Confirmation, u, v>>) /\ AllShaped(c, 3, <<Confirmation, u>>)
    BY <2>3, <2>4, ShapedItems
  <2>8. AllShaped(c, 3, ConfirmItems(c.linked))
    BY <2>5, <2>7, Zenon
  <2>9. AllShaped(c, 1, <<x>>) /\ AllShaped(c, 2, <<y>>)
    <3>1. AllShaped(c, 1, <<x>>)
      BY <2>3, ShapedItems
    <3>2. AllShaped(c, 2, <<y>>)
      BY <2>3 DEF AllShaped
    <3> QED BY <3>1, <3>2
  <2>10. \A n \in 1 .. 3 : n = 1 \/ n = 2 \/ n = 3
    OBVIOUS
  <2> QED BY <2>6, <2>8, <2>9, <2>10 DEF WellShaped
<1>3. CASE c.op = "delete_issue_attachment"
  <2> DEFINE x == ItemOld("attachment", Live("attachment"), Kept)
             y == Item("attachment", {"PENDING"}, Become("none"))
             u == Exists("issue")
             v == Exists("comment")
  <2>0. ~Fenced(c) /\ c.linked \in BOOLEAN
    BY <1>3, CallsAre
  <2>1. /\ Reason(c, 1, 1, "attachment", Live("attachment"), TRUE)
        /\ Reason(c, 2, 1, "attachment", {"PENDING"}, FALSE)
        /\ Reason(c, 3, 1, "attachment", {"UPLOADED"}, FALSE)
    BY <1>3, <2>0 DEF Reason
  <2>2. Keeps("attachment", Kept) /\ Keeps("attachment", Become("none"))
    BY WritesKeep, StatesAre
  <2>3. Shaped(c, 1, 1, x) /\ Shaped(c, 2, 1, y) /\ Shaped(c, 3, 1, Removal)
    BY <1>3, <2>1, <2>2, ShapedItem DEF Removal
  <2>4. Shaped(c, 3, 2, u) /\ Shaped(c, 3, 3, v)
    BY <1>3, <2>0, CommonItems
  <2>5. RemovalItems(c.linked) = IF c.linked THEN <<Removal, u, v>> ELSE <<Removal, u>>
    BY DEF RemovalItems
  <2>6. /\ Len(Requests(c)) = 3
        /\ Requests(c)[1].items = <<x>> /\ Requests(c)[2].items = <<y>>
        /\ Requests(c)[3].items = RemovalItems(c.linked)
    BY <1>3, RemovalsAre
  <2> HIDE DEF x, y, u, v
  <2>7. AllShaped(c, 3, <<Removal, u, v>>) /\ AllShaped(c, 3, <<Removal, u>>)
    BY <2>3, <2>4, ShapedItems
  <2>8. AllShaped(c, 3, RemovalItems(c.linked))
    BY <2>5, <2>7, Zenon
  <2>9. AllShaped(c, 1, <<x>>) /\ AllShaped(c, 2, <<y>>)
    <3>1. AllShaped(c, 1, <<x>>)
      BY <2>3, ShapedItems
    <3>2. AllShaped(c, 2, <<y>>)
      BY <2>3 DEF AllShaped
    <3> QED BY <3>1, <3>2
  <2>10. \A n \in 1 .. 3 : n = 1 \/ n = 2 \/ n = 3
    OBVIOUS
  <2> QED BY <2>6, <2>8, <2>9, <2>10 DEF WellShaped
<1> QED BY <1>1, <1>2, <1>3, SoleShaped DEF Several

\* The rows of a call are those its items name, and the version.
LEMMA RowsAre ==
  ASSUME NEW c \in Calls
  PROVE  /\ "version" \in RowsOf(c) /\ RowsOf(c) \subseteq DOMAIN States
         /\ \A n \in 1 .. Len(Requests(c)) : \A i \in DOMAIN Requests(c)[n].items :
               Requests(c)[n].items[i].row \in RowsOf(c)
         /\ \A r \in RowsOf(c) \ {"version"} : \E n \in 1 .. Len(Requests(c)) :
               \E i \in DOMAIN Requests(c)[n].items : Requests(c)[n].items[i].row = r
<1>1. DOMAIN Requests(c) = 1 .. Len(Requests(c))
  BY Kinds
<1> DEFINE Inner(request) == {item.row : item \in Range(request.items)}
           Outer == {Inner(request) : request \in Range(Requests(c))}
<1>a. RowsOf(c) = {"version"} \cup UNION Outer
  BY Zenon DEF RowsOf
<1>b. \A r, request : r \in Inner(request) <=>
         \E i \in DOMAIN request.items : request.items[i].row = r
  BY DEF Range
<1>c. \A request : request \in Range(Requests(c)) <=>
         \E n \in 1 .. Len(Requests(c)) : Requests(c)[n] = request
  BY <1>1 DEF Range
<1>d. \A r : r \in UNION Outer <=> \E request \in Range(Requests(c)) : r \in Inner(request)
  <2> HIDE DEF Inner
  <2> QED OBVIOUS
<1> HIDE DEF Inner, Outer
<1>2. \A n \in 1 .. Len(Requests(c)) : \A i \in DOMAIN Requests(c)[n].items :
         Requests(c)[n].items[i].row \in RowsOf(c)
  <2> SUFFICES ASSUME NEW n \in 1 .. Len(Requests(c)), NEW i \in DOMAIN Requests(c)[n].items
               PROVE  Requests(c)[n].items[i].row \in UNION Outer
    BY <1>a
  <2>1. Requests(c)[n].items[i].row \in Inner(Requests(c)[n])
    BY <1>b
  <2>2. Requests(c)[n] \in Range(Requests(c))
    BY <1>c
  <2> QED BY <1>d, <2>1, <2>2
<1>3. \A r \in RowsOf(c) \ {"version"} : \E n \in 1 .. Len(Requests(c)) :
         \E i \in DOMAIN Requests(c)[n].items : Requests(c)[n].items[i].row = r
  <2> SUFFICES ASSUME NEW r \in UNION Outer
               PROVE  \E n \in 1 .. Len(Requests(c)) :
                         \E i \in DOMAIN Requests(c)[n].items : Requests(c)[n].items[i].row = r
    BY <1>a
  <2>1. PICK request \in Range(Requests(c)) : r \in Inner(request)
    BY <1>d
  <2>2. PICK n \in 1 .. Len(Requests(c)) : Requests(c)[n] = request
    BY <1>c
  <2> QED BY <1>b, <2>1, <2>2
<1>4. \A n \in 1 .. Len(Requests(c)) : \A i \in DOMAIN Requests(c)[n].items :
         Requests(c)[n].items[i].row \in Rows
  BY Shape DEF WellShaped, AllShaped, Shaped
<1>5. "version" \in RowsOf(c)
  BY <1>a
<1> QED BY <1>2, <1>3, <1>4, <1>5, StatesAre

-----------------------------------------------------------------------------
(***************************************************************************)
(* The first refused item                                                  *)
(***************************************************************************)
LEMMA LeastPosition ==
  ASSUME NEW S \in SUBSET (1 .. 3), S # {}
  PROVE  \E j \in S : \A k \in S : j <= k
<1>1. CASE 1 \in S
  BY <1>1
<1>2. CASE 1 \notin S /\ 2 \in S
  BY <1>2
<1>3. CASE 1 \notin S /\ 2 \notin S
  <2>1. \A k \in S : k = 3
    BY <1>3
  <2>2. PICK x \in S : TRUE
    OBVIOUS
  <2>3. x = 3 /\ 3 <= 3
    BY <2>1
  <2> QED BY <2>1, <2>3
<1> QED BY <1>1, <1>2, <1>3

LEMMA BlamedIsRefused ==
  ASSUME call \in Calls, step \in 1 .. Len(Requests(call)), NEW view
  PROVE  /\ Blamed(view) # 0 => Blamed(view) \in RefusedItems(view)
         /\ RefusedItems(view) # {} => Blamed(view) # 0
<1> DEFINE order == Checks(call, step)
           found == {j \in DOMAIN order : order[j] \in RefusedItems(view)}
<1>1. DOMAIN Items \subseteq 1 .. 3
  BY Shape DEF WellShaped, AllShaped, Items, Request
<1>2. RefusedItems(view) \subseteq DOMAIN Items
  BY DEF RefusedItems
<1>3. /\ found \subseteq 1 .. 3
      /\ RefusedItems(view) # {} => found # {}
  <2>1. CASE call.op = "delete_issue_blocker" /\ step = 1
    <3>1. order = <<2, 1>>
      BY <2>1 DEF Checks
    <3>2. DOMAIN order = {1, 2} /\ order[1] = 2 /\ order[2] = 1
      BY <3>1
    <3>3. DOMAIN Items = {1, 2}
      BY <2>1, DeletionsAre DEF Items, Request
    <3> QED BY <1>2, <3>2, <3>3
  <2>2. CASE ~(call.op = "delete_issue_blocker" /\ step = 1)
    <3>1. order = [i \in DOMAIN Items |-> i]
      BY <2>2 DEF Checks, Items, Request
    <3> QED BY <1>1, <1>2, <3>1
  <2> QED BY <2>1, <2>2
<1>4. Blamed(view) = IF found = {} THEN 0
                     ELSE order[CHOOSE j \in found : \A k \in found : j <= k]
  BY DEF Blamed
<1>5. found # {} => (CHOOSE j \in found : \A k \in found : j <= k) \in found
  <2> HIDE DEF found
  <2> QED BY <1>3, LeastPosition
<1>6. 0 \notin RefusedItems(view)
  BY <1>1, <1>2
<1>7. found # {} => Blamed(view) \in RefusedItems(view)
  BY <1>4, <1>5
<1>8. found = {} => Blamed(view) = 0
  BY <1>4
<1> HIDE DEF found
<1> QED BY <1>3, <1>6, <1>7, <1>8
-----------------------------------------------------------------------------
(***************************************************************************)
(* The rows after a write                                                  *)
(***************************************************************************)
\* The state of the variables that the effect of a request is read from.
Sound ==
    /\ call \in Calls /\ step \in 1 .. Len(Requests(call))
    /\ DOMAIN table = RowsOf(call)
    /\ \A r \in DOMAIN table : table[r] \in States[r]
    /\ Possible(table) /\ dropped \subseteq {"issue", "comment"}

LEMMA ItemsAre ==
  ASSUME Sound
  PROVE  /\ DOMAIN Items \subseteq 1 .. 3
         /\ \A i \in DOMAIN Items : /\ Shaped(call, step, i, Items[i])
                                    /\ Items[i].row \in DOMAIN table \ {"version"}
<1>1. AllShaped(call, step, Items)
  BY Shape DEF Sound, WellShaped, Items, Request
<1>2. \A i \in DOMAIN Items : Items[i].row \in DOMAIN table
  BY RowsAre DEF Sound, Items, Request
<1>3. "version" \notin Rows
  BY DEF Rows
<1> QED BY <1>1, <1>2, <1>3 DEF AllShaped, Shaped

LEMMA EffectsAre ==
  ASSUME Sound, NEW t \in Effects
  PROVE  /\ DOMAIN t = DOMAIN table
         /\ \A i \in DOMAIN Items : t[Items[i].row] \in Items[i].to[table[Items[i].row]]
         /\ \A r \in DOMAIN table : (\A i \in DOMAIN Items : Items[i].row # r)
               => t[r] = table[r] \/ (r = "version" /\ t[r] = "moved")
<1> DEFINE named == {item.row : item \in Range(Items)}
           left == UNION {item.to[table[item.row]] : item \in Range(Items)}
<1>1. PICK pick \in [named -> left] :
         /\ \A item \in Range(Items) : pick[item.row] \in item.to[table[item.row]]
         /\ t = [r \in DOMAIN table |->
                   IF r \in named THEN pick[r]
                   ELSE IF r = "version" /\ Fenced(call) THEN "moved" ELSE table[r]]
  BY DEF Effects
<1>2. \A i \in DOMAIN Items : Items[i] \in Range(Items)
  BY DEF Range
<1>3. \A r : r \in named <=> \E i \in DOMAIN Items : Items[i].row = r
  BY DEF Range
<1>4. \A i \in DOMAIN Items : pick[Items[i].row] \in Items[i].to[table[Items[i].row]]
  BY <1>1, <1>2
<1>5. \A i \in DOMAIN Items : Items[i].row \in DOMAIN table
  BY ItemsAre
<1> HIDE DEF named, left
<1>6. /\ DOMAIN t = DOMAIN table
      /\ \A r \in DOMAIN table :
            t[r] = IF r \in named THEN pick[r]
                   ELSE IF r = "version" /\ Fenced(call) THEN "moved" ELSE table[r]
  BY <1>1
<1>7. \A i \in DOMAIN Items : t[Items[i].row] = pick[Items[i].row]
  BY <1>3, <1>5, <1>6
<1>8. \A r \in DOMAIN table : (\A i \in DOMAIN Items : Items[i].row # r)
         => t[r] = table[r] \/ (r = "version" /\ t[r] = "moved")
  BY <1>3, <1>6
<1> QED BY <1>4, <1>6, <1>7, <1>8

\* Whatever a request writes, its rows stay in their states.
LEMMA EffectsTyped ==
  ASSUME Sound, NEW t \in Effects, NEW r \in DOMAIN table
  PROVE  t[r] \in States[r]
<1>1. CASE \E i \in DOMAIN Items : Items[i].row = r
  <2>1. PICK i \in DOMAIN Items : Items[i].row = r
    BY <1>1
  <2>2. t[r] \in Items[i].to[table[r]]
    BY <2>1, EffectsAre
  <2>3. Keeps(r, Items[i].to)
    BY <2>1, ItemsAre DEF Shaped
  <2> QED BY <2>2, <2>3 DEF Keeps, Sound
<1>2. CASE \A i \in DOMAIN Items : Items[i].row # r
  BY <1>2, EffectsAre, StatesAre DEF Sound
<1> QED BY <1>1, <1>2

LEMMA NamedRows ==
  ASSUME Sound, NEW r \in DOMAIN table \ {"version"}
  PROVE  Belongs(call, r)
<1>1. PICK n \in 1 .. Len(Requests(call)) :
         \E i \in DOMAIN Requests(call)[n].items : Requests(call)[n].items[i].row = r
  BY RowsAre DEF Sound
<1> QED BY <1>1, Shape DEF Sound, WellShaped, AllShaped, Shaped

\* The operations that change two rows which go together.
LEMMA PairsAre ==
  ASSUME Sound
  PROVE  /\ {"issue", "space"} \subseteq DOMAIN table
              => call.op \in {"create_issue", "delete_issue"}
         /\ {"blocker", "issue"} \subseteq DOMAIN table
              => call.op \in {"add_issue_blocker", "delete_issue_blocker"}
         /\ {"blocker", "blocking"} \subseteq DOMAIN table => call.op = "add_issue_blocker"
         /\ {"attachment", "object"} \subseteq DOMAIN table => call.op = "confirm_uploaded"
<1>1. \A r \in {"issue", "space", "blocker", "blocking", "object"} :
         r \in DOMAIN table => Belongs(call, r)
  BY NamedRows
<1> QED BY <1>1 DEF Belongs

\* The states of two rows that go together are those of two Implies of Possible.
LEMMA PossibleIs ==
  ASSUME NEW t
  PROVE  Possible(t) <=>
           /\ {"issue", "space"} \subseteq DOMAIN t
                => (t["issue"] \in Live("issue") => t["space"] = "full")
           /\ {"blocker", "issue"} \subseteq DOMAIN t
                => (t["blocker"] = "active" => t["issue"] \in {"HELD", "none"})
           /\ {"blocker", "blocking"} \subseteq DOMAIN t
                => (t["blocker"] = "done" => t["blocking"] \in {"DONE", "none"})
           /\ {"attachment", "object"} \subseteq DOMAIN t
                => (t["attachment"] = "UPLOADED" => t["object"] = "stored")
<1>1. /\ {"issue", "space"} = {"space", "issue"}
  OBVIOUS
<1> QED BY DEF Possible, Implies

\* The object of an attachment that is about to be confirmed has been seen in S3.
Confirmable ==
    call.op = "confirm_uploaded" /\ at = "calling" /\ step = 3
       => table["object"] = "stored" \/ table["attachment"] = "none"

\* What a request writes is possible, as far as the rows show.
LEMMA EffectsPossible ==
  ASSUME Sound, NEW t \in Effects, Confirmable, at = "calling",
         Request.kind # "read" => RefusedItems(table) = {}
  PROVE  Possible(t)
<1>0. DOMAIN t = DOMAIN table
  BY EffectsAre
<1>1. {"issue", "space"} \subseteq DOMAIN t
         => (t["issue"] \in Live("issue") => t["space"] = "full")
  <2> SUFFICES ASSUME {"issue", "space"} \subseteq DOMAIN t
               PROVE  t["issue"] \notin Live("issue") \/ t["space"] = "full"
    OBVIOUS
  <2>1. CASE call.op = "create_issue"
    <3> DEFINE x == Item("space", Live("space"), Counted)
               y == Put("issue", "TODO")
    <3>1. step = 1 /\ Request = Transaction(<<x, y>>)
      BY <2>1, RequestsAre DEF CreateIssue, Sound, Request
    <3>2. Items = <<x, y>> /\ Request.kind = "transaction"
      BY <3>1 DEF Items, Transaction
    <3>3. x.row = "space" /\ x.ok = Live("space") /\ x.to = Counted
      BY Fields
    <3>4. Items[1] = x /\ 1 \in DOMAIN Items
      BY <3>2
    <3> HIDE DEF x, y
    <3>5. 1 \notin RefusedItems(table)
      BY <3>2
    <3>6. table["space"] \in Live("space")
      BY <3>3, <3>4, <3>5 DEF RefusedItems, Refuses, Sound
    <3>7. t["space"] \in Counted[table["space"]]
      BY <3>3, <3>4, EffectsAre
    <3>8. \A s \in {"empty", "full"} : Counted[s] = {"full"}
      BY StatesAre DEF Counted, Kept, Rows
    <3> QED BY <3>6, <3>7, <3>8, StatesAre DEF Rows
  <2>2. CASE call.op = "delete_issue"
    <3> DEFINE x == Delete("issue")
               y == Item("space", Live("space"), Uncounted)
    <3>1. step = 1 /\ Request = Transaction(<<x, y>>)
      BY <2>2, RequestsAre DEF DeleteIssue, Sound, Request
    <3>2. Items = <<x, y>>
      BY <3>1 DEF Items, Transaction
    <3>3. x.row = "issue" /\ x.to = Become("none")
      BY Fields DEF Delete
    <3>4. Items[1] = x /\ 1 \in DOMAIN Items
      BY <3>2
    <3> HIDE DEF x, y
    <3>5. t["issue"] \in Become("none")[table["issue"]]
      BY <3>3, <3>4, EffectsAre
    <3>6. table["issue"] \in AllStates
      BY <1>0, StatesAre DEF Sound, Rows
    <3> QED BY <3>5, <3>6 DEF Become, Live
  <2> QED BY <1>0, <2>1, <2>2, PairsAre
<1>2. /\ {"blocker", "issue"} \subseteq DOMAIN t
            => (t["blocker"] = "active" => t["issue"] \in {"HELD", "none"})
      /\ {"blocker", "blocking"} \subseteq DOMAIN t
            => (t["blocker"] = "done" => t["blocking"] \in {"DONE", "none"})
  <2>1. CASE call.op = "add_issue_blocker"
    <3> DEFINE x == ItemOld("blocking", Live("blocking") \ {"DONE"}, Kept)
               y == ItemOld("issue", Live("issue") \ {"DONE"}, Become("HELD"))
               z == Put("blocker", "active")
    <3>1. step = 1 /\ Request = Transaction(<<x, y, z>>)
      BY <2>1, RequestsAre DEF AddIssueBlocker, Sound, Request
    <3>2. Items = <<x, y, z>>
      BY <3>1 DEF Items, Transaction
    <3>3. /\ y.row = "issue" /\ y.to = Become("HELD")
          /\ z.row = "blocker" /\ z.to = Become("active")
      BY Fields DEF Put
    <3>4. Items[2] = y /\ Items[3] = z /\ 2 \in DOMAIN Items /\ 3 \in DOMAIN Items
      BY <3>2
    <3> HIDE DEF x, y, z
    <3>5. /\ t["issue"] \in Become("HELD")[table["issue"]]
          /\ t["blocker"] \in Become("active")[table["blocker"]]
          /\ {"issue", "blocker"} \subseteq DOMAIN table
      BY <3>3, <3>4, EffectsAre, ItemsAre
    <3>6. table["issue"] \in AllStates /\ table["blocker"] \in AllStates
      BY <3>5, StatesAre DEF Sound, Rows
    <3> QED BY <3>5, <3>6 DEF Become
  <2>2. CASE call.op = "delete_issue_blocker"
    <3>1. /\ 1 \in DOMAIN Items /\ Items[1].row = "blocker"
          /\ Items[1].to = Become("none")
      BY <2>2, DeletionsAre, Fields DEF Sound, Items, Request
    <3>2. t["blocker"] \in Become("none")[table["blocker"]] /\ "blocker" \in DOMAIN table
      BY <3>1, EffectsAre, ItemsAre
    <3>3. table["blocker"] \in AllStates
      BY <3>2, StatesAre DEF Sound, Rows
    <3> QED BY <3>2, <3>3 DEF Become
  <2> QED BY <1>0, <2>1, <2>2, PairsAre
<1>3. {"attachment", "object"} \subseteq DOMAIN t
         => (t["attachment"] = "UPLOADED" => t["object"] = "stored")
  <2> SUFFICES ASSUME {"attachment", "object"} \subseteq DOMAIN table
               PROVE  t["attachment"] = "UPLOADED" => t["object"] = "stored"
    BY <1>0
  <2>0. call.op = "confirm_uploaded"
    BY PairsAre
  <2>1. /\ table["attachment"] \in AllStates /\ table["object"] \in AllStates
        /\ table["attachment"] = "UPLOADED" => table["object"] = "stored"
    BY StatesAre, PossibleIs DEF Sound, Rows
  <2>2. \A s \in AllStates : Kept[s] = {s}
    BY DEF Kept
  <2>3. CASE step = 1
    <3>1. Items = <<ItemOld("attachment", Live("attachment"), Kept)>>
      BY <2>0, <2>3, ConfirmationsAre DEF Items, Request, Sound
    <3>2. /\ DOMAIN Items = {1} /\ Items[1].row = "attachment" /\ Items[1].to = Kept
      BY <3>1, Fields
    <3>3. t["attachment"] \in Kept[table["attachment"]] /\ t["object"] = table["object"]
      BY <3>2, EffectsAre
    <3> QED BY <2>1, <2>2, <3>3
  <2>4. CASE step = 2
    <3>1. Items = <<Item("object", {"stored"}, Kept)>>
      BY <2>0, <2>4, ConfirmationsAre DEF Items, Request, Sound
    <3>2. DOMAIN Items = {1} /\ Items[1].row = "object" /\ Items[1].to = Kept
      BY <3>1, Fields
    <3>3. t["object"] \in Kept[table["object"]] /\ t["attachment"] = table["attachment"]
      BY <3>2, EffectsAre
    <3> QED BY <2>1, <2>2, <3>3
  <2>5. CASE step = 3
    <3>1. Request.kind = "transaction" /\ Items = ConfirmItems(call.linked)
      BY <2>0, <2>5, ConfirmationsAre DEF Items, Request, Sound
    <3>2. /\ 1 \in DOMAIN Items /\ Items[1] = Confirmation
          /\ \A i \in DOMAIN Items : Items[i].row # "object"
      BY <3>1, Fields DEF ConfirmItems, Confirmation, Exists
    <3>3. t["object"] = table["object"]
      BY <3>2, EffectsAre
    <3>4. Confirmation.row = "attachment" /\ Confirmation.ok = {"PENDING"}
      BY Fields DEF Confirmation
    <3>5. table["attachment"] \in {"PENDING"}
      BY <3>1, <3>2, <3>4 DEF RefusedItems, Refuses, Sound
    <3> QED BY <2>0, <2>5, <3>3, <3>5 DEF Confirmable
  <2>6. step \in 1 .. 3
    BY <2>0, ConfirmationsAre DEF Sound
  <2> QED BY <2>3, <2>4, <2>5, <2>6
<1> QED BY <1>1, <1>2, <1>3, PossibleIs
-----------------------------------------------------------------------------
(***************************************************************************)
(* What a refusal says                                                     *)
(***************************************************************************)
\* delete_issue_blocker falls back to the bare delete only for a row that was gone, or
\* is satisfied and may go.
Satisfied ==
    call.op = "delete_issue_blocker" /\ at = "calling" /\ step = 2
       => <<"blocker", "none">> \in seen \/ table["blocker"] = "done"

Seen == at = "calling" => Facts(table) \subseteq seen

LEMMA ErrorIs ==
  \A e, r, s : /\ Error(e, r, s).error = e /\ Error(e, r, s).row = r
               /\ Error(e, r, s).states = s
BY DEF Error

\* An error that names a state its row is known to have had, and is not internal.
Grounded(e, known) ==
    /\ e.error # "DDBInternalError"
    /\ e.row \in DOMAIN States /\ e.states \subseteq States[e.row]
    /\ \E s \in e.states : <<e.row, s>> \in known

LEMMA GroundedError ==
  ASSUME NEW e, e # "DDBInternalError", NEW r \in DOMAIN States, NEW s \in SUBSET States[r],
         NEW known, NEW v \in s, <<r, v>> \in known
  PROVE  Grounded(Error(e, r, s), known)
<1>1. /\ Error(e, r, s).error = e /\ Error(e, r, s).row = r
      /\ Error(e, r, s).states = s
  BY ErrorIs
<1> QED BY <1>1, Zenon DEF Grounded

\* A row that exists, refused for what it holds.
LEMMA DomainErrorIsGrounded ==
  ASSUME NEW c \in Calls, NEW n, NEW i, NEW r \in Rows, NEW ok, NEW v \in Live(r),
         Reason(c, n, i, r, ok, TRUE), v \notin ok, ok # {"none"}, r # "object",
         ~(c.op = "delete_issue_blocker" /\ n = 1 /\ i = 1),
         ~(c.op = "delete_issue_attachment" /\ n # 1), NEW known, <<r, v>> \in known
  PROVE  Grounded(DomainError(c, r, v), known)
<1>0. /\ ok # Live(r) /\ DOMAIN States = Rows \cup {"version"}
      /\ Live(r) = States[r] \ {"none"}
  BY StatesAre
<1>1. CASE c.op = "delete_space" /\ r = "space" /\ ok = {"empty"}
  <2>1. v = "full" /\ {"full"} \in SUBSET States["space"]
    BY <1>1, StatesAre DEF Rows
  <2>2. DomainError(c, r, v) = Error("DDBSpaceNotEmptyError", r, {"full"})
    BY <1>1 DEF DomainError
  <2> QED BY <1>0, <1>1, <2>1, <2>2, GroundedError
<1>2. CASE /\ c.op = "transition_issue" /\ r = "issue"
           /\ (c.status # "DONE" /\ v = "DONE") \/ (c.status # "BLOCKED" /\ v = "HELD")
  <2>1. DomainError(c, r, v) = Classify(c.status, v)
    BY <1>2 DEF DomainError
  <2>2. {"DONE"} \in SUBSET States["issue"] /\ {"HELD"} \in SUBSET States["issue"]
    BY StatesAre DEF IssueStates
  <2>3. CASE c.status # "DONE" /\ v = "DONE"
    <3>1. Classify(c.status, v) = Error("DDBTerminalStatusError", "issue", {"DONE"})
      BY <2>3 DEF Classify
    <3> QED BY <1>0, <1>2, <2>1, <2>2, <2>3, <3>1, GroundedError
  <2>4. CASE ~(c.status # "DONE" /\ v = "DONE")
    <3>1. v = "HELD"
      BY <1>2, <2>4
    <3>2. Classify(c.status, v) = Error("DDBStillBlockedError", "issue", {"HELD"})
      BY <1>2, <2>4 DEF Classify
    <3> QED BY <1>0, <1>2, <2>1, <2>2, <3>1, <3>2, GroundedError
  <2> QED BY <2>3, <2>4
<1>3. CASE c.op = "add_issue_blocker" /\ r \in {"blocking", "issue"} /\ ok = Live(r) \ {"DONE"}
  <2>1. v = "DONE"
    BY <1>3
  <2>2. {"DONE"} \in SUBSET States[r]
    BY <1>3, StatesAre DEF IssueStates
  <2>3. CASE r = "blocking"
    <3>1. DomainError(c, r, v) = Error("DDBBlockingIssueDoneError", r, {"DONE"})
      BY <1>3, <2>3 DEF DomainError
    <3> QED BY <1>0, <2>1, <2>2, <3>1, GroundedError
  <2>4. CASE r = "issue"
    <3>1. DomainError(c, r, v) = Error("DDBTerminalStatusError", r, {"DONE"})
      BY <1>3, <2>4 DEF DomainError
    <3> QED BY <1>0, <2>1, <2>2, <3>1, GroundedError
  <2> QED BY <1>3, <2>3, <2>4
<1>4. CASE /\ c.op \in {"resign_upload", "confirm_uploaded"}
           /\ r = "attachment" /\ ok = {"PENDING"}
  <2>1. v = "UPLOADED" /\ {"UPLOADED"} \in SUBSET States["attachment"]
    BY <1>4, StatesAre DEF Rows
  <2>2. DomainError(c, r, v) = Error("DDBAttachmentStatusError", r, {"UPLOADED"})
    BY <1>4 DEF DomainError
  <2> QED BY <1>0, <1>4, <2>1, <2>2, GroundedError
<1>5. ok # {"stored"} \/ r # "object"
  OBVIOUS
<1> QED BY <1>0, <1>1, <1>2, <1>3, <1>4, <1>5 DEF Reason

\* Whatever the code raises for a refusal, the row it names has been in one of the
\* states it says.
LEMMA ToldIsGrounded ==
  ASSUME Sound, Satisfied, Seen, NEW view \in {table, lagging},
         DOMAIN lagging = DOMAIN table,
         \A r \in DOMAIN table : lagging[r] \in States[r],
         Refused(view)
  PROVE  Grounded(Told(view), seen')
<1> DEFINE i == Blamed(view)
           item == Items[i]
           r == item.row
           v == view[r]
           old == IF item.old THEN v ELSE "none"
<1>0. /\ at = "calling" /\ view \in Views /\ RefusedItems(view) # {}
      /\ ~(call.op = "delete_issue_blocker" /\ step = 1 /\ i = 1)
      /\ ~(call.op = "delete_issue_attachment" /\ step # 1)
      /\ seen' = seen \cup {<<it.row, view[it.row]>> : it \in Range(Items)}
      /\ Facts(table) \subseteq seen
  BY DEF Refused, Seen, OnLadder
<1>1. i # 0 /\ i \in DOMAIN Items /\ Refuses(item, view)
  BY <1>0, BlamedIsRefused DEF RefusedItems, Sound
<1>2. /\ Shaped(call, step, i, item)
      /\ r \in DOMAIN table /\ r \in Rows /\ v \in States[r]
  BY <1>1, ItemsAre DEF Shaped, Sound
<1>3. <<r, v>> \in seen'
  <2>1. item \in Range(Items)
    BY <1>1 DEF Range
  <2> HIDE DEF item
  <2> QED BY <1>0, <2>1
<1>4. Request.kind # "read" => view = table
  BY <1>0 DEF Views
<1>5. /\ <<"version", table["version"]>> \in seen'
      /\ table["version"] \in {"read", "moved"}
  BY <1>0, RowsAre, StatesAre DEF Facts, Sound
<1>6. item.old \in BOOLEAN /\ Reason(call, step, i, r, item.ok, item.old)
  BY <1>2 DEF Shaped
<1>7. v \notin item.ok \/ (Fenced(call) /\ table["version"] = "moved")
  BY <1>1, <1>4 DEF Refuses
<1>8. /\ DOMAIN States = Rows \cup {"version"} /\ Live(r) = States[r] \ {"none"}
      /\ "none" \in States[r]
      /\ States["version"] = {"read", "moved"} /\ States["object"] = {"none", "stored"}
  BY <1>2, StatesAre
<1>9. CASE call.op = "create_issue" /\ i = 2
  <2>1. Told(view) = Error("DDBIdCollisionError", "issue", Live("issue"))
    BY <1>1, <1>9 DEF Told, Collision
  <2>2. r = "issue" /\ item.ok = {"none"} /\ ~Fenced(call)
    BY <1>2, <1>9, CallsAre DEF Shaped, Sound
  <2>3. v \in Live("issue")
    BY <1>2, <1>7, <1>8, <2>2
  <2>4. /\ Live("issue") \in SUBSET States["issue"] /\ "issue" \in DOMAIN States
        /\ <<"issue", v>> \in seen'
    BY <1>2, <1>3, <1>8, <2>2
  <2> HIDE DEF v
  <2> QED BY <2>1, <2>3, <2>4, GroundedError
<1>10. CASE ~(call.op = "create_issue" /\ i = 2)
  <2>1. Told(view) = Explain(call, item, old)
    BY <1>1, <1>10 DEF Told
  <2> HIDE DEF item, r, v, old
  <2>2. CASE item.ok = {"none"}
    <3>1. Explain(call, item, old) = Error("DDBExistsError", r, Live(r))
      BY <2>2 DEF Explain, r
    <3>2. ~Fenced(call)
      BY <1>6, <1>8, <2>2, CallsAre DEF Reason, Sound
    <3>3. v \in Live(r)
      BY <1>2, <1>7, <1>8, <2>2, <3>2
    <3> QED BY <1>2, <1>3, <1>8, <2>1, <3>1, <3>3, GroundedError
  <2>3. CASE item.ok # {"none"} /\ r = "object"
    <3>1. Explain(call, item, old) = Error("StorageObjectMissingError", "object", {"none"})
      BY <2>3 DEF Explain, r
    <3>2. ~Fenced(call) /\ item.ok = {"stored"}
      BY <1>6, <1>8, <2>3 DEF Reason
    <3>3. v = "none"
      BY <1>2, <1>7, <1>8, <2>3, <3>2
    <3> QED BY <1>2, <1>3, <1>8, <2>1, <2>3, <3>1, <3>3, GroundedError
  <2>4. CASE item.ok # {"none"} /\ r # "object" /\ old = "none"
    <3>1. Explain(call, item, old) = Error("DDBMissingError", r, {"none"})
      BY <2>4 DEF Explain, r
    <3>2. <<r, "none">> \in seen'
      <4>1. CASE v = "none"
        BY <1>3, <4>1
      <4>2. CASE v # "none"
        <5>1. item.old = FALSE
          BY <1>6, <2>4, <4>2 DEF old
        <5>2. v \in Live(r)
          BY <1>2, <1>8, <4>2
        <5>3. call.op = "delete_issue_blocker" /\ step = 2 /\ r = "blocker"
                 /\ item.ok = {"done"}
          BY <1>0, <1>6, <1>7, <2>4, <5>1, <5>2 DEF Reason
        <5>4. ~Fenced(call) /\ Request.kind = "write"
          BY <5>3, CallsAre, DeletionsAre DEF Sound, Request
        <5>5. v = table["blocker"]
          BY <1>4, <5>3, <5>4 DEF v
        <5> QED BY <1>0, <1>7, <5>3, <5>4, <5>5 DEF Satisfied
      <4> QED BY <4>1, <4>2
    <3> QED BY <1>2, <1>8, <2>1, <3>1, <3>2, GroundedError
  <2>5. CASE /\ item.ok # {"none"} /\ r # "object" /\ old # "none"
             /\ Fenced(call) /\ table["version"] = "moved"
    <3>1. Explain(call, item, old) = Error("DDBVersionConflictError", "version", {"moved"})
      BY <2>5 DEF Explain, r
    <3> QED BY <1>5, <1>8, <2>1, <2>5, <3>1, GroundedError
  <2>6. CASE /\ item.ok # {"none"} /\ r # "object" /\ old # "none"
             /\ ~(Fenced(call) /\ table["version"] = "moved")
    <3>1. old = v /\ item.old = TRUE
      BY <1>6, <2>6 DEF old
    <3>2. Explain(call, item, old) = DomainError(call, r, v)
      BY <2>6, <3>1 DEF Explain, r
    <3>3. v \in Live(r) /\ v \notin item.ok
      BY <1>2, <1>7, <1>8, <2>6, <3>1
    <3>4. Reason(call, step, i, r, item.ok, TRUE)
      BY <1>6, <3>1
    <3>5. call \in Calls
      BY DEF Sound
    <3> HIDE DEF i
    <3>6. Grounded(DomainError(call, r, v), seen')
      BY <1>0, <1>2, <1>3, <2>6, <3>3, <3>4, <3>5, DomainErrorIsGrounded
    <3> QED BY <2>1, <3>2, <3>6
  <2> QED BY <2>2, <2>3, <2>4, <2>5, <2>6
<1> QED BY <1>9, <1>10
-----------------------------------------------------------------------------
(***************************************************************************)
(* The invariant                                                           *)
(***************************************************************************)
\* A call has its answer when it has returned.  Until then it has changed a row only by
\* a single-item write whose reply was lost.
Answered ==
    /\ at # "returned" => result = Success
    /\ at = "ready" => step = 1 /\ ~applied
    /\ applied => resent \/ (at = "returned" /\ result \in {Success, Failed})

\* delete_issue_attachment: while no lagging copy has answered a re-read, the attempts
\* left are those that a counter gone for every owner still takes.  A delete of a PENDING
\* row is refused once, as nothing makes an attachment PENDING again.
OnRungs ==
    call.op = "delete_issue_attachment" /\ at # "returned" =>
      /\ at = "ready" => tries = 4
      /\ step # 1 => tries > 0
      /\ ~lagged =>
           /\ step = 1 => tries = 4 \/ (tries = 3 /\ table["attachment"] # "PENDING")
           /\ step = 2 => tries = 4
           /\ step = 3 => \/ tries >= 3
                          \/ tries = 2 /\ dropped # {}
                          \/ {"issue", "comment"} \subseteq dropped

Inv ==
    /\ TypeOK /\ Confirmable /\ Satisfied /\ Seen /\ Answered /\ OnRungs
    /\ ErrorsAreTrue /\ NothingUnexplained

\* The rows and what was seen of them.
TableTyped ==
    /\ DOMAIN table = RowsOf(call) /\ \A r \in DOMAIN table : table[r] \in States[r]
    /\ Possible(table)
    /\ seen \subseteq UNION {{r} \X States[r] : r \in DOMAIN table}

\* The rest of the types.
CallTyped ==
    /\ call \in Calls /\ DOMAIN lagging = RowsOf(call)
    /\ \A r \in DOMAIN lagging : lagging[r] \in States[r]
    /\ at \in {"ready", "calling", "returned"} /\ step \in 1 .. Len(Requests(call))
    /\ attempts \in 1 .. TRANSACT_RETRY_ATTEMPTS /\ rolls \in 1 .. RETRY_ISSUE_ID_COLLISIONS
    /\ tries \in 0 .. ATTACHMENT_DELETE_ATTEMPTS /\ dropped \subseteq {"issue", "comment"}
    /\ lagged \in BOOLEAN
    /\ result.row \in DOMAIN States /\ result.states \subseteq States[result.row]
    /\ applied \in BOOLEAN /\ resent \in BOOLEAN
    /\ changes \in 0 .. MaxChanges /\ lost \in 0 .. MaxLost

LEMMA Typed == TypeOK <=> TableTyped /\ CallTyped
<1>1. TypeOK => TableTyped /\ CallTyped
  BY DEF TypeOK, TableTyped, CallTyped
<1>2. TableTyped /\ CallTyped => TypeOK
  BY DEF TypeOK, TableTyped, CallTyped
<1> QED BY <1>1, <1>2

LEMMA TypedNext == TableTyped' /\ CallTyped' => TypeOK'
BY DEF TypeOK, TableTyped, CallTyped

LEMMA TypedIsSound == TypeOK => Sound
BY DEF TypeOK, Sound

LEMMA SeenTyped ==
  ASSUME NEW S, NEW D
  PROVE  S \subseteq UNION {{r} \X States[r] : r \in D}
           <=> \A p \in S : \E r \in D : \E s \in States[r] : p = <<r, s>>
<1>1. \A p : p \in UNION {{r} \X States[r] : r \in D}
               <=> \E r \in D : \E s \in States[r] : p = <<r, s>>
  OBVIOUS
<1> QED BY <1>1, Zenon

\* Rows that become other states of theirs.
LEMMA BecomesTyped ==
  ASSUME TypeOK, Seen, NEW t, DOMAIN t = DOMAIN table,
         \A r \in DOMAIN t : t[r] \in States[r], Possible(t), Becomes(t), call' = call
  PROVE  /\ TableTyped' /\ table' = t /\ seen \subseteq seen'
         /\ at = "calling" => Facts(t) \subseteq seen'
<1>1. /\ table' = t /\ seen' \subseteq seen \cup Facts(t) /\ seen \subseteq seen'
      /\ at = "calling" => Facts(t) \subseteq seen'
  BY DEF Becomes
<1>2. \A p \in Facts(t) : \E r \in DOMAIN t : \E s \in States[r] : p = <<r, s>>
  BY DEF Facts
<1>3. \A p \in seen : \E r \in DOMAIN t : \E s \in States[r] : p = <<r, s>>
  BY SeenTyped DEF TypeOK
<1>4. seen' \subseteq UNION {{r} \X States[r] : r \in DOMAIN t}
  <2>1. ASSUME NEW p \in seen'
        PROVE  \E r \in DOMAIN t : \E s \in States[r] : p = <<r, s>>
    <3>1. p \in seen \/ p \in Facts(t)
      BY <1>1
    <3> QED BY <1>2, <1>3, <3>1, Zenon
  <2> QED BY <2>1, SeenTyped, Zenon
<1>5. DOMAIN t = RowsOf(call)
  BY DEF TypeOK
<1>6. TableTyped'
  <2>1. DOMAIN table' = RowsOf(call') /\ Possible(table')
        /\ \A r \in DOMAIN table' : table'[r] \in States[r]
    BY <1>1, <1>5
  <2>2. seen' \subseteq UNION {{r} \X States[r] : r \in DOMAIN table'}
    BY <1>1, <1>4
  <2> QED BY <2>1, <2>2 DEF TableTyped
<1> QED BY <1>1, <1>6

\* A row put to another of its states, that goes with the other rows.
LEMMA OneRowTyped ==
  ASSUME TypeOK, NEW r, NEW s \in States[r], NEW t, t = [table EXCEPT ![r] = s]
  PROVE  DOMAIN t = DOMAIN table /\ \A q \in DOMAIN t : t[q] \in States[q]
BY DEF TypeOK

LEMMA RedrawnTyped ==
  ASSUME TypeOK, NEW t \in Redrawn
  PROVE  /\ DOMAIN t = DOMAIN table /\ \A r \in DOMAIN t : t[r] \in States[r]
         /\ Possible(t)
<1>1. (\E r : \E s \in States[r] : t = [table EXCEPT ![r] = s] /\ Possible(t)) \/ t = table
  BY DEF Redrawn
<1> QED BY <1>1, OneRowTyped DEF TypeOK

\* The errors that are not of a row.
LEMMA PlainErrors ==
  /\ \A e \in {Success, Failed, Conflict} :
        /\ e.row \in DOMAIN States /\ e.states = {} /\ e \notin {Unexplained, GaveUp}
  /\ GaveUp.row \in DOMAIN States /\ GaveUp.states = {} /\ GaveUp # Unexplained
  /\ Conflict \notin {Success, Failed}
BY StatesAre, ErrorIs DEF Success, Failed, Conflict, Unexplained, GaveUp, Error, Rows

LEMMA GroundedResult ==
  ASSUME NEW e, NEW known, Grounded(e, known)
  PROVE  /\ e.row \in DOMAIN States /\ e.states \subseteq States[e.row]
         /\ e \notin {Unexplained, GaveUp} /\ \E s \in e.states : <<e.row, s>> \in known
<1>1. Unexplained.error = "DDBInternalError" /\ GaveUp.error = "DDBInternalError"
  BY DEF Unexplained, GaveUp, Error
<1> QED BY <1>1 DEF Grounded

LEMMA InitInv == Init => Inv
<1> SUFFICES ASSUME Init PROVE Inv
  OBVIOUS
<1>1. /\ call \in Calls /\ at = "ready" /\ step = 1
      /\ lagging \in {table} \cup
                      {[table EXCEPT ![r] = "none"] : r \in DOMAIN table \ {"version"}}
      /\ tries = ATTACHMENT_DELETE_ATTEMPTS /\ dropped = {} /\ lagged = FALSE
      /\ attempts = AttemptsOf(call) /\ rolls = RETRY_ISSUE_ID_COLLISIONS
      /\ result = Success /\ seen = {} /\ applied = FALSE /\ resent = FALSE
      /\ changes = 0 /\ lost = 0
      /\ DOMAIN table = RowsOf(call) /\ \A r \in DOMAIN table : table[r] \in States[r]
      /\ Possible(table)
  BY DEF Init
<1>2. TableTyped
  BY <1>1 DEF TableTyped
<1>3. CallTyped
  <2>1. step \in 1 .. Len(Requests(call))
    BY <1>1, Kinds
  <2>2. attempts \in 1 .. TRANSACT_RETRY_ATTEMPTS /\ rolls \in 1 .. RETRY_ISSUE_ID_COLLISIONS
    BY <1>1, AttemptsAssumption DEF AttemptsOf
  <2>3. result.row \in DOMAIN States /\ result.states \subseteq States[result.row]
    BY <1>1, PlainErrors
  <2>4. DOMAIN lagging = RowsOf(call) /\ \A r \in DOMAIN lagging : lagging[r] \in States[r]
    <3>1. \A r \in DOMAIN table \ {"version"} : "none" \in States[r]
      BY <1>1, RowsAre, StatesAre
    <3> QED BY <1>1, <3>1
  <2>5. changes \in 0 .. MaxChanges /\ lost \in 0 .. MaxLost
    BY <1>1, BoundsAssumption
  <2>6. /\ at \in {"ready", "calling", "returned"}
        /\ applied \in BOOLEAN /\ resent \in BOOLEAN /\ lagged \in BOOLEAN
        /\ tries \in 0 .. ATTACHMENT_DELETE_ATTEMPTS /\ dropped \subseteq {"issue", "comment"}
    <3>1. /\ at = "ready" /\ applied = FALSE /\ resent = FALSE /\ lagged = FALSE
          /\ tries = ATTACHMENT_DELETE_ATTEMPTS /\ dropped = {}
      BY <1>1
    <3>2. ATTACHMENT_DELETE_ATTEMPTS \in 0 .. ATTACHMENT_DELETE_ATTEMPTS
      BY DEF ATTACHMENT_DELETE_ATTEMPTS
    <3> QED BY ONLY <3>1, <3>2
  <2> QED BY <1>1, <2>1, <2>2, <2>3, <2>4, <2>5, <2>6 DEF CallTyped
<1>4. Confirmable /\ Satisfied /\ Seen /\ Answered /\ OnRungs
  BY <1>1 DEF Confirmable, Satisfied, Seen, Answered, OnRungs, ATTACHMENT_DELETE_ATTEMPTS
<1>5. ErrorsAreTrue /\ NothingUnexplained
  BY <1>1, PlainErrors DEF ErrorsAreTrue, NothingUnexplained
<1> QED BY <1>2, <1>3, <1>4, <1>5, Typed DEF Inv
-----------------------------------------------------------------------------
(***************************************************************************)
(* Steps of others                                                         *)
(***************************************************************************)
LEMMA SeveralRows ==
  ASSUME TypeOK
  PROVE  /\ call.op = "confirm_uploaded" => {"attachment", "object"} \subseteq DOMAIN table
         /\ call.op = "delete_issue_blocker" => "blocker" \in DOMAIN table
         /\ call.op = "delete_issue_attachment" => "attachment" \in DOMAIN table
<1>1. call.op = "confirm_uploaded" => {"attachment", "object"} \subseteq DOMAIN table
  <2> SUFFICES ASSUME call.op = "confirm_uploaded"
               PROVE  {"attachment", "object"} \subseteq DOMAIN table
    OBVIOUS
  <2>1. /\ 1 \in 1 .. Len(Requests(call)) /\ 2 \in 1 .. Len(Requests(call))
        /\ 1 \in DOMAIN Requests(call)[1].items /\ 1 \in DOMAIN Requests(call)[2].items
        /\ Requests(call)[1].items[1].row = "attachment"
        /\ Requests(call)[2].items[1].row = "object"
    BY ConfirmationsAre, Fields DEF TypeOK
  <2> QED BY <2>1, RowsAre DEF TypeOK
<1>2. call.op = "delete_issue_blocker" => "blocker" \in DOMAIN table
  <2> SUFFICES ASSUME call.op = "delete_issue_blocker"
               PROVE  "blocker" \in DOMAIN table
    OBVIOUS
  <2>1. /\ 1 \in 1 .. Len(Requests(call)) /\ 1 \in DOMAIN Requests(call)[1].items
        /\ Requests(call)[1].items[1].row = "blocker"
    BY DeletionsAre, Fields DEF TypeOK
  <2> QED BY <2>1, RowsAre DEF TypeOK
<1>3. call.op = "delete_issue_attachment" => "attachment" \in DOMAIN table
  <2> SUFFICES ASSUME call.op = "delete_issue_attachment"
               PROVE  "attachment" \in DOMAIN table
    OBVIOUS
  <2>1. /\ 1 \in 1 .. Len(Requests(call)) /\ 1 \in DOMAIN Requests(call)[1].items
        /\ Requests(call)[1].items[1].row = "attachment"
    BY RemovalsAre, Fields DEF TypeOK
  <2> QED BY <2>1, RowsAre DEF TypeOK
<1> QED BY <1>1, <1>2, <1>3

\* An attachment does not come back, nor turn PENDING, and a satisfied blocker only goes.
LEMMA MovesAre ==
  \A s : /\ \A t : <<s, t>> \in Moves["attachment"] => s # "none" /\ t # "PENDING"
         /\ \A t : <<s, t>> \in Moves["blocker"] /\ s = "done" => t = "none"
BY DEF Moves

LEMMA OthersInv ==
  ASSUME Inv, NEW r \in DOMAIN table, NEW s \in States[r], Others(r, s)
  PROVE  Inv'
<1> DEFINE t == [table EXCEPT ![r] = s]
<1>0. /\ TypeOK /\ Confirmable /\ Satisfied /\ Seen /\ Answered /\ OnRungs
      /\ NothingUnexplained
  BY DEF Inv
<1>1. /\ at # "returned" /\ changes < MaxChanges /\ <<table[r], s>> \in Moves[r]
      /\ <<r, s>> = <<"object", "none">> => table["attachment"] = "none"
      /\ Possible(t) /\ Becomes(t) /\ changes' = changes + 1
      /\ call' = call /\ lagging' = lagging /\ UNCHANGED progress
  BY DEF Others
<1>2. DOMAIN t = DOMAIN table /\ \A q \in DOMAIN t : t[q] \in States[q]
  BY <1>0, OneRowTyped
<1>3. /\ \A q \in DOMAIN table : q # r => t[q] = table[q]
      /\ t[r] = s
  OBVIOUS
<1> HIDE DEF t
<1>4. /\ TableTyped' /\ table' = t /\ seen \subseteq seen'
      /\ at = "calling" => Facts(t) \subseteq seen'
  BY <1>0, <1>1, <1>2, BecomesTyped
<1>5. CallTyped'
  <2>1. CallTyped
    BY <1>0, Typed
  <2>2. changes' \in 0 .. MaxChanges
    BY <1>1, <2>1, BoundsAssumption DEF CallTyped
  <2> QED BY <1>1, <2>1, <2>2 DEF CallTyped, progress, ladder
<1>6. Confirmable'
  <2> SUFFICES ASSUME call.op = "confirm_uploaded", at = "calling", step = 3
               PROVE  t["object"] = "stored" \/ t["attachment"] = "none"
    BY <1>1, <1>4 DEF Confirmable, progress
  <2>1. "object" \in DOMAIN table /\ "attachment" \in DOMAIN table
    BY <1>0, SeveralRows
  <2>2. table["object"] = "stored" \/ table["attachment"] = "none"
    BY <1>0 DEF Confirmable
  <2>3. CASE r = "object"
    <3>1. s \in {"none", "stored"} /\ t["attachment"] = table["attachment"]
      BY <1>3, <2>1, <2>3, StatesAre
    <3> QED BY <1>1, <1>3, <2>3, <3>1
  <2>4. CASE r = "attachment"
    <3>1. table["attachment"] # "none"
      BY <1>1, <2>4, MovesAre
    <3> QED BY <1>3, <2>1, <2>2, <2>4, <3>1
  <2>5. CASE r \notin {"object", "attachment"}
    BY <1>3, <2>1, <2>2, <2>5
  <2> QED BY <2>3, <2>4, <2>5
<1>7. Satisfied'
  <2> SUFFICES ASSUME call.op = "delete_issue_blocker", at = "calling", step = 2
               PROVE  <<"blocker", "none">> \in seen' \/ t["blocker"] = "done"
    BY <1>1, <1>4 DEF Satisfied, progress
  <2>1. "blocker" \in DOMAIN table
    BY <1>0, SeveralRows
  <2>2. <<"blocker", "none">> \in seen \/ table["blocker"] = "done"
    BY <1>0 DEF Satisfied
  <2>3. CASE r = "blocker" /\ table["blocker"] = "done"
    <3>1. t["blocker"] = "none"
      BY <1>1, <1>3, <2>3, MovesAre
    <3>2. <<"blocker", "none">> \in Facts(t)
      BY <1>2, <2>1, <3>1 DEF Facts
    <3> QED BY <1>4, <3>2
  <2> QED BY <1>3, <1>4, <2>1, <2>2, <2>3
<1>8. Seen' /\ Answered' /\ ErrorsAreTrue' /\ NothingUnexplained'
  BY <1>0, <1>1, <1>4 DEF Seen, Answered, ErrorsAreTrue, NothingUnexplained, progress, ladder
<1>9. OnRungs'
  <2>1. ASSUME call.op = "delete_issue_attachment", table["attachment"] # "PENDING"
        PROVE  t["attachment"] # "PENDING"
    <3>1. "attachment" \in DOMAIN table
      BY <1>0, <2>1, SeveralRows
    <3>2. CASE r = "attachment"
      BY <1>1, <1>3, <3>2, MovesAre
    <3> QED BY <1>3, <2>1, <3>1, <3>2
  <2>2. UNCHANGED <<call, at, step, tries, dropped, lagged>> /\ table' = t
    BY <1>1, <1>4 DEF progress, ladder
  <2> QED BY <1>0, <2>1, <2>2 DEF OnRungs
<1> QED BY <1>4, <1>5, <1>6, <1>7, <1>8, <1>9, TypedNext DEF Inv

LEMMA PropagateInv ==
  ASSUME Inv, NEW r \in DOMAIN table, Propagate(r)
  PROVE  Inv'
<1>0. TypeOK /\ Confirmable /\ Satisfied /\ Seen /\ Answered /\ ErrorsAreTrue
         /\ NothingUnexplained /\ OnRungs
  BY DEF Inv
<1>1. /\ lagging' = [lagging EXCEPT ![r] = table[r]]
      /\ call' = call /\ table' = table /\ seen' = seen /\ changes' = changes
      /\ UNCHANGED progress
  BY DEF Propagate
<1>2. TableTyped' /\ CallTyped'
  <2>1. TableTyped /\ CallTyped
    BY <1>0, Typed
  <2>2. DOMAIN lagging' = RowsOf(call) /\ \A q \in DOMAIN lagging' : lagging'[q] \in States[q]
    BY <1>1, <2>1 DEF TableTyped, CallTyped
  <2> QED BY <1>1, <2>1, <2>2 DEF TableTyped, CallTyped, progress, ladder
<1>3. /\ Confirmable' /\ Satisfied' /\ Seen' /\ Answered' /\ OnRungs'
      /\ ErrorsAreTrue' /\ NothingUnexplained'
  BY <1>0, <1>1 DEF Confirmable, Satisfied, Seen, Answered, OnRungs, ErrorsAreTrue,
                    NothingUnexplained, progress, ladder
<1> QED BY <1>2, <1>3, TypedNext DEF Inv

-----------------------------------------------------------------------------
(***************************************************************************)
(* Steps of the call                                                       *)
(***************************************************************************)
LEMMA BeginInv == Inv /\ Begin => Inv'
<1> SUFFICES ASSUME Inv, Begin PROVE Inv'
  OBVIOUS
<1>0. TypeOK /\ Answered /\ TableTyped /\ CallTyped /\ NothingUnexplained /\ OnRungs
  BY Typed DEF Inv
<1>1. /\ at = "ready" /\ at' = "calling" /\ seen' = Facts(table)
      /\ UNCHANGED <<call, table, lagging, step, attempts, rolls, ladder, result, applied, resent,
                     changes, lost>>
  BY DEF Begin
<1>2. step = 1
  BY <1>0, <1>1 DEF Answered
<1>3. TableTyped'
  <2>1. \A p \in seen' : \E r \in DOMAIN table : \E s \in States[r] : p = <<r, s>>
    BY <1>0, <1>1 DEF TableTyped, Facts
  <2>2. seen' \subseteq UNION {{r} \X States[r] : r \in DOMAIN table}
    BY <2>1, SeenTyped, Zenon
  <2> QED BY <1>0, <1>1, <2>2 DEF TableTyped
<1>4. CallTyped'
  BY <1>0, <1>1 DEF CallTyped, ladder
<1>5. /\ Confirmable' /\ Satisfied' /\ Seen' /\ Answered' /\ OnRungs'
      /\ ErrorsAreTrue' /\ NothingUnexplained'
  BY <1>0, <1>1, <1>2 DEF Confirmable, Satisfied, Seen, Answered, OnRungs, ladder,
                          ErrorsAreTrue, NothingUnexplained
<1> QED BY <1>3, <1>4, <1>5, TypedNext DEF Inv

\* What a request that no item refuses makes of the rows.
LEMMA ApplyTyped ==
  ASSUME Inv, at = "calling", Apply, call' = call,
         Request.kind # "read" => RefusedItems(table) = {}
  PROVE  /\ TableTyped' /\ Seen' /\ applied' \in BOOLEAN
         /\ seen \subseteq seen' /\ Facts(table') \subseteq seen'
         /\ table' \in Effects
         /\ applied' = (applied \/ Request.kind \in {"write", "transaction"})
<1>0. TypeOK /\ Seen /\ Confirmable /\ Sound
  BY TypedIsSound DEF Inv
<1>1. PICK t \in Effects : Becomes(t)
  BY DEF Apply
<1>2. DOMAIN t = DOMAIN table /\ Possible(t) /\ \A r \in DOMAIN t : t[r] \in States[r]
  BY <1>0, EffectsAre, EffectsTyped, EffectsPossible
<1>3. TableTyped' /\ table' = t /\ seen \subseteq seen' /\ Facts(t) \subseteq seen'
  BY <1>0, <1>1, <1>2, BecomesTyped
<1>4. applied' = (applied \/ Request.kind \in {"write", "transaction"})
  BY DEF Apply
<1> QED BY <1>1, <1>3, <1>4 DEF Seen

LEMMA AcceptedInv == Inv /\ Accepted => Inv'
<1> SUFFICES ASSUME Inv, Accepted PROVE Inv'
  OBVIOUS
<1>0. TypeOK /\ Answered /\ CallTyped /\ NothingUnexplained /\ OnRungs /\ Sound
  BY Typed, TypedIsSound DEF Inv
<1>1. /\ at = "calling" /\ Apply
      /\ UNCHANGED <<call, lagging, attempts, rolls, ladder, resent, changes, lost>>
  BY DEF Accepted
<1>2. Request.kind # "read" => RefusedItems(table) = {}
  BY DEF Accepted, Views
<1>3. /\ TableTyped' /\ Seen' /\ applied' \in BOOLEAN /\ table' \in Effects
      /\ applied' = (applied \/ Request.kind \in {"write", "transaction"})
  BY <1>1, <1>2, ApplyTyped
<1>4. CASE LastRequest
  <2>1. at' = "returned" /\ result' = Success /\ step' = step
    BY <1>4 DEF Accepted, Return
  <2>2. CallTyped'
    BY <1>0, <1>1, <1>3, <2>1, PlainErrors DEF CallTyped, ladder
  <2>3. /\ Confirmable' /\ Satisfied' /\ Answered' /\ OnRungs'
        /\ ErrorsAreTrue' /\ NothingUnexplained'
    BY <2>1, PlainErrors DEF Confirmable, Satisfied, Answered, OnRungs, ladder, ErrorsAreTrue,
                             NothingUnexplained
  <2> QED BY <1>3, <2>2, <2>3, TypedNext DEF Inv
<1>5. CASE ~LastRequest
  <2>1. /\ step' = step + 1 /\ at' = at /\ result' = result
        /\ step # Len(Requests(call))
        /\ call.op \notin {"delete_issue_blocker", "delete_issue_attachment"}
    BY <1>5 DEF Accepted, LastRequest
  <2>2. Request.kind \notin {"write", "transaction"} /\ applied' = applied
    BY <1>0, <1>3, <2>1, Kinds DEF Sound, Request, CallTyped
  <2>3. CallTyped'
    <3>1. step' \in 1 .. Len(Requests(call))
      BY <1>0, <2>1, Kinds DEF CallTyped, ladder
    <3> QED BY <1>0, <1>1, <1>3, <2>1, <3>1 DEF CallTyped, ladder
  <2>4. Confirmable'
    <3> SUFFICES ASSUME call.op = "confirm_uploaded", step' = 3
                 PROVE  table'["object"] = "stored"
      BY <1>1 DEF Confirmable
    <3>1. step = 2
      BY <1>0, <2>1 DEF CallTyped, ladder
    <3>2. Request.kind = "head" /\ Items = <<Item("object", {"stored"}, Kept)>>
      BY <1>0, <3>1, ConfirmationsAre DEF Sound, Request, Items
    <3>3. /\ 1 \in DOMAIN Items /\ Items[1].row = "object" /\ Items[1].ok = {"stored"}
          /\ Items[1].to = Kept
      BY <3>2, Fields
    <3>4. table["object"] \in {"stored"}
      BY <1>0, <1>2, <3>2, <3>3 DEF RefusedItems, Refuses, Sound
    <3>5. table'["object"] \in Kept[table["object"]]
      BY <1>0, <1>3, <3>3, EffectsAre
    <3>6. "stored" \in AllStates
      BY StatesAre DEF Rows
    <3> QED BY <3>4, <3>5, <3>6 DEF Kept
  <2>5. Satisfied' /\ Answered' /\ OnRungs' /\ ErrorsAreTrue' /\ NothingUnexplained'
    BY <1>0, <1>1, <2>1, <2>2
       DEF Satisfied, Answered, OnRungs, ladder, ErrorsAreTrue, NothingUnexplained
  <2> QED BY <1>3, <2>3, <2>4, <2>5, TypedNext DEF Inv
<1> QED BY <1>4, <1>5

LEMMA FallBackInv == Inv /\ FallBack => Inv'
<1> SUFFICES ASSUME Inv, FallBack PROVE Inv'
  OBVIOUS
<1>0. /\ TypeOK /\ Answered /\ TableTyped /\ CallTyped /\ NothingUnexplained /\ OnRungs
      /\ Sound /\ Seen
  BY Typed, TypedIsSound DEF Inv
<1>1. /\ at = "calling" /\ call.op = "delete_issue_blocker" /\ step = 1
      /\ Blamed(table) = 1 /\ step' = 2
      /\ UNCHANGED <<call, table, lagging, at, attempts, rolls, ladder, result, seen, applied,
                     resent, changes, lost>>
  BY DEF FallBack
<1>2. table["blocker"] \in {"none", "done"} /\ "blocker" \in DOMAIN table
  <2>1. 1 \in RefusedItems(table)
    BY <1>0, <1>1, BlamedIsRefused DEF Sound
  <2>2. /\ Items[1].row = "blocker" /\ Items[1].ok = {"active"}
        /\ ~Fenced(call)
    BY <1>0, <1>1, DeletionsAre, CallsAre, Fields DEF Sound, Items, Request
  <2>3. table["blocker"] \notin {"active"}
    BY <2>1, <2>2 DEF RefusedItems, Refuses
  <2>4. "blocker" \in DOMAIN table
    BY <1>0, <1>1, SeveralRows
  <2> QED BY <1>0, <2>3, <2>4, StatesAre DEF Sound
<1>3. TableTyped' /\ CallTyped'
  <2>1. step' \in 1 .. Len(Requests(call))
    BY <1>0, <1>1, DeletionsAre DEF Sound
  <2> QED BY <1>0, <1>1, <2>1 DEF TableTyped, CallTyped, ladder
<1>4. Satisfied'
  <2>1. <<"blocker", table["blocker"]>> \in seen
    BY <1>0, <1>1, <1>2 DEF Seen, Facts
  <2> QED BY <1>1, <1>2, <2>1 DEF Satisfied
<1>5. /\ Confirmable' /\ Seen' /\ Answered' /\ OnRungs'
      /\ ErrorsAreTrue' /\ NothingUnexplained'
  BY <1>0, <1>1 DEF Confirmable, Seen, Answered, OnRungs, ladder, ErrorsAreTrue,
                    NothingUnexplained
<1> QED BY <1>3, <1>4, <1>5, TypedNext DEF Inv

\* A draw of another id for what a create puts.
LEMMA DrawTyped ==
  ASSUME Inv, at = "calling", \E t \in Redrawn : Becomes(t), call' = call
  PROVE  TableTyped' /\ Facts(table') \subseteq seen'
<1>0. TypeOK /\ Seen
  BY DEF Inv
<1>1. PICK t \in Redrawn : Becomes(t)
  OBVIOUS
<1>2. DOMAIN t = DOMAIN table /\ Possible(t) /\ \A r \in DOMAIN t : t[r] \in States[r]
  BY <1>0, RedrawnTyped
<1> QED BY <1>0, <1>1, <1>2, BecomesTyped

LEMMA RerollInv == Inv /\ Reroll => Inv'
<1> SUFFICES ASSUME Inv, Reroll PROVE Inv'
  OBVIOUS
<1>0. Answered /\ CallTyped /\ NothingUnexplained /\ OnRungs
  BY Typed DEF Inv
<1>1. /\ at = "calling" /\ call.op = "create_issue" /\ rolls > 1 /\ rolls' = rolls - 1
      /\ \E t \in Redrawn : Becomes(t)
      /\ UNCHANGED <<call, lagging, at, step, attempts, ladder, result, applied, resent, changes,
                     lost>>
  BY DEF Reroll
<1>2. TableTyped' /\ Facts(table') \subseteq seen'
  BY <1>1, DrawTyped
<1>3. CallTyped'
  <2>1. rolls' \in 1 .. RETRY_ISSUE_ID_COLLISIONS
    BY <1>0, <1>1, AttemptsAssumption DEF CallTyped, ladder
  <2> QED BY <1>0, <1>1, <2>1 DEF CallTyped, ladder
<1>4. /\ Confirmable' /\ Satisfied' /\ Seen' /\ Answered' /\ OnRungs'
      /\ ErrorsAreTrue' /\ NothingUnexplained'
  BY <1>0, <1>1, <1>2 DEF Confirmable, Satisfied, Seen, Answered, OnRungs, ladder,
                          ErrorsAreTrue, NothingUnexplained
<1> QED BY <1>2, <1>3, <1>4, TypedNext DEF Inv

\* What the ladder changes of the types.
LEMMA LadderTyped ==
  ASSUME TableTyped, CallTyped, UNCHANGED <<call, table, lagging, rolls, seen, applied, resent,
                                            changes, lost>>,
         at' \in {"calling", "returned"}, step' \in 1 .. Len(Requests(call)),
         attempts' \in 1 .. TRANSACT_RETRY_ATTEMPTS,
         tries' \in 0 .. ATTACHMENT_DELETE_ATTEMPTS, dropped' \subseteq {"issue", "comment"},
         lagged' \in BOOLEAN,
         result'.row \in DOMAIN States, result'.states \subseteq States[result'.row]
  PROVE  TableTyped' /\ CallTyped'
BY DEF TableTyped, CallTyped

LEMMA AttemptsTyped ==
  ASSUME NEW c
  PROVE  AttemptsOf(c) \in 1 .. TRANSACT_RETRY_ATTEMPTS
BY AttemptsAssumption DEF AttemptsOf

LEMMA FindAttachmentInv ==
  ASSUME Inv, NEW view \in {table, lagging}, FindAttachment(view)
  PROVE  Inv'
<1>0. /\ TypeOK /\ Answered /\ TableTyped /\ CallTyped /\ NothingUnexplained /\ OnRungs /\ Seen
      /\ Len(Requests(call)) = 3
  BY Typed, Kinds DEF Inv, TypeOK, FindAttachment
<1>1. /\ at = "calling" /\ call.op = "delete_issue_attachment" /\ step = 1
      /\ attempts' = AttemptsOf(call)
      /\ lagged' = (lagged \/ (OnLadder /\ view["attachment"] # table["attachment"]))
      /\ UNCHANGED <<call, table, lagging, rolls, tries, dropped, seen, applied, resent,
                     changes, lost>>
  BY DEF FindAttachment
<1>2. attempts' \in 1 .. TRANSACT_RETRY_ATTEMPTS /\ lagged' \in BOOLEAN
  BY <1>0, <1>1, AttemptsTyped DEF CallTyped
<1>3. tries \in 0 .. 4 /\ (~OnLadder => tries = 4)
  BY <1>0, <1>1 DEF CallTyped, ATTACHMENT_DELETE_ATTEMPTS, OnLadder
<1>4. ~lagged' => \/ ~OnLadder
                  \/ tries = 3 /\ view["attachment"] # "PENDING"
                  \/ tries = 4
  BY <1>0, <1>1 DEF OnRungs
<1>5. CASE tries = 0
  <2>1. at' = "returned" /\ result' = GaveUp /\ step' = step
    BY <1>5 DEF FindAttachment, Return
  <2>2. lagged'
    BY <1>3, <1>4, <1>5
  <2>3. TableTyped' /\ CallTyped'
    BY <1>0, <1>1, <1>2, <2>1, PlainErrors, LadderTyped DEF CallTyped
  <2>4. /\ Confirmable' /\ Satisfied' /\ Seen' /\ Answered' /\ OnRungs'
        /\ ErrorsAreTrue' /\ NothingUnexplained'
    BY <1>0, <1>1, <2>1, <2>2, PlainErrors
       DEF Confirmable, Satisfied, Seen, Answered, OnRungs, ErrorsAreTrue, NothingUnexplained
  <2> QED BY <2>3, <2>4, TypedNext DEF Inv
<1>6. CASE tries # 0
  <2>1. /\ at' = at /\ result' = result
        /\ step' = (IF view["attachment"] = "PENDING" THEN 2 ELSE 3)
    BY <1>6 DEF FindAttachment
  <2>2. TableTyped' /\ CallTyped'
    BY <1>0, <1>1, <1>2, <2>1, LadderTyped DEF CallTyped
  <2>3. OnRungs'
    BY <1>1, <1>3, <1>4, <1>6, <2>1 DEF OnRungs
  <2>4. /\ Confirmable' /\ Satisfied' /\ Seen' /\ Answered'
        /\ ErrorsAreTrue' /\ NothingUnexplained'
    BY <1>0, <1>1, <2>1
       DEF Confirmable, Satisfied, Seen, Answered, ErrorsAreTrue, NothingUnexplained
  <2> QED BY <2>2, <2>3, <2>4, TypedNext DEF Inv
<1> QED BY <1>5, <1>6

LEMMA PendingRefusedInv == Inv /\ PendingRefused => Inv'
<1> SUFFICES ASSUME Inv, PendingRefused PROVE Inv'
  OBVIOUS
<1>0. /\ TypeOK /\ Answered /\ TableTyped /\ CallTyped /\ NothingUnexplained /\ OnRungs /\ Seen
      /\ Sound /\ Len(Requests(call)) = 3
  BY Typed, TypedIsSound, Kinds DEF Inv, TypeOK, PendingRefused
<1>1. /\ at = "calling" /\ call.op = "delete_issue_attachment" /\ step = 2
      /\ RefusedItems(table) # {} /\ tries' = tries - 1 /\ step' = 1
      /\ UNCHANGED <<call, table, lagging, at, attempts, rolls, dropped, lagged, result, seen,
                     applied, resent, changes, lost>>
  BY DEF PendingRefused
<1>2. table["attachment"] # "PENDING"
  <2>1. /\ Request.kind = "transaction"
        /\ Items = <<Item("attachment", {"PENDING"}, Become("none"))>>
    BY <1>0, <1>1, RemovalsAre DEF Sound, Request, Items
  <2>2. \A i \in DOMAIN Items : Items[i].row = "attachment" /\ Items[i].ok = {"PENDING"}
    BY <2>1, Fields
  <2> QED BY <1>1, <2>1, <2>2 DEF RefusedItems, Refuses
<1>3. tries \in 1 .. 4 /\ (~lagged => tries = 4)
  BY <1>0, <1>1 DEF OnRungs, CallTyped, ATTACHMENT_DELETE_ATTEMPTS
<1>4. TableTyped' /\ CallTyped'
  <2>1. tries' \in 0 .. ATTACHMENT_DELETE_ATTEMPTS /\ step' \in 1 .. Len(Requests(call))
    BY <1>0, <1>1, <1>3 DEF ATTACHMENT_DELETE_ATTEMPTS
  <2> QED BY <1>0, <1>1, <2>1, LadderTyped DEF CallTyped
<1>5. OnRungs'
  BY <1>1, <1>2, <1>3 DEF OnRungs
<1>6. /\ Confirmable' /\ Satisfied' /\ Seen' /\ Answered'
      /\ ErrorsAreTrue' /\ NothingUnexplained'
  BY <1>0, <1>1 DEF Confirmable, Satisfied, Seen, Answered, ErrorsAreTrue, NothingUnexplained
<1> QED BY <1>4, <1>5, <1>6, TypedNext DEF Inv

LEMMA CounterRefusedInv == Inv /\ CounterRefused => Inv'
<1> SUFFICES ASSUME Inv, CounterRefused PROVE Inv'
  OBVIOUS
<1> DEFINE r == Items[Blamed(table)].row
<1>0. /\ TypeOK /\ Answered /\ TableTyped /\ CallTyped /\ NothingUnexplained /\ OnRungs /\ Seen
      /\ Sound /\ Len(Requests(call)) = 3
  BY Typed, TypedIsSound, Kinds DEF Inv, TypeOK, CounterRefused
<1>1. /\ at = "calling" /\ call.op = "delete_issue_attachment" /\ step = 3
      /\ Blamed(table) > 1 /\ dropped' = dropped \cup {r} /\ tries' = tries - 1
      /\ attempts' = AttemptsOf(call)
      /\ UNCHANGED <<call, table, lagging, step, rolls, lagged, seen, applied, resent, changes,
                     lost>>
  BY DEF CounterRefused
<1>2. r \in {"issue", "comment"} /\ r \notin dropped
  <2>1. Blamed(table) \in RefusedItems(table) /\ Blamed(table) # 1
    BY <1>0, <1>1, BlamedIsRefused DEF Sound
  <2>2. Items = RemovalItems(call.linked)
    BY <1>0, <1>1, RemovalsAre DEF Sound, Request, Items
  <2>3. \A i \in DOMAIN Items : i # 1 => Items[i].row \in {"issue", "comment"}
    BY <2>2, Fields DEF RemovalItems, Exists
  <2> QED BY <2>1, <2>3 DEF RefusedItems
<1> HIDE DEF r
<1>3. /\ tries \in 1 .. 4 /\ dropped' \subseteq {"issue", "comment"} /\ dropped' # {}
      /\ ~lagged => tries >= 3 \/ (tries = 2 /\ {"issue", "comment"} \subseteq dropped')
  <2>1. tries \in 1 .. 4 /\ dropped \subseteq {"issue", "comment"}
    BY <1>0, <1>1 DEF OnRungs, CallTyped, ATTACHMENT_DELETE_ATTEMPTS
  <2>2. ~({"issue", "comment"} \subseteq dropped)
    BY <1>2
  <2>3. dropped # {} => {"issue", "comment"} \subseteq dropped'
    BY <1>1, <1>2, <2>1
  <2>4. ~lagged => tries >= 3 \/ (tries = 2 /\ dropped # {})
    BY <1>0, <1>1, <2>2 DEF OnRungs
  <2> QED BY <1>1, <1>2, <2>1, <2>3, <2>4
<1>4. /\ tries' \in 0 .. ATTACHMENT_DELETE_ATTEMPTS
      /\ attempts' \in 1 .. TRANSACT_RETRY_ATTEMPTS
  BY <1>1, <1>3, AttemptsTyped DEF ATTACHMENT_DELETE_ATTEMPTS
<1>5. CASE tries = 1
  <2>1. at' = "returned" /\ result' = GaveUp
    BY <1>5 DEF CounterRefused, Return
  <2>2. TableTyped' /\ CallTyped'
    BY <1>0, <1>1, <1>3, <1>4, <2>1, PlainErrors, LadderTyped DEF CallTyped
  <2>3. lagged'
    BY <1>0, <1>1, <1>3, <1>5 DEF CallTyped
  <2>4. /\ Confirmable' /\ Satisfied' /\ Seen' /\ Answered' /\ OnRungs'
        /\ ErrorsAreTrue' /\ NothingUnexplained'
    BY <1>0, <1>1, <2>1, <2>3, PlainErrors
       DEF Confirmable, Satisfied, Seen, Answered, OnRungs, ErrorsAreTrue, NothingUnexplained
  <2> QED BY <2>2, <2>4, TypedNext DEF Inv
<1>6. CASE tries # 1
  <2>1. at' = at /\ result' = result
    BY <1>6 DEF CounterRefused
  <2>2. TableTyped' /\ CallTyped'
    BY <1>0, <1>1, <1>3, <1>4, <2>1, LadderTyped DEF CallTyped
  <2>3. OnRungs'
    BY <1>1, <1>3, <1>6, <2>1 DEF OnRungs
  <2>4. /\ Confirmable' /\ Satisfied' /\ Seen' /\ Answered'
        /\ ErrorsAreTrue' /\ NothingUnexplained'
    BY <1>0, <1>1, <2>1
       DEF Confirmable, Satisfied, Seen, Answered, ErrorsAreTrue, NothingUnexplained
  <2> QED BY <2>2, <2>3, <2>4, TypedNext DEF Inv
<1> QED BY <1>5, <1>6

LEMMA AlreadyGoneInv == Inv /\ AlreadyGone => Inv'
<1> SUFFICES ASSUME Inv, AlreadyGone PROVE Inv'
  OBVIOUS
<1>0. TableTyped /\ CallTyped
  BY Typed DEF Inv
<1>1. /\ at' = "returned" /\ result' = Success
      /\ UNCHANGED <<call, table, lagging, step, attempts, rolls, ladder, seen, applied,
                     resent, changes, lost>>
  BY DEF AlreadyGone, Return
<1>2. TableTyped' /\ CallTyped'
  BY <1>0, <1>1, PlainErrors, LadderTyped DEF CallTyped, ladder
<1>3. /\ Confirmable' /\ Satisfied' /\ Seen' /\ Answered' /\ OnRungs'
      /\ ErrorsAreTrue' /\ NothingUnexplained'
  BY <1>1, PlainErrors DEF Confirmable, Satisfied, Seen, Answered, OnRungs, ErrorsAreTrue,
                           NothingUnexplained
<1> QED BY <1>2, <1>3, TypedNext DEF Inv

LEMMA RefusedInv ==
  ASSUME Inv, NEW view \in {table, lagging}, Refused(view)
  PROVE  Inv'
<1>0. /\ TypeOK /\ Answered /\ TableTyped /\ CallTyped /\ Sound /\ Seen /\ Satisfied
      /\ DOMAIN lagging = DOMAIN table
      /\ \A r \in DOMAIN table : lagging[r] \in States[r]
  BY Typed, TypedIsSound DEF Inv, TypeOK
<1>1. /\ at = "calling" /\ at' = "returned" /\ result' = Told(view)
      /\ seen' = seen \cup {<<item.row, view[item.row]>> : item \in Range(Items)}
      /\ UNCHANGED <<call, table, lagging, step, attempts, rolls, ladder, applied, resent,
                     changes, lost>>
  BY DEF Refused, Return
<1>2. Grounded(result', seen')
  BY <1>0, <1>1, ToldIsGrounded
<1>3. /\ result'.row \in DOMAIN States /\ result'.states \subseteq States[result'.row]
      /\ result' \notin {Unexplained, GaveUp}
      /\ \E s \in result'.states : <<result'.row, s>> \in seen'
  BY <1>2, GroundedResult
<1>4. TableTyped'
  <2>1. \A item \in Range(Items) :
           item.row \in DOMAIN table /\ view[item.row] \in States[item.row]
    BY <1>0, ItemsAre DEF Sound, Range
  <2>2. ASSUME NEW p \in seen'
        PROVE  \E r \in DOMAIN table : \E s \in States[r] : p = <<r, s>>
    <3>0. \A q \in seen : \E r \in DOMAIN table : \E s \in States[r] : q = <<r, s>>
      BY <1>0, SeenTyped DEF TableTyped
    <3>1. CASE p \in seen
      BY <3>0, <3>1, Zenon
    <3>2. CASE \E item \in Range(Items) : p = <<item.row, view[item.row]>>
      BY <2>1, <3>2
    <3> QED BY <1>1, <3>1, <3>2
  <2>3. seen' \subseteq UNION {{r} \X States[r] : r \in DOMAIN table}
    BY <2>2, SeenTyped, Zenon
  <2> QED BY <1>0, <1>1, <2>3 DEF TableTyped
<1>5. CallTyped'
  BY <1>0, <1>1, <1>3 DEF CallTyped, ladder
<1>6. /\ Confirmable' /\ Satisfied' /\ Seen' /\ Answered' /\ OnRungs'
  BY <1>0, <1>1 DEF Confirmable, Satisfied, Seen, Answered, OnRungs
<1>7. ErrorsAreTrue' /\ NothingUnexplained'
  BY <1>3 DEF ErrorsAreTrue, NothingUnexplained
<1> QED BY <1>4, <1>5, <1>6, <1>7, TypedNext DEF Inv

LEMMA MeetConflictInv == Inv /\ MeetConflict => Inv'
<1> SUFFICES ASSUME Inv, MeetConflict PROVE Inv'
  OBVIOUS
<1>0. Answered /\ TableTyped /\ CallTyped /\ NothingUnexplained /\ OnRungs
  BY Typed DEF Inv
<1>1. at = "calling" /\ UNCHANGED <<call, lagging, ladder, applied, resent, changes, lost>>
  BY DEF MeetConflict, Writing
<1>2. CASE /\ attempts > 1 /\ attempts' = attempts - 1
           /\ step' = (IF call.op = "delete_issue_attachment" THEN step ELSE 1)
           /\ rolls' = RETRY_ISSUE_ID_COLLISIONS
           /\ \E t \in Redrawn : Becomes(t)
           /\ UNCHANGED <<at, result>>
  <2>1. TableTyped' /\ Facts(table') \subseteq seen'
    BY <1>1, <1>2, DrawTyped
  <2>2. CallTyped'
    <3>1. attempts' \in 1 .. TRANSACT_RETRY_ATTEMPTS
      BY <1>0, <1>2, AttemptsAssumption DEF CallTyped, ladder
    <3>2. rolls' \in 1 .. RETRY_ISSUE_ID_COLLISIONS
      BY <1>2, AttemptsAssumption
    <3>3. step' \in 1 .. Len(Requests(call))
      BY <1>0, <1>2, Kinds DEF CallTyped, ladder
    <3> QED BY <1>0, <1>1, <1>2, <3>1, <3>2, <3>3 DEF CallTyped, ladder
  <2>3. /\ Confirmable' /\ Satisfied' /\ Seen' /\ Answered' /\ ErrorsAreTrue'
        /\ NothingUnexplained'
    BY <1>0, <1>1, <1>2, <2>1 DEF Confirmable, Satisfied, Seen, Answered, ErrorsAreTrue,
                                  NothingUnexplained, ladder
  <2>4. OnRungs'
    <3>1. call.op = "delete_issue_attachment" => table' = table
      BY <1>2 DEF Redrawn, Becomes
    <3> QED BY <1>0, <1>1, <1>2, <3>1 DEF OnRungs, ladder
  <2> QED BY <2>1, <2>2, <2>3, <2>4, TypedNext DEF Inv
<1>3. CASE /\ attempts = 1 /\ Return(Conflict)
           /\ UNCHANGED <<table, seen, step, attempts, rolls>>
  <2>1. at' = "returned" /\ result' = Conflict
    BY <1>3 DEF Return
  <2>2. TableTyped' /\ CallTyped'
    BY <1>0, <1>1, <1>3, <2>1, PlainErrors DEF TableTyped, CallTyped, ladder
  <2>3. /\ Confirmable' /\ Satisfied' /\ Seen' /\ Answered' /\ OnRungs' /\ ErrorsAreTrue'
        /\ NothingUnexplained'
    BY <1>0, <1>1, <2>1, PlainErrors DEF Confirmable, Satisfied, Seen, Answered, OnRungs, ladder,
                                         ErrorsAreTrue, NothingUnexplained
  <2> QED BY <2>2, <2>3, TypedNext DEF Inv
<1> QED BY <1>2, <1>3 DEF MeetConflict

LEMMA LoseReplyInv == Inv /\ LoseReply => Inv'
<1> SUFFICES ASSUME Inv, LoseReply PROVE Inv'
  OBVIOUS
<1>0. TypeOK /\ Answered /\ CallTyped /\ NothingUnexplained /\ OnRungs /\ Sound
  BY Typed, TypedIsSound DEF Inv
<1>1. /\ at = "calling" /\ RefusedItems(table) = {} /\ Apply /\ lost' \in 0 .. MaxLost
      /\ UNCHANGED <<call, lagging, step, attempts, rolls, ladder, changes>>
  BY <1>0, BoundsAssumption DEF LoseReply, Writing, CallTyped
<1>2. /\ TableTyped' /\ Seen' /\ applied' \in BOOLEAN /\ table' \in Effects
      /\ Facts(table') \subseteq seen'
  BY <1>1, ApplyTyped
<1>3. CASE Request.kind = "write" /\ resent' = TRUE /\ UNCHANGED <<at, result>>
  <2>1. CallTyped'
    BY <1>0, <1>1, <1>2, <1>3 DEF CallTyped, ladder
  <2>2. Confirmable'
    <3>1. ~(call.op = "confirm_uploaded" /\ step = 3)
      BY <1>0, <1>3, ConfirmationsAre DEF Sound, Request
    <3> QED BY <1>1, <3>1 DEF Confirmable
  <2>3. Satisfied'
    <3> SUFFICES ASSUME call.op = "delete_issue_blocker", step = 2
                 PROVE  <<"blocker", "none">> \in seen'
      BY <1>1 DEF Satisfied
    <3>1. 1 \in DOMAIN Items /\ Items[1].row = "blocker" /\ Items[1].to = Become("none")
      BY <1>0, DeletionsAre, Fields DEF Sound, Items, Request
    <3>2. table'["blocker"] \in Become("none")[table["blocker"]] /\ "blocker" \in DOMAIN table
             /\ DOMAIN table' = DOMAIN table
      BY <1>0, <1>2, <3>1, EffectsAre, ItemsAre
    <3>3. table["blocker"] \in AllStates
      BY <1>0, <3>2, StatesAre DEF Sound, Rows
    <3>4. table'["blocker"] = "none"
      BY <3>2, <3>3 DEF Become
    <3> QED BY <1>2, <3>2, <3>4 DEF Facts
  <2>4. Answered' /\ OnRungs' /\ ErrorsAreTrue' /\ NothingUnexplained'
    <3>1. call.op # "delete_issue_attachment"
      <4>1. call.op = "delete_issue_attachment" => step \in 1 .. 3
        BY <1>0, RemovalsAre DEF Sound
      <4> QED BY <1>0, <1>3, <4>1, RemovalsAre DEF Sound, Request
    <3> QED BY <1>0, <1>1, <1>3, <3>1
       DEF Answered, OnRungs, ladder, ErrorsAreTrue, NothingUnexplained
  <2> QED BY <1>2, <2>1, <2>2, <2>3, <2>4, TypedNext DEF Inv
<1>4. CASE Return(Failed) /\ UNCHANGED resent
  <2>1. at' = "returned" /\ result' = Failed /\ resent' = resent
    BY <1>4 DEF Return
  <2>2. CallTyped'
    BY <1>0, <1>1, <1>2, <2>1, PlainErrors DEF CallTyped, ladder
  <2>3. /\ Confirmable' /\ Satisfied' /\ Answered' /\ OnRungs'
        /\ ErrorsAreTrue' /\ NothingUnexplained'
    BY <2>1, PlainErrors DEF Confirmable, Satisfied, Answered, OnRungs, ladder, ErrorsAreTrue,
                             NothingUnexplained
  <2> QED BY <1>2, <2>2, <2>3, TypedNext DEF Inv
<1> QED BY <1>3, <1>4 DEF LoseReply

LEMMA FailInv == Inv /\ Fail => Inv'
<1> SUFFICES ASSUME Inv, Fail PROVE Inv'
  OBVIOUS
<1>0. TableTyped /\ CallTyped
  BY Typed DEF Inv
<1>1. /\ at' = "returned" /\ result' = Failed
      /\ UNCHANGED <<call, table, lagging, seen, step, attempts, rolls, ladder, applied, resent,
                     changes, lost>>
  BY DEF Fail, Return
<1>2. TableTyped' /\ CallTyped'
  BY <1>0, <1>1, PlainErrors DEF TableTyped, CallTyped, ladder
<1>3. /\ Confirmable' /\ Satisfied' /\ Seen' /\ Answered' /\ OnRungs'
      /\ ErrorsAreTrue' /\ NothingUnexplained'
  BY <1>1, PlainErrors DEF Confirmable, Satisfied, Seen, Answered, OnRungs, ladder, ErrorsAreTrue,
                           NothingUnexplained
<1> QED BY <1>2, <1>3, TypedNext DEF Inv

LEMMA StutterInv == Inv /\ UNCHANGED vars => Inv'
<1> SUFFICES ASSUME Inv, UNCHANGED vars PROVE Inv'
  OBVIOUS
<1>1. UNCHANGED <<call, table, lagging, seen, changes, at, step, attempts, rolls, ladder,
                  result, applied, resent, lost>>
  BY DEF vars, progress, ladder
<1>2. TableTyped' /\ CallTyped'
  BY <1>1, Typed DEF Inv, TableTyped, CallTyped, ladder
<1>3. /\ Confirmable' /\ Satisfied' /\ Seen' /\ Answered' /\ OnRungs'
      /\ ErrorsAreTrue' /\ NothingUnexplained'
  BY <1>1 DEF Inv, Confirmable, Satisfied, Seen, Answered, OnRungs, ladder, ErrorsAreTrue,
              NothingUnexplained
<1> QED BY <1>2, <1>3, TypedNext DEF Inv

-----------------------------------------------------------------------------
(***************************************************************************)
(* The theorems                                                            *)
(***************************************************************************)
\* Every step of a call, of others and of the lagging copy keeps the invariant.
THEOREM Invariant == Spec => []Inv
<1>1. Inv /\ [Next]_vars => Inv'
  <2> SUFFICES ASSUME Inv, [Next]_vars PROVE Inv'
    OBVIOUS
  <2>1. ASSUME NEW r \in DOMAIN table, Propagate(r) PROVE Inv'
    BY <2>1, PropagateInv
  <2>2. ASSUME NEW r \in DOMAIN table, NEW s \in States[r], Others(r, s) PROVE Inv'
    BY <2>2, OthersInv
  <2>3. ASSUME NEW view \in {table, lagging}, Refused(view) PROVE Inv'
    BY <2>3, RefusedInv
  <2>4. ASSUME NEW view \in {table, lagging}, FindAttachment(view) PROVE Inv'
    BY <2>4, FindAttachmentInv
  <2> QED BY <2>1, <2>2, <2>3, <2>4, BeginInv, AcceptedInv, FallBackInv, RerollInv,
             PendingRefusedInv, CounterRefusedInv, AlreadyGoneInv, MeetConflictInv,
             LoseReplyInv, FailInv, StutterInv DEF Next
<1> QED BY InitInv, <1>1, PTL DEF Spec

\* Each variable has its type, and no call leaves an Issue in a Space that does not
\* count it, an active blocker of an Issue that is not held, or an
\* UPLOADED attachment without its object.
THEOREM TypeCorrect == Spec => []TypeOK
<1>1. Inv => TypeOK
  BY DEF Inv
<1> QED BY Invariant, <1>1, PTL

\* Whatever error an operation raises for a refused request, the row it names was in
\* one of the states the error says while the call ran.
THEOREM ErrorsTrue == Spec => []ErrorsAreTrue
<1>1. Inv => ErrorsAreTrue
  BY DEF Inv
<1> QED BY Invariant, <1>1, PTL

\* No refused condition ends in DDBInternalError, but for a delete of an attachment that a
\* lagging copy misled: its four attempts are enough for every confirm and every lost owner.
THEOREM NothingIsUnexplained == Spec => []NothingUnexplained
<1>1. Inv => NothingUnexplained
  BY DEF Inv
<1> QED BY Invariant, <1>1, PTL

\* A call that ends in an error other than an internal one changed nothing, unless a
\* reply to its single-item write was lost.
THEOREM RefusedChangesNothing == Spec => []RefusedChangedNothing
<1>1. Inv => RefusedChangedNothing
  BY DEF Inv, Answered, RefusedChangedNothing
<1> QED BY Invariant, <1>1, PTL
=============================================================================
