---------------------------- MODULE QueriesProofs ----------------------------
(***************************************************************************)
(* What a paged reading returns, for any number of keys, Issues and pages, *)
(* any page size, and any writes between the pages.                        *)
(*                                                                         *)
(* A row that stood when the reading began, and stands, is in the table    *)
(* and in the copy all the time, under one key: every page sees it, until  *)
(* one returns it.  What a sync may skip is at or before the newest        *)
(* comment held; a comment there that did not commit late was committed    *)
(* before that newest one, and so was in every view that showed it.        *)
(***************************************************************************)
EXTENDS Queries, SequenceTheorems, FiniteSetTheorems, TLAPS

Got == ToSet(query.got)

\* Only keys that committed are in the index, in a copy or with a caller.
Committed ==
    /\ entries \cap writing = {} /\ lagging \cap writing = {}
    /\ thread \cap writing = {} /\ Got \cap writing = {}
    /\ Got \subseteq Drawn
    /\ query.at # "none" /\ query.mode = "after" => index = "thread"
    /\ index = "listing" => thread = {}
    /\ index = "thread" => \A k \in Drawn : row[k] = k

\* A row with no excuse stands in every view, under one key, and what was returned
\* of it came under that key.
Stood ==
    /\ query.still \subseteq entries \cap lagging
    /\ \A j \in query.still :
          /\ KeysOf(row[j]) \cap (entries \cup lagging) = {j}
          /\ \A k \in Got : row[j] = row[k] => j = k

\* The pages so far are in order and end at the cursor; nothing with no excuse is
\* left behind it.
Ordered ==
    /\ \A i, j \in 1 .. Len(query.got) :
          i < j => Before(query.mode, query.got[i], query.got[j])
    /\ query.at # "none" /\ query.mode = "after" => Got \cap thread = {}
    /\ query.start = <<>> => Got = {}
    /\ \A i \in DOMAIN query.start :
          /\ query.start[i] \in Got
          /\ \A k \in Got : k = query.start[i] \/ Before(query.mode, k, query.start[i])
    /\ query.at # "none" => \A j \in query.still : InRange(query.mode, j) =>
          \/ j \in Got
          \/ query.at = "reading" /\ Beyond(query.mode, query.start, j)

\* Whoever shows a comment shows the ones before it that did not commit late.
Whole(view, base) ==
    \A p \in view : \A j \in entries \ late : j < p => j \in view \cup base
Synced ==
    index = "thread" =>
       /\ Whole(lagging, {}) /\ Whole(thread, {})
       /\ query.at # "none" /\ query.mode = "after" => Whole(Got, thread)

Inv == TypeOK /\ Committed /\ Stood /\ Ordered /\ Synced

-----------------------------------------------------------------------------
LEMMA DrawnAre ==
  ASSUME TypeOK
  PROVE  /\ Len(row) \in 0 .. MaxKeys /\ Drawn \subseteq Keys
         /\ \A k \in Drawn : k \in Nat /\ row[k] \in Keys \cup Issues
         /\ InfoKey \notin Keys
BY BoundsAssumption, LenProperties, ElementOfSeq DEF TypeOK, Drawn, Keys, InfoKey

\* A set of keys that is not empty has a newest one: the keys behind it are the least
\* of all sets of keys behind one.
LEMMA HasNewest ==
  ASSUME TypeOK, thread # {}
  PROVE  Newest \in thread /\ \A j \in thread : j <= Newest
<1> DEFINE Behind(k) == {j \in thread : j > k}
           T == {Behind(k) : k \in thread}
<1>1. thread \subseteq Int /\ IsFiniteSet(thread)
  <2>1. thread \subseteq 1 .. MaxKeys /\ MaxKeys \in Int
    BY DrawnAre, BoundsAssumption DEF TypeOK, Keys
  <2>2. IsFiniteSet(1 .. MaxKeys)
    BY <2>1, FS_Interval
  <2>3. IsFiniteSet(thread)
    BY <2>1, <2>2, FS_Subset
  <2> QED BY <2>1, <2>3
<1>2. IsWellFoundedOn(StrictSubsetOrdering(thread), SUBSET thread)
  BY <1>1, FS_StrictSubsetOrderingWellFounded, FS_FiniteSubsetsOfFinite
<1>3. T \subseteq SUBSET thread /\ T # {}
  OBVIOUS
<1>4. \E U \in T : \A V \in T : <<V, U>> \notin StrictSubsetOrdering(thread)
  <2> HIDE DEF T
  <2> QED BY <1>2, <1>3, WFMin
<1>5. PICK m \in thread : \A V \in T : <<V, Behind(m)>> \notin StrictSubsetOrdering(thread)
  BY <1>4
<1>6. \A j \in thread : j <= m
  <2> SUFFICES ASSUME NEW j \in thread, j > m PROVE FALSE
    BY <1>1
  <2>0. j \in Int /\ m \in Int /\ ~(j > j) /\ \A i \in thread : i > j => i > m
    BY <1>1
  <2>1. Behind(j) \subseteq Behind(m) /\ j \in Behind(m) /\ j \notin Behind(j)
    BY <2>0
  <2>2. <<Behind(j), Behind(m)>> \in StrictSubsetOrdering(thread)
    BY <2>1 DEF StrictSubsetOrdering
  <2> QED BY <1>5, <2>2
<1> QED BY <1>6 DEF Newest

LEMMA InitInv == Init => Inv
<1> SUFFICES ASSUME Init PROVE Inv
  OBVIOUS
<1>1. Got = {} /\ Drawn = {} /\ Len(query.start) = 0
  BY DEF Init, NoQuery, Got, ToSet, Drawn
<1>2. TypeOK
  BY <1>1, EmptySeq, BoundsAssumption DEF Init, TypeOK, NoQuery, Modes
<1> QED
  BY <1>1, <1>2 DEF Init, Inv, Committed, Stood, Ordered, Synced, Whole, NoQuery

-----------------------------------------------------------------------------
(***************************************************************************)
(* A page                                                                  *)
(***************************************************************************)
\* What a step that reads a page does, with the view it was answered from.
Page(n, keys, page) ==
    /\ n \in 0 .. Limit /\ keys \in Copies
    /\ page \in Seq(Keys) /\ Len(page) = n /\ ToSet(page) \subseteq Remaining(keys)
    /\ InOrder(page, Remaining(keys))
    /\ n = 0 => Remaining(keys) = {}
    /\ query' = [query EXCEPT
          !.got = @ \o page,
          !.start = IF n = 0 THEN @ ELSE <<Last(page)>>,
          !.at = IF More(page, Remaining(keys)) THEN "reading" ELSE "read"]

LEMMA ReadsPage ==
  ASSUME TypeOK, NEW n \in 0 .. Limit, ReadPage(n)
  PROVE  \E keys, page : Page(n, keys, page)
<1>1. PICK keys \in Copies : \E page \in [1 .. n -> Remaining(keys)] :
          /\ InOrder(page, Remaining(keys))
          /\ n = 0 => Remaining(keys) = {}
          /\ query' = [query EXCEPT
                !.got = @ \o page,
                !.start = IF n = 0 THEN @ ELSE <<Last(page)>>,
                !.at = IF More(page, Remaining(keys)) THEN "reading" ELSE "read"]
  BY DEF ReadPage
<1>2. PICK page \in [1 .. n -> Remaining(keys)] :
          /\ InOrder(page, Remaining(keys))
          /\ n = 0 => Remaining(keys) = {}
          /\ query' = [query EXCEPT
                !.got = @ \o page,
                !.start = IF n = 0 THEN @ ELSE <<Last(page)>>,
                !.at = IF More(page, Remaining(keys)) THEN "reading" ELSE "read"]
  BY <1>1
<1>3. Remaining(keys) \subseteq Keys
  BY DEF Remaining, InRange
<1>4. n \in Nat
  BY BoundsAssumption
<1>5. page \in Seq(Remaining(keys)) /\ Len(page) = n
  BY <1>2, <1>4
<1>6. page \in Seq(Keys)
  BY <1>3, <1>5, SeqMonotonic
<1>7. ToSet(page) \subseteq Remaining(keys)
  BY <1>2 DEF ToSet
<1> QED BY <1>1, <1>2, <1>5, <1>6, <1>7 DEF Page

LEMMA ToSetConcat ==
  ASSUME NEW S, NEW s \in Seq(S), NEW t \in Seq(S)
  PROVE  ToSet(s \o t) = ToSet(s) \cup ToSet(t)
<1>1. Range(s \o t) = Range(s) \cup Range(t)
  BY RangeConcatenation
<1> QED BY <1>1 DEF ToSet, Range

\* What the pages hold together, position by position.
LEMMA PageAdds ==
  ASSUME TypeOK, NEW n, NEW keys, NEW page, Page(n, keys, page)
  PROVE  /\ query' = [query EXCEPT !.got = query'.got, !.start = query'.start,
                                   !.at = query'.at]
         /\ query'.got \in Seq(Keys) /\ Len(query'.got) = Len(query.got) + n
         /\ \A i \in 1 .. Len(query'.got) :
               query'.got[i] = IF i <= Len(query.got) THEN query.got[i]
                                                    ELSE page[i - Len(query.got)]
         /\ Got' = Got \cup ToSet(page)
         /\ Len(query.got) \in Nat /\ n \in Nat
         /\ Got = {query.got[i] : i \in 1 .. Len(query.got)}
         /\ DOMAIN page = 1 .. n /\ ToSet(page) = {page[i] : i \in 1 .. n}
         /\ query'.at \in {"reading", "read"}
         /\ query'.at = "read" => Remaining(keys) = ToSet(page)
<1>1. query.got \in Seq(Keys) /\ page \in Seq(Keys) /\ Len(page) = n
  BY DEF TypeOK, Page
<1>2. query'.got = query.got \o page
  BY DEF Page, TypeOK
<1>a. /\ query.got \o page \in Seq(Keys) /\ Len(query.got \o page) = Len(query.got) + Len(page)
      /\ \A i \in 1 .. Len(query.got) + Len(page) :
            (query.got \o page)[i] = IF i <= Len(query.got) THEN query.got[i]
                                                 ELSE page[i - Len(query.got)]
  BY <1>1, ConcatProperties
<1>3. /\ query'.got \in Seq(Keys) /\ Len(query'.got) = Len(query.got) + n
      /\ \A i \in 1 .. Len(query.got) + n :
            query'.got[i] = IF i <= Len(query.got) THEN query.got[i]
                                                 ELSE page[i - Len(query.got)]
  BY <1>1, <1>2, <1>a
<1>4. /\ Len(query.got) \in Nat /\ n \in Nat
      /\ DOMAIN page = 1 .. n /\ DOMAIN query.got = 1 .. Len(query.got)
  BY <1>1, LenProperties
<1>5. Got' = Got \cup ToSet(page)
  BY <1>1, <1>2, ToSetConcat DEF Got
<1>6. /\ query' = [query EXCEPT !.got = query'.got, !.start = query'.start, !.at = query'.at]
      /\ query'.at = IF More(page, Remaining(keys)) THEN "reading" ELSE "read"
  BY DEF Page, TypeOK
<1> QED BY <1>3, <1>4, <1>5, <1>6 DEF Got, ToSet, More

-----------------------------------------------------------------------------
(***************************************************************************)
(* Writes.  None touches the pages; each may only give rows an excuse.     *)
(***************************************************************************)
\* The pages stay as they are, and so does what was returned.
QueryKept ==
    /\ query' = [query EXCEPT !.still = query'.still]
    /\ query'.still \subseteq query.still

LEMMA KeptPages ==
  ASSUME TypeOK, QueryKept
  PROVE  /\ query' \in [at : {"none", "reading", "read"}, mode : Modes, start : Seq(Keys),
                        got : Seq(Keys), still : SUBSET Drawn]
         /\ query'.at = query.at /\ query'.mode = query.mode
         /\ query'.start = query.start /\ query'.got = query.got
         /\ Got' = Got
BY DEF TypeOK, QueryKept, Got

\* The order of the pages and what is behind them do not depend on the table.
LEMMA KeptOrdered ==
  ASSUME Inv, QueryKept, thread' = thread
  PROVE  Ordered'
<1>1. Newest' = Newest
  BY DEF Newest
<1>2. \A m, j : InRange(m, j)' <=> InRange(m, j)
  BY <1>1 DEF InRange
<1>3. Got' = Got /\ query'.at = query.at /\ query'.mode = query.mode
      /\ query'.start = query.start /\ query'.got = query.got
  BY KeptPages DEF Inv
<1> QED BY <1>2, <1>3 DEF Inv, Ordered, QueryKept

LEMMA DrawStep ==
  ASSUME Inv, NEW r \in RowsOf(index), Draw(r)
  PROVE  Inv'
<1>0. TypeOK /\ QueryKept /\ Len(row) \in Nat /\ Len(row) < MaxKeys /\ MaxKeys \in Nat
  BY DrawnAre, BoundsAssumption DEF Inv, Draw, QueryKept, TypeOK
<1>1. r \in Keys \cup Issues /\ (index = "thread" => r = Len(row) + 1)
  BY <1>0 DEF Draw, RowsOf, Keys, Inv, TypeOK
<1>2. /\ row' \in Seq(Keys \cup Issues) /\ Len(row') = Len(row) + 1
      /\ \A k \in Drawn : row'[k] = row[k]
      /\ row'[Len(row) + 1] = r
  BY <1>0, <1>1, AppendProperties DEF Draw, TypeOK, Drawn
<1>3. Drawn' = Drawn \cup {Len(row) + 1} /\ Len(row) + 1 \notin Drawn
  BY <1>0, <1>2 DEF Drawn
<1>4. TypeOK'
  BY <1>0, <1>2, <1>3 DEF TypeOK, Draw
<1>5. Committed'
  <2>1. /\ UNCHANGED <<index, entries, lagging, thread>> /\ Got' = Got /\ query' = query
        /\ writing' = writing \cup {Len(row) + 1}
    BY DEF Draw, Got
  <2>2. /\ entries \subseteq Drawn /\ lagging \subseteq Drawn /\ thread \subseteq Drawn
        /\ Got \subseteq Drawn
    BY <1>0 DEF Inv, TypeOK, Committed
  <2>3. index = "thread" => \A k \in Drawn' : row'[k] = k
    BY <1>1, <1>2, <1>3 DEF Inv, Committed
  <2> QED BY <1>3, <2>1, <2>2, <2>3 DEF Inv, Committed
<1>6. Stood'
  <2>1. query' = query /\ entries' = entries /\ lagging' = lagging /\ Got' = Got
    BY DEF Draw, Got
  <2>2. /\ entries \subseteq Drawn /\ lagging \subseteq Drawn /\ Got \subseteq Drawn
        /\ query.still \subseteq Drawn
    BY <1>0 DEF Inv, TypeOK, Committed
  <2>3. \A j \in query.still :
           KeysOf(row[j])' \cap (entries \cup lagging)
              = KeysOf(row[j]) \cap (entries \cup lagging)
    BY <1>2, <1>3, <2>2 DEF KeysOf
  <2> QED BY <1>2, <2>1, <2>2, <2>3 DEF Inv, Stood
<1>7. Ordered'
  BY <1>0, KeptOrdered DEF Draw
<1>8. Synced'
  BY DEF Draw, Inv, Synced, Whole, Got
<1> QED BY <1>4, <1>5, <1>6, <1>7, <1>8 DEF Inv

LEMMA CommitStep ==
  ASSUME Inv, NEW k \in Drawn, Commit(k)
  PROVE  Inv'
<1>0. TypeOK /\ QueryKept /\ UNCHANGED <<index, row, lagging, thread>> /\ Drawn' = Drawn
  BY DEF Inv, Commit, QueryKept, TypeOK, Drawn
<1>1. /\ k \in writing /\ writing' = writing \ {k}
      /\ entries' = (entries \ Replaced(k)) \cup {k}
      /\ query'.still = query.still \ KeysOf(row[k])
  BY <1>0 DEF Commit, TypeOK
<1>2. Got' = Got /\ query'.at = query.at /\ query'.mode = query.mode
  BY <1>0, KeptPages
<1>3. k \in KeysOf(row[k]) /\ Replaced(k) = KeysOf(row[k]) \ {k}
  BY DEF KeysOf, Replaced
<1>4. TypeOK'
  BY <1>0, <1>1, KeptPages DEF TypeOK, Commit
<1>5. Committed'
  BY <1>0, <1>1, <1>2 DEF Inv, Committed
<1>6. Stood'
  <2> SUFFICES ASSUME NEW j \in query'.still
               PROVE  /\ j \in entries' \cap lagging
                      /\ KeysOf(row[j]) \cap (entries' \cup lagging) = {j}
                      /\ \A i \in Got : row[j] = row[i] => j = i
    BY <1>0, <1>2 DEF Stood, KeysOf
  <2>1. /\ j \in query.still /\ row[j] # row[k] /\ j \in Drawn
    BY <1>0, <1>1 DEF KeysOf, TypeOK
  <2>2. k \notin KeysOf(row[j]) /\ j \notin Replaced(k)
    BY <1>3, <2>1 DEF KeysOf
  <2>3. /\ j \in entries \cap lagging
        /\ KeysOf(row[j]) \cap (entries \cup lagging) = {j}
        /\ \A i \in Got : row[j] = row[i] => j = i
    BY <2>1 DEF Inv, Stood
  <2> QED BY <1>1, <2>2, <2>3
<1>7. Ordered'
  BY <1>0, KeptOrdered
<1>8. Synced'
  <2>1. late' = late \cup {j \in {k} : \E i \in Drawn \ writing : i > k}
    BY DEF Commit
  <2>2. \A p \in Drawn \ writing : k < p => k \in late'
    BY <1>0, <2>1, DrawnAre
  <2>3. /\ lagging \subseteq Drawn \ writing /\ thread \subseteq Drawn \ writing
        /\ Got \subseteq Drawn \ writing
    BY <1>0 DEF Inv, TypeOK, Committed
  <2>4. \A p \in Drawn \ writing : \A j \in entries' \ late' : j < p => j \in entries \ late
    BY <1>1, <2>1, <2>2
  <2> QED BY <1>0, <1>2, <2>3, <2>4 DEF Inv, Synced, Whole
<1> QED BY <1>4, <1>5, <1>6, <1>7, <1>8 DEF Inv

LEMMA EditStep ==
  ASSUME Inv, NEW k \in Drawn, Edit(k)
  PROVE  Inv'
<1>0. TypeOK /\ QueryKept /\ Drawn' = Drawn /\ Got' = Got
      /\ UNCHANGED <<index, row, entries, late, lagging, thread, query>>
  BY DEF Inv, Edit, Kept, QueryKept, TypeOK, Drawn, Got
<1>1. writing' \subseteq writing
  BY DEF Edit
<1>2. TypeOK'
  BY <1>0, <1>1 DEF TypeOK
<1>3. Committed'
  BY <1>0, <1>1 DEF Inv, Committed
<1>4. Stood'
  BY <1>0 DEF Inv, Stood, KeysOf
<1>5. Ordered'
  BY <1>0, KeptOrdered
<1>6. Synced'
  BY <1>0 DEF Inv, Synced, Whole
<1> QED BY <1>2, <1>3, <1>4, <1>5, <1>6 DEF Inv

LEMMA LeaveStep ==
  ASSUME Inv, NEW k \in Drawn, Leave(k)
  PROVE  Inv'
<1>0. TypeOK /\ QueryKept /\ Drawn' = Drawn
      /\ UNCHANGED <<index, row, writing, late, lagging, thread>>
  BY DEF Inv, Leave, QueryKept, TypeOK, Drawn
<1>1. entries' = entries \ {k} /\ query'.still = query.still \ {k}
  BY <1>0 DEF Leave, TypeOK
<1>2. Got' = Got /\ query'.at = query.at /\ query'.mode = query.mode
  BY <1>0, KeptPages
<1>3. TypeOK'
  BY <1>0, <1>1, KeptPages DEF TypeOK
<1>4. Committed'
  BY <1>0, <1>1, <1>2 DEF Inv, Committed
<1>5. Stood'
  BY <1>0, <1>1, <1>2 DEF Inv, Stood, KeysOf
<1>6. Ordered'
  BY <1>0, KeptOrdered
<1>7. Synced'
  BY <1>0, <1>1, <1>2 DEF Inv, Synced, Whole
<1> QED BY <1>3, <1>4, <1>5, <1>6, <1>7 DEF Inv

LEMMA PropagateStep ==
  ASSUME Inv, Propagate
  PROVE  Inv'
<1>0. TypeOK /\ QueryKept /\ Drawn' = Drawn /\ Got' = Got
      /\ UNCHANGED <<index, row, writing, entries, late, thread, query>>
  BY DEF Inv, Propagate, QueryKept, TypeOK, Drawn, Got
<1>1. /\ lagging' \subseteq entries \cup lagging
      /\ entries \cap lagging \subseteq lagging'
      /\ index = "thread" => lagging' = entries
  BY DEF Propagate
<1>2. TypeOK'
  BY <1>0, <1>1 DEF TypeOK
<1>3. Committed'
  BY <1>0, <1>1 DEF Inv, Committed
<1>4. Stood'
  BY <1>0, <1>1 DEF Inv, Stood, KeysOf
<1>5. Ordered'
  BY <1>0, KeptOrdered
<1>6. Synced'
  BY <1>0, <1>1 DEF Inv, Synced, Whole
<1> QED BY <1>2, <1>3, <1>4, <1>5, <1>6 DEF Inv

-----------------------------------------------------------------------------
(***************************************************************************)
(* Readings.                                                               *)
(***************************************************************************)
LEMMA BeginStep ==
  ASSUME Inv, NEW mode \in Modes, Begin(mode)
  PROVE  Inv'
<1>0. TypeOK /\ Drawn' = Drawn
      /\ UNCHANGED <<index, row, writing, entries, late, lagging, thread>>
  BY DEF Inv, Begin, Drawn
<1>1. /\ query' = [at |-> "reading", mode |-> mode, start |-> <<>>, got |-> <<>>,
                   still |-> Standing]
      /\ index # "thread" => mode = "oldest first"
  BY DEF Begin, ModesOf
<1>2. Got' = {} /\ Len(query'.got) = 0 /\ DOMAIN query'.start = {} /\ Len(query'.start) = 0
  <2>1. <<>> \in Seq(Keys) /\ Len(<<>>) = 0
    BY EmptySeq
  <2>2. DOMAIN <<>> = {}
    BY <2>1, LenProperties
  <2> QED BY <1>1, <2>1, <2>2 DEF Got, ToSet
<1>3. Standing \subseteq entries \cap lagging
      /\ \A j \in Standing : KeysOf(row[j]) \cap (entries \cup lagging) = {j}
  BY DEF Standing
<1>4. TypeOK'
  <2>1. <<>> \in Seq(Keys)
    BY EmptySeq
  <2>2. Standing \subseteq Drawn
    BY <1>0, <1>3 DEF TypeOK
  <2>3. query' \in [at : {"none", "reading", "read"}, mode : Modes, start : Seq(Keys),
                   got : Seq(Keys), still : SUBSET Drawn]
    BY <1>1, <2>1, <2>2
  <2> QED BY <1>0, <1>2, <2>3 DEF TypeOK
<1>5. Committed'
  BY <1>0, <1>1, <1>2 DEF Inv, Committed, TypeOK
<1>6. Stood'
  BY <1>0, <1>1, <1>2, <1>3 DEF Stood, KeysOf
<1>7. Ordered'
  <2>1. query'.at = "reading" /\ query'.mode = mode /\ query'.start = <<>>
    BY <1>1
  <2>2. \A j : Beyond(mode, query'.start, j)
    BY <1>2 DEF Beyond
  <2>3. \A i \in 1 .. Len(query'.got) : FALSE
    BY <1>2
  <2> QED BY <1>2, <2>1, <2>2, <2>3 DEF Ordered
<1>8. Synced'
  BY <1>0, <1>1, <1>2 DEF Inv, Synced, Whole
<1> QED BY <1>4, <1>5, <1>6, <1>7, <1>8 DEF Inv

LEMMA ExtendStep ==
  ASSUME Inv, Extend
  PROVE  Inv'
<1>0. TypeOK /\ Drawn' = Drawn
      /\ UNCHANGED <<index, row, writing, entries, late, lagging>>
  BY DEF Inv, Extend, Drawn
<1>1. /\ query.at = "read" /\ query.mode = "after"
      /\ thread' = thread \cup Got /\ query' = [query EXCEPT !.at = "none"]
  BY DEF Extend, Got
<1>2. Got' = Got /\ query'.at = "none" /\ query'.mode = query.mode
      /\ query'.start = query.start /\ query'.got = query.got /\ query'.still = query.still
  BY <1>0, <1>1 DEF TypeOK, Got
<1>3. TypeOK'
  BY <1>0, <1>1 DEF TypeOK, Inv, Committed
<1>4. Committed'
  BY <1>0, <1>1, <1>2 DEF Inv, Committed, TypeOK
<1>5. Stood'
  BY <1>0, <1>2 DEF Inv, Stood, KeysOf
<1>6. Ordered'
  BY <1>2 DEF Inv, Ordered
<1>7. Synced'
  BY <1>0, <1>1, <1>2 DEF Inv, Synced, Whole
<1> QED BY <1>3, <1>4, <1>5, <1>6, <1>7 DEF Inv

\* Where a page comes from.
LEMMA ViewOf ==
  ASSUME Inv, NEW n, NEW keys, NEW page, Page(n, keys, page)
  PROVE  /\ keys = entries \/ keys = lagging
         /\ keys \subseteq Drawn \ writing
         /\ ToSet(page) \subseteq keys
         /\ \A k \in ToSet(page) : /\ InRange(query.mode, k)
                                   /\ Beyond(query.mode, query.start, k)
         /\ \A k \in keys : InRange(query.mode, k) /\ Beyond(query.mode, query.start, k)
                            => k \in Remaining(keys)
<1>1. keys = entries \/ keys = lagging
  BY DEF Page, Copies
<1>2. keys \subseteq Drawn \ writing
  BY <1>1 DEF Inv, Committed, TypeOK
<1>3. \A k \in Remaining(keys) : InRange(query.mode, k) /\ Beyond(query.mode, query.start, k)
                                /\ k \in keys
  BY BoundsAssumption DEF Remaining, Partition, InRange, Keys, InfoKey, AttachmentKey
<1>4. ToSet(page) \subseteq Remaining(keys)
  BY DEF Page
<1> QED BY <1>1, <1>2, <1>3, <1>4 DEF Remaining, Partition

\* A sync reads only what is newer than the comments held.
LEMMA SyncIsNewer ==
  ASSUME TypeOK, NEW k, InRange("after", k)
  PROVE  /\ k \notin thread
         /\ k \in Keys
<1>1. k \in Keys /\ k > Newest
  BY DEF InRange
<1>2. k \notin thread
  <2> SUFFICES ASSUME k \in thread PROVE FALSE
    OBVIOUS
  <2>1. Newest \in thread /\ k <= Newest
    BY HasNewest
  <2>2. k \in Int /\ Newest \in Int
    BY <1>1, <2>1, DrawnAre DEF Keys, TypeOK
  <2> QED BY <1>1, <2>1, <2>2
<1> QED BY <1>1, <1>2

\* The order of a reading is an order of the keys.
LEMMA BeforeOrder ==
  ASSUME NEW mode, NEW i \in Keys, NEW j \in Keys, NEW k \in Keys
  PROVE  /\ Before(mode, i, j) /\ Before(mode, j, k) => Before(mode, i, k)
         /\ i = j \/ Before(mode, i, j) \/ Before(mode, j, i)
         /\ ~(Before(mode, i, j) /\ Before(mode, j, i))
<1>1. i \in Int /\ j \in Int /\ k \in Int
  BY BoundsAssumption DEF Keys
<1>2. \/ \A a, b : Before(mode, a, b) <=> a > b
      \/ \A a, b : Before(mode, a, b) <=> a < b
  BY Zenon DEF Before
<1>3. CASE \A a, b : Before(mode, a, b) <=> a > b
  BY <1>1, <1>3
<1>4. CASE \A a, b : Before(mode, a, b) <=> a < b
  BY <1>1, <1>4
<1> QED BY <1>2, <1>3, <1>4

\* A sync reads from the oldest on.
LEMMA SyncOrder ==
  \A i, j : Before("after", i, j) <=> i < j
BY Zenon DEF Before

\* What is beyond the cursor is beyond all that was returned.
LEMMA BehindCursor ==
  ASSUME Inv, NEW k \in Got, NEW j \in Keys, Beyond(query.mode, query.start, j)
  PROVE  Before(query.mode, k, j)
<1>1. query.start \in Seq(Keys) /\ Len(query.start) <= 1 /\ query.start # <<>>
  BY DEF Inv, TypeOK, Ordered
<1>2. Len(query.start) = 1 /\ DOMAIN query.start = 1 .. 1 /\ query.start[1] \in Keys
  <2>1. Len(query.start) \in Nat /\ DOMAIN query.start = 1 .. Len(query.start)
    BY <1>1, LenProperties
  <2>2. Len(query.start) # 0 /\ Len(query.start) <= 1
    BY <1>1, EmptySeq
  <2>3. Len(query.start) = 1
    BY <2>1, <2>2
  <2> QED BY <1>1, <2>1, <2>3, ElementOfSeq
<1>3. Before(query.mode, query.start[1], j)
  BY <1>2 DEF Beyond
<1>4. k = query.start[1] \/ Before(query.mode, k, query.start[1])
  BY <1>2 DEF Inv, Ordered
<1>5. k \in Keys
  BY DrawnAre DEF Inv, Committed
<1> QED BY <1>2, <1>3, <1>4, <1>5, BeforeOrder

\* The cursor after a page.
LEMMA PageMovesCursor ==
  ASSUME TypeOK, NEW n, NEW keys, NEW page, Page(n, keys, page)
  PROVE  IF n = 0 THEN query'.start = query.start /\ ToSet(page) = {}
         ELSE /\ query'.start # <<>> /\ page[n] \in ToSet(page)
              /\ query'.start \in Seq(Keys) /\ Len(query'.start) = 1
              /\ DOMAIN query'.start = {1} /\ query'.start[1] = page[n]
<1>1. /\ n \in Nat /\ page \in Seq(Keys) /\ Len(page) = n /\ DOMAIN page = 1 .. n
      /\ ToSet(page) = {page[i] : i \in 1 .. n}
  BY PageAdds DEF Page
<1>2. query'.start = IF n = 0 THEN query.start ELSE <<page[n]>>
  BY <1>1 DEF Page, TypeOK, Last
<1>3. CASE n = 0
  BY <1>1, <1>2, <1>3
<1>4. CASE n # 0
  <2>1. n \in 1 .. n /\ page[n] \in Keys /\ page[n] \in ToSet(page)
    BY <1>1, <1>4, ElementOfSeq
  <2>2. <<page[n]>> \in Seq(Keys) /\ Len(<<page[n]>>) = 1 /\ DOMAIN <<page[n]>> = {1}
    BY <2>1
  <2> QED BY <1>2, <1>4, <2>1, <2>2
<1> QED BY <1>3, <1>4

LEMMA ReadPageStep ==
  ASSUME Inv, NEW n \in 0 .. Limit, ReadPage(n)
  PROVE  Inv'
<1>0. TypeOK /\ Drawn' = Drawn /\ query.at = "reading"
      /\ UNCHANGED <<index, row, writing, entries, late, lagging, thread>>
  BY DEF Inv, ReadPage, Drawn
<1>1. PICK keys, page : Page(n, keys, page)
  BY <1>0, ReadsPage
<1> DEFINE P == ToSet(page)
           mode == query.mode
           L == Len(query.got)
<1>a. /\ query' = [query EXCEPT !.got = query'.got, !.start = query'.start, !.at = query'.at]
      /\ query'.got \in Seq(Keys) /\ Len(query'.got) = L + n
      /\ \A i \in 1 .. Len(query'.got) :
            query'.got[i] = IF i <= L THEN query.got[i] ELSE page[i - L]
      /\ Got' = Got \cup P
      /\ L \in Nat /\ n \in Nat
      /\ Got = {query.got[i] : i \in 1 .. L}
      /\ DOMAIN page = 1 .. n /\ P = {page[i] : i \in 1 .. n}
      /\ query'.at \in {"reading", "read"}
      /\ query'.at = "read" => Remaining(keys) = P
  BY <1>0, <1>1, PageAdds
<1>b. query'.mode = mode /\ query'.still = query.still /\ mode \in Modes
  BY <1>0, <1>a DEF TypeOK
<1>c. IF n = 0 THEN query'.start = query.start /\ P = {}
      ELSE /\ query'.start # <<>> /\ page[n] \in P
           /\ query'.start \in Seq(Keys) /\ Len(query'.start) = 1
           /\ DOMAIN query'.start = {1} /\ query'.start[1] = page[n]
  BY <1>0, <1>1, PageMovesCursor
<1>d. /\ keys = entries \/ keys = lagging
      /\ keys \subseteq Drawn \ writing
      /\ P \subseteq keys
      /\ \A k \in P : InRange(mode, k) /\ Beyond(mode, query.start, k)
      /\ \A k \in keys : InRange(mode, k) /\ Beyond(mode, query.start, k)
                          => k \in Remaining(keys)
  BY <1>1, ViewOf
<1>e. P \subseteq Keys /\ Got \subseteq Keys /\ entries \subseteq Keys
      /\ query.still \subseteq keys \cap Keys
  BY <1>0, <1>d, DrawnAre DEF Inv, TypeOK, Committed, Stood
<1>f. InOrder(page, Remaining(keys))
  BY <1>1 DEF Page
<1>g. /\ \A i, j \in 1 .. n : i < j => Before(mode, page[i], page[j])
      /\ \A k \in P : \A j \in Remaining(keys) \ P : Before(mode, k, j)
  BY <1>a, <1>f DEF InOrder
<1>h. n = 0 => Remaining(keys) = {}
  BY <1>1 DEF Page
<1> HIDE DEF P, mode, L
<1>2. TypeOK'
  <2>1. query'.start \in Seq(Keys) /\ Len(query'.start) <= 1
    <3>1. CASE n = 0
      BY <1>0, <1>c, <3>1 DEF TypeOK
    <3>2. CASE n # 0
      <4>1. query'.start \in Seq(Keys) /\ Len(query'.start) = 1
        BY <1>c, <3>2, Zenon
      <4> QED BY <4>1
    <3> QED BY <3>1, <3>2
  <2>2. query' \in [at : {"none", "reading", "read"}, mode : Modes, start : Seq(Keys),
                    got : Seq(Keys), still : SUBSET Drawn]
    BY <1>0, <1>a, <2>1 DEF TypeOK
  <2> QED BY <1>0, <2>1, <2>2 DEF TypeOK
<1>3. Committed'
  BY <1>0, <1>a, <1>b, <1>d DEF Inv, Committed, mode
<1>4. Stood'
  <2>1. \A j \in query.still : \A k \in P : row[j] = row[k] => j = k
    <3> SUFFICES ASSUME NEW j \in query.still, NEW k \in P, row[j] = row[k] PROVE j = k
      OBVIOUS
    <3>1. k \in Drawn /\ k \in entries \cup lagging
      BY <1>d
    <3>2. k \in KeysOf(row[j])
      BY <3>1 DEF KeysOf
    <3> QED BY <3>1, <3>2 DEF Inv, Stood
  <2> QED BY <1>0, <1>a, <1>b, <2>1 DEF Inv, Stood, KeysOf
<1>5. Ordered'
  <2>1. \A i, j \in 1 .. L + n : i < j => Before(mode, query'.got[i], query'.got[j])
    <3> SUFFICES ASSUME NEW i \in 1 .. L + n, NEW j \in 1 .. L + n, i < j
                 PROVE  Before(mode, query'.got[i], query'.got[j])
      OBVIOUS
    <3>1. CASE j <= L
      <4>1. i \in 1 .. L /\ j \in 1 .. L
        BY <1>a, <3>1
      <4>2. query'.got[i] = query.got[i] /\ query'.got[j] = query.got[j]
        BY <1>a, <4>1
      <4> QED BY <4>1, <4>2 DEF Inv, Ordered, mode, L
    <3>2. CASE i <= L /\ j > L
      <4>1. i \in 1 .. L /\ j - L \in 1 .. n
        BY <1>a, <3>2
      <4>2. query'.got[i] = query.got[i] /\ query'.got[j] = page[j - L]
        BY <1>a, <3>2
      <4>3. query.got[i] \in Got /\ page[j - L] \in P
        BY <1>a, <4>1
      <4> QED BY <1>d, <1>e, <4>2, <4>3, BehindCursor DEF mode
    <3>3. CASE i > L
      <4>1. i - L \in 1 .. n /\ j - L \in 1 .. n /\ i - L < j - L
        BY <1>a, <3>3
      <4>2. query'.got[i] = page[i - L] /\ query'.got[j] = page[j - L]
        BY <1>a, <3>3
      <4> QED BY <1>g, <4>1, <4>2
    <3> QED BY <1>a, <3>1, <3>2, <3>3
  <2>2. mode = "after" => (Got \cup P) \cap thread = {}
    <3>1. mode = "after" => Got \cap thread = {}
      BY <1>0 DEF Inv, Ordered, mode
    <3>2. mode = "after" => P \cap thread = {}
      BY <1>0, <1>d, SyncIsNewer
    <3> QED BY <3>1, <3>2
  <2>3. query'.start = <<>> => Got \cup P = {}
    <3>1. CASE n = 0
      BY <1>c, <3>1 DEF Inv, Ordered
    <3>2. CASE n # 0
      BY <1>c, <3>2, EmptySeq
    <3> QED BY <3>1, <3>2
  <2>4. \A i \in DOMAIN query'.start :
           /\ query'.start[i] \in Got \cup P
           /\ \A k \in Got \cup P :
                 k = query'.start[i] \/ Before(mode, k, query'.start[i])
    <3>1. CASE n = 0
      BY <1>c, <3>1 DEF Inv, Ordered, mode
    <3>2. CASE n # 0
      <4>1. \A k \in P : k = page[n] \/ Before(mode, k, page[n])
        BY <1>a, <1>g, <3>2
      <4>2. \A k \in Got : Before(mode, k, page[n])
        BY <1>c, <1>d, <1>e, <3>2, BehindCursor DEF mode
      <4> QED BY <1>c, <3>2, <4>1, <4>2
    <3> QED BY <3>1, <3>2
  <2>5. \A j \in query.still : InRange(mode, j) =>
           \/ j \in Got \cup P
           \/ query'.at = "reading" /\ Beyond(mode, query'.start, j)
    <3> SUFFICES ASSUME NEW j \in query.still, InRange(mode, j), j \notin Got, j \notin P
                 PROVE  query'.at = "reading" /\ Beyond(mode, query'.start, j)
      OBVIOUS
    <3>1. Beyond(mode, query.start, j)
      BY <1>0 DEF Inv, Ordered, mode
    <3>2. j \in Remaining(keys) \ P
      BY <1>d, <1>e, <3>1
    <3>3. query'.at = "reading" /\ n # 0
      BY <1>a, <1>h, <3>2
    <3>4. Before(mode, page[n], j)
      BY <1>c, <1>g, <3>2, <3>3
    <3> QED BY <1>c, <3>3, <3>4 DEF Beyond
  <2>6. \A j : InRange(query.mode, j)' <=> InRange(mode, j)
    BY <1>0, <1>b DEF InRange, Newest
  <2>7. \A i, j \in 1 .. Len(query'.got) :
           i < j => Before(query'.mode, query'.got[i], query'.got[j])
    BY <1>a, <1>b, <2>1
  <2>8. query'.mode = "after" => Got' \cap thread' = {}
    BY <1>0, <1>a, <1>b, <2>2
  <2>9. query'.start = <<>> => Got' = {}
    BY <1>a, <2>3
  <2>10. \A i \in DOMAIN query'.start :
            /\ query'.start[i] \in Got'
            /\ \A k \in Got' :
                  k = query'.start[i] \/ Before(query'.mode, k, query'.start[i])
    BY <1>a, <1>b, <2>4
  <2>11. \A j \in query'.still : InRange(query.mode, j)' =>
            \/ j \in Got'
            \/ query'.at = "reading" /\ Beyond(query'.mode, query'.start, j)
    BY <1>a, <1>b, <2>5, <2>6
  <2> QED BY <2>7, <2>8, <2>9, <2>10, <2>11 DEF Ordered, Beyond
<1>6. Synced'
  <2>1. ASSUME index = "thread", mode = "after",
               NEW p \in Got \cup P, NEW j \in entries \ late, j < p
        PROVE  j \in Got \cup P \cup thread
    <3>0. Whole(lagging, {}) /\ Whole(thread, {}) /\ Whole(Got, thread)
      BY <1>0, <2>1 DEF Inv, Synced, mode
    <3>1. CASE p \in Got
      BY <2>1, <3>0, <3>1 DEF Whole
    <3>2. CASE p \in P /\ j \notin thread
      <4>0. j \in Keys /\ j \in Nat /\ j > InfoKey
        BY <1>e, BoundsAssumption DEF Keys, InfoKey
      <4>1. j > Newest
        <5> SUFFICES ASSUME ~(j > Newest) PROVE FALSE
          OBVIOUS
        <5>1. thread # {}
          BY <4>0 DEF Newest
        <5>2. Newest \in thread /\ Newest \in Int
          BY <1>0, <5>1, HasNewest, DrawnAre DEF TypeOK
        <5>3. j < Newest
          BY <3>2, <4>0, <5>2
        <5> QED BY <3>0, <3>2, <5>2, <5>3 DEF Whole
      <4>2. InRange(mode, j)
        BY <2>1, <4>0, <4>1 DEF InRange
      <4>3. j \in keys
        BY <1>d, <2>1, <3>0, <3>2 DEF Whole
      <4>4. CASE Beyond(mode, query.start, j)
        <5>1. j \in Remaining(keys)
          BY <1>d, <4>2, <4>3, <4>4
        <5>2. j \notin P => Before(mode, p, j)
          BY <1>g, <3>2, <5>1
        <5>3. p \in Int /\ ~(p < j)
          BY <1>e, <2>1, <3>2, <4>0, BoundsAssumption DEF Keys
        <5> QED BY <2>1, <5>2, <5>3, SyncOrder
      <4>5. CASE ~Beyond(mode, query.start, j)
        <5>1. PICK i \in 1 .. Len(query.start) : ~Before(mode, query.start[i], j)
          BY <4>5 DEF Beyond
        <5>2. query.start[i] \in Got
          BY <1>0, LenProperties DEF Inv, Ordered, TypeOK
        <5>3. ~(query.start[i] < j)
          BY <2>1, <5>1, SyncOrder
        <5>4. query.start[i] \in Int
          <6>1. query.start[i] \in Keys /\ Keys \subseteq Int
            <7>1. Keys \subseteq Int
              BY BoundsAssumption DEF Keys
            <7> QED BY <1>e, <5>2, <7>1
          <6> QED BY <6>1
        <5>5. j = query.start[i] \/ j < query.start[i]
          BY <4>0, <5>3, <5>4
        <5> QED BY <2>1, <3>0, <5>2, <5>5 DEF Whole
      <4> QED BY <4>4, <4>5
    <3> QED BY <3>1, <3>2, <2>1
  <2>2. index = "thread" /\ mode = "after" => Whole(Got \cup P, thread)
    BY <2>1 DEF Whole
  <2> QED BY <1>0, <1>a, <1>b, <2>2 DEF Inv, Synced, Whole
<1> QED BY <1>2, <1>3, <1>4, <1>5, <1>6 DEF Inv

-----------------------------------------------------------------------------
(***************************************************************************)
(* The theorems                                                            *)
(***************************************************************************)
LEMMA Inductive == Inv /\ [Next]_vars => Inv'
<1> SUFFICES ASSUME Inv, [Next]_vars PROVE Inv'
  OBVIOUS
<1>1. ASSUME NEW r \in RowsOf(index), Draw(r) PROVE Inv'
  BY <1>1, DrawStep
<1>2. ASSUME NEW k \in Drawn, Commit(k) PROVE Inv'
  BY <1>2, CommitStep
<1>3. ASSUME NEW k \in Drawn, Edit(k) PROVE Inv'
  BY <1>3, EditStep
<1>4. ASSUME NEW k \in Drawn, Leave(k) PROVE Inv'
  BY <1>4, LeaveStep
<1>5. ASSUME Propagate PROVE Inv'
  BY <1>5, PropagateStep
<1>6. ASSUME NEW mode \in Modes, Begin(mode) PROVE Inv'
  BY <1>6, BeginStep
<1>7. ASSUME NEW n \in 0 .. Limit, ReadPage(n) PROVE Inv'
  BY <1>7, ReadPageStep
<1>8. ASSUME Extend PROVE Inv'
  BY <1>8, ExtendStep
<1>9. ASSUME UNCHANGED vars PROVE Inv'
  <2>1. /\ UNCHANGED <<index, row, writing, entries, late, lagging, thread, query>>
        /\ Drawn' = Drawn /\ Got' = Got /\ QueryKept
    BY <1>9 DEF vars, Drawn, Got, QueryKept, Inv, TypeOK
  <2>2. TypeOK' /\ Committed'
    BY <2>1 DEF Inv, TypeOK, Committed
  <2>3. Stood' /\ Synced'
    BY <2>1 DEF Inv, Stood, Synced, Whole, KeysOf
  <2>4. Ordered'
    BY <2>1, KeptOrdered
  <2> QED BY <2>2, <2>3, <2>4 DEF Inv
<1> QED BY <1>1, <1>2, <1>3, <1>4, <1>5, <1>6, <1>7, <1>8, <1>9 DEF Next

\* The invariant the properties follow from.
THEOREM Invariant == Spec => []Inv
<1>1. Init => Inv
  BY InitInv
<1>2. Inv /\ [Next]_vars => Inv'
  BY Inductive
<1> QED BY <1>1, <1>2, PTL DEF Spec

\* Every variable has its type, and a page holds keys that were drawn.
THEOREM TypeCorrect == Spec => []TypeOK
<1>1. Inv => TypeOK
  BY DEF Inv
<1> QED BY <1>1, Invariant, PTL

\* The pages of a reading are in the order asked for and repeat no key, and a sync
\* returns no comment the caller holds, whatever is written between the pages.
THEOREM PagesAreInOrder == Spec => []OnceInOrder
<1>1. Inv => OnceInOrder
  BY DEF Inv, Ordered, OnceInOrder, Got
<1> QED BY <1>1, Invariant, PTL

\* A reading that came to its end returned every row that stood all along, once.
THEOREM ReadingsAreComplete == Spec => []PassComplete
<1>1. Inv => PassComplete
  <2> SUFFICES ASSUME Inv PROVE PassComplete
    OBVIOUS
  <2>1. query.still \subseteq Keys
    BY DrawnAre DEF Inv, Stood, TypeOK
  <2>2. query.mode # "after" => \A j \in query.still : InRange(query.mode, j)
    BY <2>1 DEF InRange
  <2>3. query.at = "read" /\ query.mode # "after" => query.still \subseteq Got
    BY <2>2 DEF Inv, Ordered
  <2> QED BY <2>3 DEF Inv, Stood, PassComplete, Got
<1> QED BY <1>1, Invariant, PTL

\* A sync that came to its end leaves the caller with every comment that stood all
\* along and did not commit behind one whose id was drawn later.
THEOREM SyncsAreComplete == Spec => []SyncComplete
<1>1. Inv => SyncComplete
  <2> SUFFICES ASSUME Inv, query.at = "read", query.mode = "after",
                      NEW j \in query.still \ late
               PROVE  j \in thread \cup Got
    BY DEF SyncComplete, Got
  <2>1. index = "thread" /\ Whole(thread, {}) /\ j \in entries /\ j \in Keys
    BY DrawnAre DEF Inv, Committed, Synced, Stood, TypeOK
  <2>2. CASE j > Newest
    <3>1. InRange(query.mode, j)
      BY <2>1, <2>2 DEF InRange
    <3> QED BY <3>1 DEF Inv, Ordered
  <2>3. CASE ~(j > Newest)
    <3>1. j \in Int /\ j > InfoKey
      BY <2>1, BoundsAssumption DEF Keys, InfoKey
    <3>2. thread # {}
      BY <2>3, <3>1 DEF Newest
    <3>3. Newest \in thread /\ Newest \in Int
      BY <3>2, HasNewest, DrawnAre DEF Inv, TypeOK
    <3>4. j = Newest \/ j < Newest
      BY <2>3, <3>1, <3>3
    <3> QED BY <2>1, <3>3, <3>4 DEF Whole
  <2> QED BY <2>2, <2>3
<1> QED BY <1>1, Invariant, PTL
=============================================================================
