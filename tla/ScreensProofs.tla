---------------------------- MODULE ScreensProofs ----------------------------
(***************************************************************************)
(* Theorems about what the gateway shows, for every set of devices,        *)
(* points, topics, threads and page sizes, and every number of records,    *)
(* readings, entries, messages and gestures.  The six views share no       *)
(* state: each invariant is proved of the steps of its own view and then   *)
(* carried over to Screens by the lemma ScreensStepped.                    *)
(***************************************************************************)
EXTENDS Screens, FiniteSetTheorems, SequenceTheorems, TLAPS

-----------------------------------------------------------------------------
(* From the views to Screens.                                              *)

LEMMA ScreensStarted ==
  ScreensInit => RecordsInit /\ PagesInit /\ MonitorInit /\ LogInit /\ DebugInit
BY DEF ScreensInit

LEMMA ScreensStepped ==
  [ScreensNext]_<<view, screens>> =>
    /\ [RecordsStep]_recordsVars /\ [PagesStep]_pagesVars /\ [MonitorStep]_monitorVars
    /\ [LogStep]_logVars /\ [DebugStep]_debugVars
BY DEF ScreensNext, screens

-----------------------------------------------------------------------------
(* The history.  Of two pages the numbers of rows are products: what the   *)
(* proofs need of them.                                                    *)

LEMMA PageBounds ==
  ASSUME NEW p \in Nat, NEW n \in Nat \ {0}
  PROVE  /\ p * n \in Nat /\ (p + 1) * n \in Nat /\ (p + 1) * n = p * n + n
         /\ (p + 2) * n \in Nat /\ (p + 2) * n = (p + 1) * n + n
         /\ 0 * n = 0 /\ 1 * n = n
OBVIOUS

Record == [id : Nat, device : Devices, at : Nat]

\* The types of the history and its page, with the cutoff that never reaches into the
\* retention.
RecordsOK ==
  /\ clock \in Nat /\ inserted \subseteq Record /\ IsFiniteSet(inserted)
  /\ records \subseteq inserted
  /\ cutoff \in Int /\ (cutoff # -1 => cutoff + Retention <= clock)
  /\ filter \in [device : Devices \cup {All}, from : Nat, until : Nat, ties : {"newest", "oldest"}]
  /\ pageNo \in Nat /\ size \in Nat \ {0} /\ total \in Nat
  /\ query \in {"done", "count"} /\ edited \in BOOLEAN /\ shrunk \in BOOLEAN
  /\ cleared \in Nat

LEMMA RecordsAre ==
  Retention \in Nat /\ PageSizes \subseteq Nat \ {0} /\ StartTimes \cup EndTimes \subseteq Nat /\ MaxTime \in Nat
BY RecordsAssumption

LEMMA MatchingFinite ==
  ASSUME NEW S, IsFiniteSet(S)
  PROVE  /\ Matching(S) \subseteq S /\ IsFiniteSet(Matching(S)) /\ Cardinality(Matching(S)) \in Nat
         /\ \A r : IsFiniteSet(Before(S, r)) /\ Cardinality(Before(S, r)) \in Nat
<1>1. Matching(S) \subseteq S  BY DEF Matching
<1>2. \A r : Before(S, r) \subseteq S  BY <1>1 DEF Before
<1> QED  BY <1>1, <1>2, FS_Subset, FS_CardinalityType

\* More records, more of them before a row.
LEMMA MoreBefore ==
  ASSUME NEW S, NEW T, S \subseteq T, IsFiniteSet(T), NEW r
  PROVE  /\ Cardinality(Before(S, r)) <= Cardinality(Before(T, r))
         /\ Cardinality(Matching(S)) <= Cardinality(Matching(T))
<1>1. IsFiniteSet(Matching(T)) /\ IsFiniteSet(Before(T, r))  BY MatchingFinite
<1>2. Before(S, r) \subseteq Before(T, r) /\ Matching(S) \subseteq Matching(T)  BY DEF Before, Matching
<1> QED  BY <1>1, <1>2, FS_Subset

\* A row that matches is not before itself: there are more matching rows than before it.
LEMMA RowIsNotBefore ==
  ASSUME NEW S, IsFiniteSet(S), NEW r \in Matching(S), r.at \in Int, r.id \in Int
  PROVE  Cardinality(Before(S, r)) < Cardinality(Matching(S))
<1>1. IsFiniteSet(Matching(S))  BY MatchingFinite
<1>2. Before(S, r) \subseteq Matching(S) /\ r \notin Before(S, r)  BY DEF Before, Later, Ties
<1>3. Cardinality(Before(S, r)) \in Nat /\ Cardinality(Matching(S)) \in Nat  BY MatchingFinite
<1>4. /\ Cardinality(Before(S, r)) <= Cardinality(Matching(S))
      /\ Cardinality(Before(S, r)) = Cardinality(Matching(S)) => Before(S, r) = Matching(S)
  BY <1>1, <1>2, FS_Subset
<1>5. Before(S, r) # Matching(S)  BY <1>2
<1> QED  BY <1>3, <1>4, <1>5

\* What is deleted is old: nothing that remains loses a row before it.
LEMMA OldAreNotBefore ==
  ASSUME NEW S, NEW limit \in Int, \A s \in S : s.at \in Int, NEW r \in S, r.at >= limit
  PROVE  Before({s \in S : s.at >= limit}, r) = Before(S, r)
BY DEF Before, Matching, Later

\* A page that is shown has the types of one.
LEMMA ShownTyped ==
  ASSUME RecordsOK, NEW rs, NEW p \in Nat, NEW n \in Nat \ {0}, Shows(rs, p, n)
  PROVE  /\ pageNo' \in Nat /\ size' \in Nat \ {0} /\ total' \in Nat
         /\ query' \in {"done", "count"} /\ edited' \in BOOLEAN /\ shrunk' \in BOOLEAN
         /\ filter' = filter
<1>1. CASE p = 0  BY <1>1 DEF Shows, RecordsOK
<1>2. CASE p # 0  BY <1>2 DEF Shows, RecordsOK
<1> QED  BY <1>1, <1>2

LEMMA RecordsTyped == RecordsOK /\ [RecordsStep]_recordsVars => RecordsOK'
<1> SUFFICES ASSUME RecordsOK, [RecordsStep]_recordsVars PROVE RecordsOK'  OBVIOUS
<1> USE RecordsAre DEF RecordsOK
<1>1. CASE Insert
  <2>1. PICK d \in Devices, age \in 0 .. 1 :
          age <= clock /\ inserted' = inserted \cup {NewRecord(d, clock - age)}
                       /\ records' = records \cup {NewRecord(d, clock - age)}
    BY <1>1 DEF Insert
  <2>2. Cardinality(inserted) \in Nat /\ IsFiniteSet(inserted')
    BY <2>1, FS_CardinalityType, FS_AddElement
  <2>3. NewRecord(d, clock - age) \in Record  BY <2>1, <2>2 DEF NewRecord, Record
  <2> QED  BY <1>1, <2>1, <2>2, <2>3 DEF Insert, pageVars
<1>2. CASE Tick  BY <1>2 DEF Tick, pageVars
<1>3. CASE KeeperLooks  BY <1>3 DEF KeeperLooks, pageVars
<1>4. CASE KeeperDeletes  BY <1>4 DEF KeeperDeletes, Deleted
<1>5. CASE Counts  BY <1>5, MatchingFinite, FS_Subset DEF Counts
<1>6. CASE EditFilter  BY <1>6 DEF EditFilter, Clicks
<1>7. CASE PressQuery \/ PrevPage \/ NextPage
  <2>1. PICK p \in Nat : Shows(records, p, size)
    <3>1. pageNo > 0 => pageNo - 1 \in Nat  OBVIOUS
    <3>2. pageNo + 1 \in Nat  OBVIOUS
    <3> QED  BY <1>7, <3>1, <3>2 DEF PressQuery, PrevPage, NextPage
  <2>2. UNCHANGED <<clock, inserted, cutoff, records, cleared>>
    BY <1>7 DEF PressQuery, PrevPage, NextPage, Clicks
  <2> QED  BY <2>1, <2>2, ShownTyped
<1>8. CASE ChangeSize
  <2>1. PICK n \in PageSizes : Shows(records, 0, n)  BY <1>8 DEF ChangeSize
  <2>2. UNCHANGED <<clock, inserted, cutoff, records, cleared>>  BY <1>8 DEF ChangeSize, Clicks
  <2> QED  BY <2>1, <2>2, ShownTyped
<1>9. CASE ClearData
  <2>1. UNCHANGED <<clock, inserted, cutoff>> /\ records' \subseteq records /\ cleared' \in Nat
    BY <1>9 DEF ClearData, Clicks, Deleted
  <2>2. Shows(records', 0, size)  BY <1>9 DEF ClearData
  <2> QED  BY <2>1, <2>2, ShownTyped
<1>10. CASE UNCHANGED recordsVars  BY <1>10 DEF recordsVars, pageVars
<1> QED
  BY <1>1, <1>2, <1>3, <1>4, <1>5, <1>6, <1>7, <1>8, <1>9, <1>10 DEF RecordsStep

LEMMA RecordsStart == RecordsInit => RecordsOK
<1> SUFFICES ASSUME RecordsInit PROVE RecordsOK  OBVIOUS
<1> USE DEF RecordsInit
<1>1. clock = 0 /\ inserted = {} /\ records = {} /\ cutoff = -1 /\ cleared = 0  OBVIOUS
<1>2. filter \in [device : Devices \cup {All}, from : Nat, until : Nat, ties : {"newest", "oldest"}]  BY RecordsAre
<1>3. pageNo = 0 /\ total = 0 /\ size \in Nat \ {0} /\ query = "done"  BY RecordsAre
<1>4. edited = FALSE /\ shrunk = FALSE  OBVIOUS
<1>5. IsFiniteSet(inserted) /\ inserted \subseteq Record /\ records \subseteq inserted
  BY FS_EmptySet
<1>6. clock \in Nat /\ cutoff \in Int /\ (cutoff # -1 => cutoff + Retention <= clock)
      /\ cleared \in Nat
  BY <1>1
<1>7. edited \in BOOLEAN /\ shrunk \in BOOLEAN  BY <1>4, Zenon
<1>8. pageNo \in Nat /\ total \in Nat /\ query \in {"done", "count"}  BY <1>3
<1> QED  BY <1>2, <1>3, <1>5, <1>6, <1>7, <1>8 DEF RecordsOK

\* Deletion takes nothing that is to be kept.
LEMMA RetentionStep ==
  RecordsOK /\ KeptForTheRetention /\ [RecordsStep]_recordsVars => KeptForTheRetention'
<1> SUFFICES ASSUME RecordsOK, KeptForTheRetention, [RecordsStep]_recordsVars,
                    NEW r \in inserted' \ records'
             PROVE  r.at < clock' - Retention \/ r.at < cleared'
  BY DEF KeptForTheRetention
<1>0. RecordsOK'  BY RecordsTyped
<1>1. r.at \in Nat /\ clock \in Nat /\ clock' \in Nat /\ Retention \in Nat /\ cleared \in Nat
      /\ cleared' \in Nat
  BY <1>0, RecordsAre DEF RecordsOK, Record
<1>2. ASSUME r \in inserted \ records, clock' >= clock, cleared' >= cleared
      PROVE  r.at < clock' - Retention \/ r.at < cleared'
  BY <1>1, <1>2 DEF KeptForTheRetention
<1>3. CASE Insert
  <2>1. r \in inserted \ records  BY <1>3 DEF Insert
  <2> QED  BY <1>1, <1>2, <1>3, <2>1 DEF Insert
<1>4. CASE Tick  BY <1>1, <1>2, <1>4 DEF Tick
<1>5. CASE KeeperDeletes
  <2>1. CASE r \in records
    BY <1>1, <1>5, <2>1 DEF KeeperDeletes, Deleted, RecordsOK
  <2>2. CASE r \notin records  BY <1>1, <1>2, <1>5, <2>2 DEF KeeperDeletes
  <2> QED  BY <2>1, <2>2
<1>6. CASE ClearData
  <2>1. filter.until \in Nat  BY DEF RecordsOK
  <2>2. cleared' >= cleared /\ cleared' >= filter.until  BY <1>1, <1>6, <2>1 DEF ClearData
  <2>3. clock' = clock /\ inserted' = inserted  BY <1>6 DEF ClearData, Clicks
  <2>4. CASE r \in records  BY <1>1, <1>6, <2>1, <2>2, <2>4 DEF ClearData, Deleted
  <2>5. CASE r \notin records  BY <1>1, <1>2, <2>2, <2>3, <2>5
  <2> QED  BY <2>4, <2>5
<1>7. CASE UNCHANGED <<clock, records, inserted, cleared>>  BY <1>1, <1>2, <1>7
<1> QED
  BY <1>3, <1>4, <1>5, <1>6, <1>7 DEF RecordsStep, recordsVars, pageVars, KeeperLooks, Counts,
     EditFilter, PressQuery, PrevPage, NextPage, ChangeSize, Clicks

\* The bookkeeping of a user who pages: what page 0 matched are rows that were inserted; with
\* the filter as it was, they match, those that have not been shown have a page of rows or
\* more before them for each page up to the user's, and when the number of pages is known and
\* one of them remains unseen there is a next page.
SoughtInserted ==
  sought \subseteq inserted /\ \A r \in inserted : r.id \in 1 .. Cardinality(inserted)
SoughtMatch == ~edited => \A r \in sought : Matches(r)
UnseenComeLater ==
  ~edited => \A r \in (sought \cap records) \ seen :
               Cardinality(Before(records, r)) >= (pageNo + 1) * size
UnseenHaveAPage ==
  query = "done" /\ ~edited => sought \cap records \subseteq seen \/ (pageNo + 1) * size < total

\* The bookkeeping of the page number: with nothing deleted, the number of rows last counted
\* is not above what there is, and the page shown begins before its end.
CountIsLow ==
  query = "done" /\ ~edited /\ ~shrunk => total <= Cardinality(Matching(records))
PageBegins ==
  query = "count" /\ ~edited /\ ~shrunk =>
    pageNo = 0 \/ pageNo * size < Cardinality(Matching(records))

PagingOK ==
  SoughtInserted /\ SoughtMatch /\ UnseenComeLater /\ UnseenHaveAPage
    /\ CountIsLow /\ PageBegins /\ PageExists

\* A new record: it is not sought, and it comes before some rows and after none it was not.
LEMMA InsertPaging == RecordsOK /\ PagingOK /\ Insert => PagingOK'
<1> SUFFICES ASSUME RecordsOK, PagingOK, Insert PROVE PagingOK'  OBVIOUS
<1>0. RecordsOK'  BY RecordsTyped DEF RecordsStep
<1>1. PICK new : /\ new.id = Cardinality(inserted) + 1
                 /\ records' = records \cup {new} /\ inserted' = inserted \cup {new}
  <2>1. PICK d \in Devices, age \in 0 .. 1 :
          inserted' = inserted \cup {NewRecord(d, clock - age)}
          /\ records' = records \cup {NewRecord(d, clock - age)}
    BY DEF Insert
  <2> QED  BY <2>1 DEF NewRecord
<1>2. UNCHANGED <<filter, pageNo, size, total, query, sought, seen, edited, shrunk>>
  BY DEF Insert, pageVars
<1>3. IsFiniteSet(inserted) /\ Cardinality(inserted) \in Nat
  BY FS_CardinalityType DEF RecordsOK
<1>4. new.id = Cardinality(inserted) + 1 /\ new \notin inserted
  BY <1>1, <1>3 DEF PagingOK, SoughtInserted
<1>5. Cardinality(inserted') = Cardinality(inserted) + 1  BY <1>1, <1>3, <1>4, FS_AddElement
<1>6. IsFiniteSet(records) /\ IsFiniteSet(records')
  BY <1>0, <1>3, FS_Subset DEF RecordsOK
<1>7. sought' \cap records' = sought \cap records  BY <1>1, <1>2, <1>4 DEF PagingOK, SoughtInserted
<1>8. (\A r : Matches(r) <=> Matches(r)')
  BY <1>2 DEF Matches
<1>9. \A r : Before(records, r)' = Before(records', r) /\ Matching(records)' = Matching(records')
  BY <1>2, <1>8 DEF Before, Matching, Later, Ties
<1>10. \A r : Cardinality(Before(records', r)) >= Cardinality(Before(records, r))
              /\ Cardinality(Before(records, r)) \in Nat /\ Cardinality(Before(records', r)) \in Nat
  BY <1>1, <1>6, MoreBefore, MatchingFinite
<1>11. Cardinality(Matching(records')) >= Cardinality(Matching(records))
       /\ Cardinality(Matching(records)) \in Nat /\ Cardinality(Matching(records')) \in Nat
  BY <1>1, <1>6, MoreBefore, MatchingFinite
<1>12. (pageNo + 1) * size \in Nat /\ pageNo * size \in Nat /\ total \in Nat
  BY PageBounds DEF RecordsOK
<1>13. SoughtInserted'
  BY <1>1, <1>2, <1>3, <1>4, <1>5 DEF PagingOK, SoughtInserted
<1>14. SoughtMatch'  BY <1>2, <1>8 DEF PagingOK, SoughtMatch
<1>15. UnseenComeLater'
  BY <1>2, <1>7, <1>9, <1>10, <1>12 DEF PagingOK, UnseenComeLater
<1>16. UnseenHaveAPage'  BY <1>2, <1>7 DEF PagingOK, UnseenHaveAPage
<1>17. CountIsLow'  BY <1>2, <1>9, <1>11, <1>12 DEF PagingOK, CountIsLow
<1>18. PageBegins'  BY <1>2, <1>9, <1>11, <1>12 DEF PagingOK, PageBegins
<1>19. PageExists'  BY <1>2 DEF PagingOK, PageExists
<1> QED  BY <1>13, <1>14, <1>15, <1>16, <1>17, <1>18, <1>19 DEF PagingOK

\* Old records go: those that remain have as many before them.
LEMMA DeletePaging == RecordsOK /\ PagingOK /\ KeeperDeletes => PagingOK'
<1> SUFFICES ASSUME RecordsOK, PagingOK, KeeperDeletes PROVE PagingOK'  OBVIOUS
<1>1. UNCHANGED <<inserted, filter, pageNo, size, total, query, sought, seen, edited>>
      /\ records' = {r \in records : r.at >= cutoff}
  BY DEF KeeperDeletes, Deleted
<1>2. ~shrunk' => ~shrunk /\ records' = records  BY DEF KeeperDeletes, RecordsOK
<1>3. \A r : Matches(r) <=> Matches(r)'  BY <1>1 DEF Matches
<1>4. \A r : Before(records, r)' = Before(records', r) /\ Matching(records)' = Matching(records')
  BY <1>1, <1>3 DEF Before, Matching, Later, Ties
<1>5. \A r \in records : r.at \in Int  BY DEF RecordsOK, Record
<1>6. \A r \in records' : Before(records', r) = Before(records, r)
  BY <1>1, <1>5, OldAreNotBefore DEF RecordsOK
<1>7. SoughtInserted'  BY <1>1 DEF PagingOK, SoughtInserted
<1>8. SoughtMatch'  BY <1>1, <1>3 DEF PagingOK, SoughtMatch
<1>9. UnseenComeLater'  BY <1>1, <1>4, <1>6 DEF PagingOK, UnseenComeLater
<1>10. UnseenHaveAPage'  BY <1>1 DEF PagingOK, UnseenHaveAPage
<1>11. CountIsLow'  BY <1>1, <1>2, <1>4 DEF PagingOK, CountIsLow
<1>12. PageBegins'  BY <1>1, <1>2, <1>4 DEF PagingOK, PageBegins
<1>13. PageExists'  BY <1>1, <1>2 DEF PagingOK, PageExists
<1> QED  BY <1>7, <1>8, <1>9, <1>10, <1>11, <1>12, <1>13 DEF PagingOK

\* The number of rows is counted: a row that is not on the pages so far is on a later one.
LEMMA CountPaging == RecordsOK /\ PagingOK /\ Counts => PagingOK'
<1> SUFFICES ASSUME RecordsOK, PagingOK, Counts PROVE PagingOK'  OBVIOUS
<1>1. UNCHANGED <<inserted, records, filter, pageNo, size, sought, seen, edited, shrunk>>
      /\ query = "count" /\ query' = "done" /\ total' = Cardinality(Matching(records))
  BY DEF Counts
<1>2. IsFiniteSet(records)  BY FS_Subset DEF RecordsOK
<1>3. \A r : Matches(r) <=> Matches(r)'  BY <1>1 DEF Matches
<1>4. \A r : Before(records, r)' = Before(records, r) /\ Matching(records)' = Matching(records)
  BY <1>1, <1>3 DEF Before, Matching, Later, Ties
<1>5. (pageNo + 1) * size \in Nat /\ pageNo * size \in Nat /\ Cardinality(Matching(records)) \in Nat
  BY <1>2, PageBounds, MatchingFinite DEF RecordsOK
<1>6. SoughtInserted' /\ SoughtMatch' /\ UnseenComeLater'
  BY <1>1, <1>3, <1>4 DEF PagingOK, SoughtInserted, SoughtMatch, UnseenComeLater
<1>7. UnseenHaveAPage'
  <2> SUFFICES ASSUME ~edited, NEW r \in (sought \cap records) \ seen
               PROVE  (pageNo + 1) * size < Cardinality(Matching(records))
    BY <1>1 DEF UnseenHaveAPage
  <2>1. r \in Matching(records)  BY DEF PagingOK, SoughtMatch, Matching
  <2>2. r.at \in Int /\ r.id \in Int  BY DEF RecordsOK, Record
  <2>3. Cardinality(Before(records, r)) < Cardinality(Matching(records))
    BY <1>2, <2>1, <2>2, RowIsNotBefore
  <2>4. Cardinality(Before(records, r)) \in Nat  BY <1>2, MatchingFinite
  <2>5. Cardinality(Before(records, r)) >= (pageNo + 1) * size  BY DEF PagingOK, UnseenComeLater
  <2> QED  BY <1>5, <2>3, <2>4, <2>5
<1>8. CountIsLow' /\ PageBegins' /\ PageExists'
  BY <1>1, <1>4, <1>5 DEF PagingOK, CountIsLow, PageBegins, PageExists
<1> QED  BY <1>6, <1>7, <1>8 DEF PagingOK

\* Page 0 is shown: the bookkeeping begins anew.
LEMMA FirstPaging ==
  ASSUME RecordsOK, PagingOK, NEW n \in Nat \ {0}, records' \subseteq records,
         inserted' = inserted, Shows(records', 0, n)
  PROVE  PagingOK'
<1>1. /\ pageNo' = 0 /\ size' = n /\ query' = "count" /\ filter' = filter
      /\ sought' = Matching(records') /\ seen' = Rows(records', 0, n)
  BY DEF Shows
<1>2. \A r : Matches(r) <=> Matches(r)'  BY <1>1 DEF Matches
<1>3. \A r : Before(records, r)' = Before(records', r) /\ Matching(records)' = Matching(records')
  BY <1>1, <1>2 DEF Before, Matching, Later, Ties
<1>4. Matching(records') \subseteq inserted  BY DEF Matching, RecordsOK
<1>5. SoughtInserted'  BY <1>1, <1>4 DEF PagingOK, SoughtInserted
<1>6. SoughtMatch'  BY <1>1, <1>2 DEF SoughtMatch, Matching
<1>7. UnseenComeLater'
  <2> SUFFICES ASSUME NEW r \in Matching(records') \ Rows(records', 0, n)
               PROVE  Cardinality(Before(records', r)) >= (0 + 1) * n
    BY <1>1, <1>3 DEF UnseenComeLater
  <2>1. Cardinality(Before(records', r)) \in Nat
    BY FS_Subset, MatchingFinite DEF RecordsOK
  <2>2. Cardinality(Before(records', r)) \notin 0 * n .. (0 + 1) * n - 1  BY DEF Rows
  <2>3. 0 * n = 0 /\ (0 + 1) * n = n  BY PageBounds
  <2> QED  BY <2>1, <2>2, <2>3
<1>8. UnseenHaveAPage' /\ CountIsLow' /\ PageBegins' /\ PageExists'
  BY <1>1 DEF UnseenHaveAPage, CountIsLow, PageBegins, PageExists
<1> QED  BY <1>5, <1>6, <1>7, <1>8 DEF PagingOK

\* Another page is shown, the next one at most: the rows that have a page of rows before them
\* for each page up to it, and are not on it, have one more.
LEMMA NextPaging ==
  ASSUME RecordsOK, PagingOK, NEW p \in Nat \ {0}, p <= pageNo + 1, query = "done",
         p = pageNo + 1 => ~LastPage,
         UNCHANGED <<records, inserted>>, Shows(records, p, size)
  PROVE  PagingOK'
<1>1. /\ pageNo' = p /\ query' = "count" /\ seen' = seen \cup Rows(records, p, size)
      /\ UNCHANGED <<size, filter, sought, edited, shrunk>>
  BY DEF Shows
<1>2. \A r : Matches(r) <=> Matches(r)'  BY <1>1 DEF Matches
<1>3. \A r : Before(records, r)' = Before(records, r) /\ Matching(records)' = Matching(records)
  BY <1>1, <1>2 DEF Before, Matching, Later, Ties
<1>4. IsFiniteSet(records)  BY FS_Subset DEF RecordsOK
<1>5. SoughtInserted' /\ SoughtMatch'
  BY <1>1, <1>2 DEF PagingOK, SoughtInserted, SoughtMatch
<1>6. \A q \in Nat : q * size \in Nat /\ (q + 1) * size = q * size + size /\ (q + 1) * size \in Nat
  BY PageBounds DEF RecordsOK
<1>7. \A q, m \in Nat : q <= m => q * size <= m * size
  BY DEF RecordsOK
<1>8. size \in Nat /\ pageNo \in Nat /\ p \in Nat /\ total \in Nat  BY DEF RecordsOK
<1>9. UnseenComeLater'
  <2> SUFFICES ASSUME ~edited, NEW r \in (sought \cap records) \ (seen \cup Rows(records, p, size))
               PROVE  Cardinality(Before(records, r)) >= (p + 1) * size
    BY <1>1, <1>3 DEF UnseenComeLater
  <2>1. Cardinality(Before(records, r)) \in Nat  BY <1>4, MatchingFinite
  <2>2. Cardinality(Before(records, r)) >= (pageNo + 1) * size  BY DEF PagingOK, UnseenComeLater
  <2>3. r \in Matching(records)  BY DEF PagingOK, SoughtMatch, Matching
  <2>4. Cardinality(Before(records, r)) \notin p * size .. (p + 1) * size - 1  BY <2>3 DEF Rows
  <2>5. p * size <= (pageNo + 1) * size  BY <1>7, <1>8
  <2> QED  BY <1>6, <1>8, <2>1, <2>2, <2>4, <2>5
<1>10. PageBegins'
  <2> SUFFICES ASSUME ~edited, ~shrunk
               PROVE  p * size < Cardinality(Matching(records))
    BY <1>1, <1>3 DEF PageBegins
  <2>1. Cardinality(Matching(records)) \in Nat /\ total <= Cardinality(Matching(records))
    BY <1>4, MatchingFinite DEF PagingOK, CountIsLow
  <2>2. p * size < total
    <3>1. CASE p = pageNo + 1
      <4>1. p * size = (pageNo + 1) * size  BY <3>1
      <4>2. ~((pageNo + 1) * size >= total)  BY <3>1 DEF LastPage
      <4> QED  BY <1>6, <1>8, <4>1, <4>2
    <3>2. CASE p # pageNo + 1
      <4>1. p <= pageNo /\ pageNo # 0  BY <1>8, <3>2
      <4>2. pageNo * size < total  BY <4>1 DEF PagingOK, PageExists
      <4>3. p * size <= pageNo * size  BY <1>7, <1>8, <4>1
      <4> QED  BY <1>6, <1>8, <4>2, <4>3
    <3> QED  BY <3>1, <3>2
  <2> QED  BY <1>6, <1>8, <2>1, <2>2
<1>11. UnseenHaveAPage' /\ CountIsLow' /\ PageExists'
  BY <1>1 DEF UnseenHaveAPage, CountIsLow, PageExists
<1> QED  BY <1>5, <1>9, <1>10, <1>11 DEF PagingOK

LEMMA PagingStep == RecordsOK /\ PagingOK /\ [RecordsStep]_recordsVars => PagingOK'
<1> SUFFICES ASSUME RecordsOK, PagingOK, [RecordsStep]_recordsVars PROVE PagingOK'  OBVIOUS
<1>1. CASE UNCHANGED <<records, inserted, filter, pageVars>>
  <2>1. \A r : Matches(r) <=> Matches(r)'  BY <1>1 DEF Matches
  <2>2. \A r : Before(records, r)' = Before(records, r) /\ Matching(records)' = Matching(records)
    BY <1>1, <2>1 DEF Before, Matching, Later, Ties
  <2> QED
    BY <1>1, <2>1, <2>2 DEF PagingOK, SoughtInserted, SoughtMatch, UnseenComeLater,
       UnseenHaveAPage, CountIsLow, PageBegins, PageExists, pageVars
<1>2. CASE EditFilter
  <2>1. edited' = TRUE /\ query' = "done"
        /\ UNCHANGED <<records, inserted, sought>>
    BY <1>2 DEF EditFilter, Clicks
  <2> QED
    BY <2>1 DEF PagingOK, SoughtInserted, SoughtMatch, UnseenComeLater,
       UnseenHaveAPage, CountIsLow, PageBegins, PageExists
<1>3. CASE PressQuery \/ PrevPage \/ NextPage
  <2>1. PICK p \in Nat : /\ p <= pageNo + 1 /\ Shows(records, p, size)
                         /\ p = pageNo + 1 => ~LastPage
    <3>1. pageNo \in Nat  BY DEF RecordsOK
    <3>2. pageNo > 0 => pageNo - 1 \in Nat /\ pageNo - 1 <= pageNo + 1 /\ pageNo - 1 # pageNo + 1
      BY <3>1
    <3>3. pageNo + 1 \in Nat /\ pageNo <= pageNo + 1 /\ pageNo # pageNo + 1  BY <3>1
    <3> QED  BY <1>3, <3>1, <3>2, <3>3 DEF PressQuery, PrevPage, NextPage
  <2>2. UNCHANGED <<records, inserted>> /\ query = "done"
    BY <1>3 DEF PressQuery, PrevPage, NextPage, Clicks
  <2>3. CASE p = 0
    <3>1. Shows(records', 0, size)  BY <2>1, <2>2, <2>3
    <3> QED  BY <2>2, <3>1, FirstPaging DEF RecordsOK
  <2>4. CASE p # 0  BY <2>1, <2>2, <2>4, NextPaging
  <2> QED  BY <2>3, <2>4
<1>4. CASE ChangeSize
  <2>1. PICK n \in PageSizes : Shows(records, 0, n)  BY <1>4 DEF ChangeSize
  <2>2. UNCHANGED <<records, inserted>>  BY <1>4 DEF ChangeSize, Clicks
  <2>3. Shows(records', 0, n)  BY <2>1, <2>2
  <2>4. n \in Nat \ {0}  BY RecordsAre
  <2> QED  BY <2>2, <2>3, <2>4, FirstPaging
<1>5. CASE ClearData
  <2>1. records' \subseteq records /\ inserted' = inserted /\ Shows(records', 0, size)
    BY <1>5 DEF ClearData, Deleted, Clicks
  <2> QED  BY <2>1, FirstPaging DEF RecordsOK
<1> QED
  BY <1>1, <1>2, <1>3, <1>4, <1>5, InsertPaging, DeletePaging, CountPaging
     DEF RecordsStep, recordsVars, Tick, KeeperLooks

LEMMA PagingStart == RecordsInit => PagingOK
<1> SUFFICES ASSUME RecordsInit PROVE PagingOK  OBVIOUS
<1>1. inserted = {} /\ records = {} /\ sought = {} /\ pageNo = 0 /\ total = 0 /\ query = "done"
  BY DEF RecordsInit
<1>2. Cardinality(Matching(records)) \in Nat  BY <1>1, FS_EmptySet, MatchingFinite
<1>3. CountIsLow  BY <1>1, <1>2 DEF CountIsLow
<1> QED
  BY <1>1, <1>3 DEF PagingOK, SoughtInserted, SoughtMatch, UnseenComeLater, UnseenHaveAPage,
     PageBegins, PageExists

LEMMA PagingIsSound == RecordsOK /\ PagingOK => PagingMissesNothing /\ PageExists
<1> SUFFICES ASSUME RecordsOK, PagingOK PROVE PagingMissesNothing /\ PageExists  OBVIOUS
<1>1. (pageNo + 1) * size \in Nat /\ total \in Nat  BY PageBounds DEF RecordsOK
<1> QED  BY <1>1 DEF PagingOK, UnseenHaveAPage, PagingMissesNothing, LastPage

(* The history is kept for its retention, a user who pages from the first  *)
(* page to the last misses no row, and no page past the last one is shown, *)
(* while collectors insert and the maintenance thread deletes.             *)
THEOREM HistoryKeptAndShownWhole == ScreensSpec => []HistoryIsWhole
<1> DEFINE Inv == RecordsOK /\ KeptForTheRetention /\ PagingOK
<1>1. ScreensInit => Inv
  <2>1. RecordsInit => KeptForTheRetention  BY DEF RecordsInit, KeptForTheRetention
  <2> QED  BY <2>1, ScreensStarted, RecordsStart, PagingStart
<1>2. Inv /\ [ScreensNext]_<<view, screens>> => Inv'
  BY ScreensStepped, RecordsTyped, RetentionStep, PagingStep
<1>3. Inv => HistoryIsWhole  BY PagingIsSound DEF HistoryIsWhole
<1> QED  BY <1>1, <1>2, <1>3, PTL DEF ScreensSpec

-----------------------------------------------------------------------------
(* The live pages.                                                         *)

Samples == [dev : Sources \cup {"none"}, n : Nat]
SamplesOf == [PointNames -> Samples]

FirstPoint == CHOOSE p \in PointNames : TRUE
Feeder == [pc : {"idle", "dash", "buffer", "list", "viz", "store"}, n : Nat,
           point : PointNames \cup {FirstPoint}, box : Nat]
Page == [dev : Sources, points : SUBSET PointNames, paused : BOOLEAN, box : Nat]

PagesTyped ==
  /\ feeder \in [Sources -> Feeder] /\ page \in [PageNames -> Page]
  /\ pending \in [PageNames -> SamplesOf] /\ shown \in [PageNames -> SamplesOf]
  /\ buffers \in [Sources -> SamplesOf] /\ taken \in SamplesOf /\ rows \in SamplesOf
  /\ qt \in PageNames \cup {"idle"}
  /\ chosen \in {<<>>} \cup (PageNames \X SUBSET PointNames)

\* A reading that a page of the device may hold: of the device, or stored after a change.
Fits(x, dev, stored) == x = None \/ x.dev = dev \/ x \in stored

\* Curves hold the readings of their device; what waits, what a timer has taken and what is
\* shown is of the device of the page, and no timer holds readings while the user may act.
BuffersHold == \A d \in Sources, p \in PointNames : buffers[d][p] = None \/ buffers[d][p].dev = d
PendingHold == \A pg \in PageNames, p \in PointNames : Fits(pending[pg][p], page[pg].dev, strays)
ShownHold == \A pg \in PageNames, p \in PointNames : Fits(shown[pg][p], page[pg].dev, strays)
RowsHold == \A p \in PointNames : Fits(rows[p], page["dash"].dev, strays)
TakenHold ==
  IF qt = "idle" THEN taken = Nothing ELSE \A p \in PointNames : Fits(taken[p], page[qt].dev, strays)

PagesOK == PagesTyped /\ BuffersHold /\ PendingHold /\ ShownHold /\ RowsHold /\ TakenHold

LEMMA NothingTyped == None \in Samples /\ Nothing \in SamplesOf /\ \A p \in PointNames : Nothing[p] = None
BY DEF None, Nothing, Samples, SamplesOf

LEMMA NoneFits == \A dev, stored : Fits(None, dev, stored)
BY DEF Fits

\* Strays are never forgotten.
LEMMA StillFits == \A x, dev, S, T : S \subseteq T /\ Fits(x, dev, S) => Fits(x, dev, T)
BY DEF Fits

LEMMA SampleTyped ==
  ASSUME PagesTyped, NEW d \in Sources
  PROVE  Sample(d) \in Samples /\ Sample(d).dev = d
BY DEF PagesTyped, Sample, Samples, Feeder

LEMMA CurvesTyped ==
  ASSUME PagesTyped, NEW ps
  PROVE  Curves(ps) \in SamplesOf
<1>1. page["dash"].dev \in Sources  BY DEF PagesTyped, Page, PageNames
<1>2. buffers[page["dash"].dev] \in SamplesOf  BY <1>1 DEF PagesTyped
<1> QED  BY <1>2, NothingTyped DEF Curves, SamplesOf

\* The store puts the reading in a container, of the page's device or as a stray.
LEMMA StoreHolds ==
  ASSUME PagesOK, NEW pg \in PageNames, NEW d \in Sources, Stores(pg, d),
         UNCHANGED <<page, qt>>
  PROVE  /\ pending' \in [PageNames -> SamplesOf] /\ taken' \in SamplesOf
         /\ PendingHold' /\ TakenHold' /\ strays \subseteq strays'
<1>1. Sample(d) \in Samples /\ Sample(d).dev = d  BY SampleTyped DEF PagesOK
<1>2. strays \subseteq strays' /\ (page[pg].dev = d \/ Sample(d) \in strays')  BY DEF Stores
<1>3. Fits(Sample(d), page[pg].dev, strays')  BY <1>1, <1>2 DEF Fits
<1>4. \A x, dev : Fits(x, dev, strays) => Fits(x, dev, strays')  BY <1>2, StillFits
<1>5. pending \in [PageNames -> SamplesOf] /\ taken \in SamplesOf  BY DEF PagesOK, PagesTyped
<1>6. CASE pending' = [pending EXCEPT ![pg][Point(d)] = Sample(d)] /\ taken' = taken
  <2>1. pending' \in [PageNames -> SamplesOf]  BY <1>1, <1>5, <1>6 DEF SamplesOf
  <2>2. \A q \in PageNames, p \in PointNames :
          pending'[q][p] = pending[q][p] \/ (q = pg /\ pending'[q][p] = Sample(d))
    BY <1>5, <1>6 DEF SamplesOf
  <2>3. PendingHold'  BY <1>3, <1>4, <2>2 DEF PendingHold, PagesOK
  <2>4. TakenHold'  BY <1>4, <1>6 DEF TakenHold, PagesOK
  <2> QED  BY <1>2, <1>5, <1>6, <2>1, <2>3, <2>4
<1>7. CASE qt = pg /\ pending' = pending /\ taken' = [taken EXCEPT ![Point(d)] = Sample(d)]
  <2>1. taken' \in SamplesOf  BY <1>1, <1>5, <1>7 DEF SamplesOf
  <2>2. \A p \in PointNames : taken'[p] = taken[p] \/ taken'[p] = Sample(d)
    BY <1>5, <1>7 DEF SamplesOf
  <2>3. qt # "idle"  BY <1>7 DEF PageNames
  <2>4. TakenHold'  BY <1>3, <1>4, <1>7, <2>2, <2>3 DEF TakenHold, PagesOK
  <2>5. PendingHold'  BY <1>4, <1>7 DEF PendingHold, PagesOK
  <2> QED  BY <1>2, <1>5, <1>7, <2>1, <2>4, <2>5
<1>8. CASE UNCHANGED <<pending, taken>>
  BY <1>2, <1>4, <1>5, <1>8 DEF PendingHold, TakenHold, PagesOK
<1> QED  BY <1>6, <1>7, <1>8 DEF Stores

\* What a thread feeds.
LEMMA FeedsHold ==
  ASSUME PagesOK, NEW d \in Sources, Arrives(d) \/ Feeds(d)
  PROVE  PagesOK'
<1>1. UNCHANGED <<page, shown, rows, qt, chosen>>
  BY DEF Arrives, Feeds, LooksAtDash, FeedsBuffer, FeedsList, LooksAtViz, FeedsViz
<1>2. feeder' \in [Sources -> Feeder]
  <2>1. feeder[d] \in Feeder /\ feeder \in [Sources -> Feeder]  BY DEF PagesOK, PagesTyped
  <2>2. page["dash"].box \in Nat /\ page["viz"].box \in Nat
    BY DEF PagesOK, PagesTyped, Page, PageNames
  <2>3. CASE Arrives(d)
    <3>1. PICK p \in PointNames :
            feeder' = [feeder EXCEPT ![d].pc = "dash", ![d].n = @ + 1, ![d].point = p]
      BY <2>3 DEF Arrives
    <3>2. feeder' = [feeder EXCEPT ![d] = [feeder[d] EXCEPT !.pc = "dash", !.n = @ + 1, !.point = p]]
      BY <2>1, <3>1 DEF Feeder
    <3>3. [feeder[d] EXCEPT !.pc = "dash", !.n = @ + 1, !.point = p] \in Feeder
      <4>1. feeder[d].n + 1 \in Nat  BY <2>1 DEF Feeder
      <4> QED  BY <2>1, <4>1 DEF Feeder
    <3> QED  BY <2>1, <3>2, <3>3
  <2>4. CASE LooksAtDash(d)  BY <2>1, <2>4 DEF LooksAtDash, Goes, Feeder
  <2>5. CASE FeedsBuffer(d)  BY <2>1, <2>2, <2>5 DEF FeedsBuffer, Feeder
  <2>6. CASE FeedsList(d)  BY <2>1, <2>6 DEF FeedsList, Goes, Feeder
  <2>7. CASE LooksAtViz(d)  BY <2>1, <2>2, <2>7 DEF LooksAtViz, Feeder
  <2>8. CASE FeedsViz(d)  BY <2>1, <2>8 DEF FeedsViz, Goes, Feeder
  <2> QED  BY <2>3, <2>4, <2>5, <2>6, <2>7, <2>8 DEF Feeds
<1>3. /\ pending' \in [PageNames -> SamplesOf] /\ taken' \in SamplesOf
      /\ PendingHold' /\ TakenHold' /\ strays \subseteq strays'
  <2>1. CASE FeedsList(d) \/ FeedsViz(d)
    BY <1>1, <2>1, StoreHolds DEF FeedsList, FeedsViz, PageNames
  <2>2. CASE UNCHANGED <<pending, taken, strays>>
    BY <1>1, <2>2 DEF PagesOK, PagesTyped, PendingHold, TakenHold
  <2> QED  BY <2>1, <2>2 DEF Arrives, Feeds, LooksAtDash, FeedsBuffer, LooksAtViz
<1>4. buffers' \in [Sources -> SamplesOf] /\ BuffersHold'
  <2>1. CASE FeedsBuffer(d)
    <3>1. Sample(d) \in Samples /\ Sample(d).dev = d  BY SampleTyped DEF PagesOK
    <3> QED
      BY <2>1, <3>1 DEF FeedsBuffer, PagesOK, PagesTyped, BuffersHold, SamplesOf
  <2>2. CASE UNCHANGED buffers  BY <2>2 DEF PagesOK, PagesTyped, BuffersHold
  <2> QED  BY <2>1, <2>2 DEF Arrives, Feeds, LooksAtDash, FeedsList, LooksAtViz, FeedsViz
<1>5. PagesTyped'  BY <1>1, <1>2, <1>3, <1>4 DEF PagesOK, PagesTyped
<1>6. ShownHold' /\ RowsHold'
  BY <1>1, <1>3, StillFits DEF PagesOK, ShownHold, RowsHold
<1> QED  BY <1>3, <1>4, <1>5, <1>6 DEF PagesOK

\* What a timer takes and shows.
LEMMA TimersHold == PagesOK /\ Timers => PagesOK'
<1> SUFFICES ASSUME PagesOK, Timers PROVE PagesOK'  OBVIOUS
<1> USE NothingTyped, NoneFits
<1>1. UNCHANGED <<feeder, buffers, strays>>
  BY DEF Timers, Takes, ShowsDash, ShowsViz, FillsDash, FillsViz
<1>2. page' \in [PageNames -> Page] /\ \A pg \in PageNames : page'[pg].dev = page[pg].dev
  <2>1. page \in [PageNames -> Page]  BY DEF PagesOK, PagesTyped
  <2>2. CASE \E pg \in PageNames : Takes(pg)
    <3>1. PICK pg \in PageNames : Takes(pg)  BY <2>2
    <3>2. page[pg] \in Page  BY <2>1
    <3> QED  BY <2>1, <3>1, <3>2 DEF Takes, Page
  <2>3. CASE ShowsDash \/ ShowsViz  BY <2>1, <2>3 DEF ShowsDash, ShowsViz
  <2>4. CASE FillsDash \/ FillsViz
    <3>1. chosen[2] \in SUBSET PointNames
      <4>1. chosen \in PageNames \X SUBSET PointNames
        BY <2>4 DEF FillsDash, FillsViz, PagesOK, PagesTyped
      <4> QED  BY <4>1
    <3>2. page["dash"] \in Page /\ page["viz"] \in Page  BY <2>1 DEF PageNames
    <3> QED  BY <2>1, <2>4, <3>1, <3>2 DEF FillsDash, FillsViz, PageNames, Page
  <2> QED  BY <2>2, <2>3, <2>4 DEF Timers
<1>3. BuffersHold'  BY <1>1 DEF BuffersHold, PagesOK
<1>4. ASSUME NEW ps
      PROVE  /\ Curves(ps) \in SamplesOf
             /\ \A p \in PointNames : Fits(Curves(ps)[p], page["dash"].dev, strays)
  <2>1. Curves(ps) \in SamplesOf  BY CurvesTyped DEF PagesOK
  <2>2. page["dash"].dev \in Sources  BY DEF PagesOK, PagesTyped, PageNames, Page
  <2>3. \A p \in PointNames : Curves(ps)[p] = None \/ Curves(ps)[p].dev = page["dash"].dev
    BY <2>2 DEF Curves, PagesOK, BuffersHold
  <2> QED  BY <2>1, <2>3 DEF Fits
<1>5. CASE \E pg \in PageNames : Takes(pg)
  <2>1. PICK pg \in PageNames : Takes(pg)  BY <1>5
  <2>2. /\ taken' = pending[pg] /\ pending' = [pending EXCEPT ![pg] = Nothing] /\ qt' = pg
        /\ UNCHANGED <<shown, rows, chosen>>
    BY <2>1 DEF Takes
  <2>3. PagesTyped'  BY <1>1, <1>2, <2>2 DEF PagesOK, PagesTyped
  <2>4. PendingHold'  BY <1>1, <1>2, <2>2 DEF PagesOK, PagesTyped, PendingHold
  <2>5. ShownHold' /\ RowsHold'  BY <1>1, <1>2, <2>2 DEF PagesOK, ShownHold, RowsHold, PageNames
  <2>6. TakenHold'  BY <1>1, <1>2, <2>2 DEF PagesOK, PendingHold, TakenHold, PageNames
  <2> QED  BY <1>3, <2>3, <2>4, <2>5, <2>6 DEF PagesOK
<1>6. CASE ShowsDash
  <2> DEFINE curves == Curves(page["dash"].points)
  <2>1. /\ qt = "dash" /\ qt' = "idle" /\ taken' = Nothing
        /\ shown' = [shown EXCEPT !["dash"] = curves]
        /\ rows' = [p \in PointNames |-> IF p \in page["dash"].points THEN taken[p] ELSE None]
        /\ UNCHANGED <<pending, chosen>>
    BY <1>6 DEF ShowsDash
  <2>2. taken \in SamplesOf /\ \A p \in PointNames : Fits(taken[p], page["dash"].dev, strays)
    BY <2>1 DEF PagesOK, PagesTyped, TakenHold
  <2>3. rows' \in SamplesOf  BY <2>1, <2>2 DEF SamplesOf
  <2>4. RowsHold'  BY <1>1, <1>2, <2>1, <2>2 DEF RowsHold, PageNames
  <2>5. curves \in SamplesOf /\ \A p \in PointNames : Fits(curves[p], page["dash"].dev, strays)
    BY <1>4
  <2> HIDE DEF curves
  <2>6. shown' \in [PageNames -> SamplesOf]  BY <2>1, <2>5 DEF PagesOK, PagesTyped
  <2>7. ShownHold'
    BY <1>1, <1>2, <2>1, <2>5 DEF PagesOK, PagesTyped, ShownHold, PageNames
  <2>8. PagesTyped'  BY <1>1, <1>2, <2>1, <2>3, <2>6 DEF PagesOK, PagesTyped
  <2>9. PendingHold' /\ TakenHold'  BY <1>1, <1>2, <2>1 DEF PagesOK, PendingHold, TakenHold
  <2> QED  BY <1>3, <2>4, <2>7, <2>8, <2>9 DEF PagesOK
<1>7. CASE ShowsViz
  <2> DEFINE cards == [p \in PointNames |->
                 IF p \in page["viz"].points /\ taken[p] # None THEN taken[p] ELSE shown["viz"][p]]
  <2>1. /\ qt = "viz" /\ qt' = "idle" /\ taken' = Nothing
        /\ shown' = [shown EXCEPT !["viz"] = cards]
        /\ UNCHANGED <<pending, rows, chosen>>
    BY <1>7 DEF ShowsViz
  <2>2. taken \in SamplesOf /\ \A p \in PointNames : Fits(taken[p], page["viz"].dev, strays)
    BY <2>1 DEF PagesOK, PagesTyped, TakenHold
  <2>3. /\ shown["viz"] \in SamplesOf
        /\ \A p \in PointNames : Fits(shown["viz"][p], page["viz"].dev, strays)
    BY DEF PagesOK, PagesTyped, ShownHold, PageNames
  <2>4. cards \in SamplesOf /\ \A p \in PointNames : Fits(cards[p], page["viz"].dev, strays)
    BY <2>2, <2>3 DEF SamplesOf
  <2> HIDE DEF cards
  <2>5. shown' \in [PageNames -> SamplesOf]  BY <2>1, <2>4 DEF PagesOK, PagesTyped
  <2>6. ShownHold'
    BY <1>1, <1>2, <2>1, <2>4 DEF PagesOK, PagesTyped, ShownHold, PageNames
  <2>7. PagesTyped'  BY <1>1, <1>2, <2>1, <2>5 DEF PagesOK, PagesTyped
  <2>8. PendingHold' /\ TakenHold' /\ RowsHold'
    BY <1>1, <1>2, <2>1 DEF PagesOK, PendingHold, TakenHold, RowsHold, PageNames
  <2> QED  BY <1>3, <2>6, <2>7, <2>8 DEF PagesOK
<1>8. CASE FillsDash \/ FillsViz
  <2>1. chosen' = <<>> /\ UNCHANGED <<pending, taken, rows, qt>>  BY <1>8 DEF FillsDash, FillsViz
  <2>2. PICK pg \in PageNames, cards \in SamplesOf :
          /\ shown' = [shown EXCEPT ![pg] = cards]
          /\ \A p \in PointNames : Fits(cards[p], page[pg].dev, strays)
    <3>1. CASE FillsDash  BY <1>4, <3>1 DEF FillsDash, PageNames
    <3>2. CASE FillsViz  BY <3>2 DEF FillsViz, PageNames
    <3> QED  BY <1>8, <3>1, <3>2
  <2>3. shown' \in [PageNames -> SamplesOf]  BY <2>2 DEF PagesOK, PagesTyped
  <2>4. ShownHold'
    BY <1>1, <1>2, <2>2 DEF PagesOK, PagesTyped, ShownHold
  <2>5. PagesTyped'  BY <1>1, <1>2, <2>1, <2>3 DEF PagesOK, PagesTyped
  <2>6. PendingHold' /\ TakenHold' /\ RowsHold'
    BY <1>1, <1>2, <2>1 DEF PagesOK, PagesTyped, PendingHold, TakenHold, RowsHold, PageNames
  <2> QED  BY <1>3, <2>4, <2>5, <2>6 DEF PagesOK
<1> QED  BY <1>5, <1>6, <1>7, <1>8 DEF Timers

\* What the user does, between two timers: nothing is taken meanwhile.
LEMMA GesturesHold == PagesOK /\ Gestures => PagesOK'
<1> SUFFICES ASSUME PagesOK, Gestures PROVE PagesOK'  OBVIOUS
<1> USE NothingTyped, NoneFits
<1>1. qt = "idle" /\ taken = Nothing /\ UNCHANGED <<feeder, taken, qt, strays>>
  BY DEF Gestures, DashChangesDevice, VizChangesDevice, Selects, Pauses, ClearsChart, Gesture,
     PagesOK, TakenHold
<1>2. TakenHold'  BY <1>1 DEF TakenHold
<1>3. page \in [PageNames -> Page] /\ page["dash"] \in Page /\ page["viz"] \in Page
  BY DEF PagesOK, PagesTyped, PageNames
<1>4. CASE \E d \in Sources : DashChangesDevice(d)
  <2>1. PICK d \in Sources : DashChangesDevice(d)  BY <1>4
  <2>2. /\ page' = [page EXCEPT !["dash"].dev = d, !["dash"].points = {}]
        /\ buffers' = [s \in Sources |-> Nothing] /\ pending' = [pending EXCEPT !["dash"] = Nothing]
        /\ shown' = [shown EXCEPT !["dash"] = Nothing] /\ rows' = Nothing
        /\ UNCHANGED chosen
    BY <2>1 DEF DashChangesDevice
  <2>3. page' \in [PageNames -> Page] /\ page'["viz"] = page["viz"]
    BY <1>3, <2>2 DEF Page, PageNames
  <2>4. PagesTyped'  BY <1>1, <2>2, <2>3 DEF PagesOK, PagesTyped
  <2>5. BuffersHold' /\ RowsHold'  BY <2>2 DEF BuffersHold, RowsHold
  <2>6. PendingHold' /\ ShownHold'
    BY <1>1, <2>2, <2>3 DEF PagesOK, PagesTyped, PendingHold, ShownHold, PageNames
  <2> QED  BY <1>2, <2>4, <2>5, <2>6 DEF PagesOK
<1>5. CASE \E d \in Sources : VizChangesDevice(d)
  <2>1. PICK d \in Sources : VizChangesDevice(d)  BY <1>5
  <2>2. /\ page' = [page EXCEPT !["viz"].dev = d, !["viz"].points = {}]
        /\ pending' = [pending EXCEPT !["viz"] = Nothing]
        /\ shown' = [shown EXCEPT !["viz"] = Nothing]
        /\ UNCHANGED <<buffers, rows, chosen>>
    BY <2>1 DEF VizChangesDevice
  <2>3. page' \in [PageNames -> Page] /\ page'["dash"] = page["dash"]
    BY <1>3, <2>2 DEF Page, PageNames
  <2>4. PagesTyped'  BY <1>1, <2>2, <2>3 DEF PagesOK, PagesTyped
  <2>5. BuffersHold' /\ RowsHold'  BY <1>1, <2>2, <2>3 DEF PagesOK, BuffersHold, RowsHold
  <2>6. PendingHold' /\ ShownHold'
    BY <1>1, <2>2, <2>3 DEF PagesOK, PagesTyped, PendingHold, ShownHold, PageNames
  <2> QED  BY <1>2, <2>4, <2>5, <2>6 DEF PagesOK
<1>6. CASE \E pg \in PageNames : Selects(pg) \/ Pauses(pg)
  <2>1. PICK pg \in PageNames : Selects(pg) \/ Pauses(pg)  BY <1>6
  <2>2. UNCHANGED <<pending, buffers, shown, rows>>  BY <2>1 DEF Selects, Pauses
  <2>3. page[pg] \in Page  BY <1>3
  <2>4. page' \in [PageNames -> Page] /\ \A q \in PageNames : page'[q].dev = page[q].dev
    <3>1. CASE Selects(pg)  BY <1>3, <2>3, <3>1 DEF Selects, Page
    <3>2. CASE Pauses(pg)  BY <1>3, <2>3, <3>2 DEF Pauses, Page
    <3> QED  BY <2>1, <3>1, <3>2
  <2>5. chosen' \in {<<>>} \cup (PageNames \X SUBSET PointNames)
    BY <2>1 DEF Selects, Pauses, PagesOK, PagesTyped
  <2>6. PagesTyped'  BY <1>1, <2>2, <2>4, <2>5 DEF PagesOK, PagesTyped
  <2>7. BuffersHold' /\ RowsHold' /\ PendingHold' /\ ShownHold'
    BY <1>1, <2>2, <2>4 DEF PagesOK, BuffersHold, RowsHold, PendingHold, ShownHold, PageNames
  <2> QED  BY <1>2, <2>6, <2>7 DEF PagesOK
<1>7. CASE ClearsChart
  <2>1. /\ buffers' = [s \in Sources |-> Nothing] /\ pending' = [pending EXCEPT !["dash"] = Nothing]
        /\ shown' = [shown EXCEPT !["dash"] = Nothing]
        /\ UNCHANGED <<page, rows, chosen>>
    BY <1>7 DEF ClearsChart
  <2>2. PagesTyped'  BY <1>1, <2>1 DEF PagesOK, PagesTyped, PageNames
  <2>3. BuffersHold' /\ RowsHold'  BY <1>1, <2>1 DEF PagesOK, BuffersHold, RowsHold
  <2>4. PendingHold' /\ ShownHold'
    BY <1>1, <2>1 DEF PagesOK, PagesTyped, PendingHold, ShownHold, PageNames
  <2> QED  BY <1>2, <2>2, <2>3, <2>4 DEF PagesOK
<1> QED  BY <1>4, <1>5, <1>6, <1>7 DEF Gestures

LEMMA PagesStepHolds == PagesOK /\ [PagesStep]_pagesVars => PagesOK'
<1>1. PagesOK /\ UNCHANGED pagesVars => PagesOK'
  BY DEF pagesVars, PagesOK, PagesTyped, BuffersHold, PendingHold, ShownHold, RowsHold, TakenHold
<1> QED  BY <1>1, FeedsHold, TimersHold, GesturesHold DEF PagesStep

LEMMA PagesStart == PagesInit => PagesOK
<1> SUFFICES ASSUME PagesInit PROVE PagesOK  OBVIOUS
<1> USE NothingTyped, NoneFits DEF PagesInit
<1>1. PagesTyped  BY DEF PagesTyped, PageNames, Page, Feeder, FirstPoint
<1>2. BuffersHold /\ PendingHold /\ ShownHold /\ RowsHold /\ TakenHold
  BY DEF BuffersHold, PendingHold, ShownHold, RowsHold, TakenHold
<1> QED  BY <1>1, <1>2 DEF PagesOK

-----------------------------------------------------------------------------
(* The monitor page, and the label of the debug page.                      *)

MonitorOK ==
  /\ configured \subseteq Machines /\ collectors \subseteq Machines
  /\ modeOf \in [Machines -> Modes] /\ picked \in Machines \cup {NoMachine}
  /\ touched \in BOOLEAN
  /\ ButtonsActOnTheShown

LEMMA MonitorStart == MonitorInit => MonitorOK
<1> SUFFICES ASSUME MonitorInit PROVE MonitorOK  OBVIOUS
<1>1. configured = Machines /\ collectors = {} /\ picked = NoMachine /\ info = NoMachine
      /\ modeOf \in [Machines -> Modes] /\ panel.dev = NoMachine
  BY DEF MonitorInit
<1>2. touched \in BOOLEAN  BY DEF MonitorInit
<1> QED  BY <1>1, <1>2 DEF MonitorOK, ButtonsActOnTheShown

\* The page shows the device that is now chosen, and its mode.
LEMMA MonitorShows ==
  ASSUME MonitorOK, UNCHANGED <<configured, collectors, modeOf>>,
         picked' \in Machines \cup {NoMachine}, RefreshMonitor(picked'), SyncModeCombo(picked')
  PROVE  MonitorOK'
<1>1. panel'.dev = picked'  BY DEF RefreshMonitor
<1>2. picked' \in configured' \cup {NoMachine} => info' = picked'  BY DEF RefreshMonitor
<1>3. picked' \in collectors' /\ modeOf'[picked'] \in Offered => modeBox' = modeOf'[picked']
  <2>1. NoMachine \notin collectors'  BY MonitorPageAssumption DEF NoMachine, MonitorOK
  <2> QED  BY <2>1 DEF SyncModeCombo, ModeOf
<1>4. touched' \in BOOLEAN  BY DEF SyncModeCombo, MonitorOK
<1> QED  BY <1>1, <1>2, <1>3, <1>4 DEF MonitorOK, ButtonsActOnTheShown

LEMMA MonitorStepHolds == MonitorOK /\ [MonitorStep]_monitorVars => MonitorOK'
<1> SUFFICES ASSUME MonitorOK, [MonitorStep]_monitorVars PROVE MonitorOK'  OBVIOUS
<1> USE MonitorPageAssumption DEF MonitorOK, ButtonsActOnTheShown, NoMachine
<1>1. CASE TicksMonitor  BY <1>1 DEF TicksMonitor, RefreshMonitor, backend
<1>2. CASE Refills
  <2>1. /\ picked' = IF picked \in configured THEN picked ELSE NoMachine
        /\ UNCHANGED <<configured, collectors, modeOf>>
    BY <1>2 DEF Refills, backend
  <2>2. RefreshMonitor(picked') /\ SyncModeCombo(picked')  BY <1>2 DEF Refills
  <2> QED  BY <2>1, <2>2, MonitorShows
<1>3. ASSUME NEW d \in Machines \cup {NoMachine}, Picks(d) PROVE MonitorOK'
  <2>1. picked' = d /\ UNCHANGED <<configured, collectors, modeOf>>  BY <1>3 DEF Picks, backend
  <2>2. RefreshMonitor(picked') /\ SyncModeCombo(picked')  BY <1>3, <2>1 DEF Picks
  <2> QED  BY <2>1, <2>2, MonitorShows
<1>4. CASE Starts
  <2>1. /\ picked # NoMachine /\ UNCHANGED <<configured, modeOf, picked, modeBox>>
        /\ RefreshMonitor(picked)
    BY <1>4 DEF Starts
  <2>2. CASE /\ picked \in configured /\ collectors' = collectors \cup {picked} /\ touched' = TRUE
    BY <2>1, <2>2 DEF RefreshMonitor
  <2>3. CASE UNCHANGED <<collectors, touched>>
    BY <2>1, <2>3 DEF RefreshMonitor
  <2> QED  BY <1>4, <2>2, <2>3 DEF Starts
<1>5. CASE Stops  BY <1>5 DEF Stops, RefreshMonitor, backend
<1>6. CASE TriggersOnce  BY <1>6 DEF TriggersOnce, RefreshMonitor
<1>7. ASSUME NEW m \in Offered, SwitchesMode(m) PROVE MonitorOK'
  BY <1>7 DEF SwitchesMode, Offered, Modes
<1>8. ASSUME NEW d \in Machines, Collects(d) PROVE MonitorOK'  BY <1>8 DEF Collects
<1>9. ASSUME NEW d \in Machines, Removes(d) PROVE MonitorOK'  BY <1>9 DEF Removes
<1>10. ASSUME NEW d \in Machines, Configures(d) PROVE MonitorOK'  BY <1>10 DEF Configures
<1>11. CASE UNCHANGED monitorVars  BY <1>11 DEF monitorVars, backend
<1> QED
  BY <1>1, <1>2, <1>3, <1>4, <1>5, <1>6, <1>7, <1>8, <1>9, <1>10, <1>11 DEF MonitorStep

\* A client that is not connected has no session: the page cannot have subscribed it.
LabelOK ==
  /\ online \in [Subscribers -> BOOLEAN] /\ session \in [Subscribers -> SUBSET Topics]
  /\ chosenSub \in Subscribers
  /\ \A d \in Subscribers : ~online[d] => session[d] = {}
  /\ LabelIsTrue

LEMMA LabelStart == DebugInit => LabelOK
BY DebugPageAssumption DEF DebugInit, LabelOK, LabelIsTrue, Holders

LEMMA LabelStepHolds == LabelOK /\ [DebugStep]_debugVars => LabelOK'
<1> SUFFICES ASSUME LabelOK, [DebugStep]_debugVars PROVE LabelOK'  OBVIOUS
<1> USE DEF LabelOK, LabelIsTrue, Holders
<1>1. CASE UNCHANGED <<online, session, topics, doubtful>> /\ chosenSub' \in Subscribers
  BY <1>1
<1>2. ASSUME NEW t \in Topics, Subscribes(t) PROVE LabelOK'
  BY <1>2 DEF Subscribes
<1>3. ASSUME NEW t \in Topics, Unsubscribes(t) PROVE LabelOK'
  BY <1>3 DEF Unsubscribes
<1>4. ASSUME NEW d \in Subscribers, SessionEnds(d) PROVE LabelOK'
  BY <1>4 DEF SessionEnds
<1>5. ASSUME NEW d \in Subscribers, ComesBack(d) PROVE LabelOK'
  BY <1>5 DEF ComesBack
<1> QED
  BY <1>1, <1>2, <1>3, <1>4, <1>5 DEF DebugStep, debugVars, wire, Chooses, Hears, HearsGarbage,
     Appends, PausesMessages, ClearsMessages, SwapsLists, WalksList

(* A page shows readings of its device, the buttons act on the device that *)
(* is shown, and the label names what is subscribed to, but for the races  *)
(* the properties name.                                                    *)
THEOREM WhatIsShownIsTrue == ScreensSpec => []ShownIsTrue
<1> DEFINE Inv == PagesOK /\ MonitorOK /\ LabelOK
<1>1. ScreensInit => Inv  BY ScreensStarted, PagesStart, MonitorStart, LabelStart
<1>2. Inv /\ [ScreensNext]_<<view, screens>> => Inv'
  BY ScreensStepped, PagesStepHolds, MonitorStepHolds, LabelStepHolds
<1>3. Inv => ShownIsTrue
  BY DEF ShownIsTrue, PagesOK, ShownHold, RowsHold, Fits, PagesAreOfTheDevice, MonitorOK, LabelOK
<1> QED  BY <1>1, <1>2, <1>3, PTL DEF ScreensSpec

-----------------------------------------------------------------------------
(* Lists without repetition.                                               *)

Distinct(s) == \A i, j \in 1 .. Len(s) : s[i] = s[j] => i = j
Once(s) ==
  /\ s \in Seq(Nat) /\ Distinct(s)
  /\ IsFiniteSet(Items(s)) /\ Cardinality(Items(s)) = Len(s)

LEMMA ItemsOf ==
  ASSUME NEW s \in Seq(Nat)
  PROVE  /\ Len(s) \in Nat /\ DOMAIN s = 1 .. Len(s) /\ \A i \in 1 .. Len(s) : s[i] \in Nat
         /\ \A x : x \in Items(s) <=> \E i \in 1 .. Len(s) : x = s[i]
         /\ InSeq(s) = Items(s) /\ Items(s) \subseteq Nat
<1>1. Len(s) \in Nat /\ DOMAIN s = 1 .. Len(s) /\ \A i \in 1 .. Len(s) : s[i] \in Nat
  BY LenProperties, ElementOfSeq
<1> QED  BY <1>1 DEF Items, InSeq

LEMMA ItemsAppend ==
  ASSUME NEW s \in Seq(Nat), NEW e \in Nat
  PROVE  /\ Append(s, e) \in Seq(Nat) /\ Len(Append(s, e)) = Len(s) + 1
         /\ \A i \in 1 .. Len(s) : Append(s, e)[i] = s[i]
         /\ Append(s, e)[Len(s) + 1] = e
         /\ Items(Append(s, e)) = Items(s) \cup {e}
<1>1. /\ Append(s, e) \in Seq(Nat) /\ Len(Append(s, e)) = Len(s) + 1
      /\ \A i \in 1 .. Len(s) : Append(s, e)[i] = s[i]
      /\ Append(s, e)[Len(s) + 1] = e
  BY AppendProperties
<1>2. Len(s) \in Nat /\ \A x : x \in Items(s) <=> \E i \in 1 .. Len(s) : x = s[i]  BY ItemsOf
<1>3. \A x : x \in Items(Append(s, e)) <=> \E i \in 1 .. Len(s) + 1 : x = Append(s, e)[i]
  <2> DEFINE a == Append(s, e)
  <2>1. a \in Seq(Nat) /\ Len(a) = Len(s) + 1  BY <1>1
  <2> HIDE DEF a
  <2>2. \A x : x \in Items(a) <=> \E i \in 1 .. Len(a) : x = a[i]  BY <2>1, ItemsOf
  <2> QED  BY <2>1, <2>2 DEF a
<1>4. Items(Append(s, e)) \subseteq Items(s) \cup {e}  BY <1>1, <1>2, <1>3
<1>5. Items(s) \cup {e} \subseteq Items(Append(s, e))
  <2>1. e \in Items(Append(s, e))
    <3>1. Len(s) + 1 \in 1 .. Len(s) + 1  BY <1>2
    <3> QED  BY <1>1, <1>3, <3>1
  <2>2. ASSUME NEW x \in Items(s) PROVE x \in Items(Append(s, e))
    <3>1. PICK i \in 1 .. Len(s) : x = s[i]  BY <1>2
    <3>2. i \in 1 .. Len(s) + 1 /\ x = Append(s, e)[i]  BY <1>1, <1>2, <3>1
    <3> QED  BY <1>3, <3>2
  <2> QED  BY <2>1, <2>2
<1> QED  BY <1>1, <1>4, <1>5

LEMMA OnceEmpty == Once(<<>>) /\ Items(<<>>) = {}
<1>1. <<>> \in Seq(Nat) /\ Len(<<>>) = 0  BY EmptySeq
<1>2. Items(<<>>) = {}  BY DEF Items
<1> QED  BY <1>1, <1>2, FS_EmptySet DEF Once, Distinct

LEMMA OnceAppend ==
  ASSUME NEW s, Once(s), NEW e \in Nat, e \notin Items(s)
  PROVE  Once(Append(s, e)) /\ Items(Append(s, e)) = Items(s) \cup {e}
<1>1. /\ Append(s, e) \in Seq(Nat) /\ Len(Append(s, e)) = Len(s) + 1
      /\ \A i \in 1 .. Len(s) : Append(s, e)[i] = s[i]
      /\ Append(s, e)[Len(s) + 1] = e
      /\ Items(Append(s, e)) = Items(s) \cup {e}
  BY ItemsAppend DEF Once
<1>2. Len(s) \in Nat /\ \A i \in 1 .. Len(s) : s[i] # e  BY ItemsOf DEF Once
<1>3. Distinct(Append(s, e))
  <2> SUFFICES ASSUME NEW i \in 1 .. Len(s) + 1, NEW j \in 1 .. Len(s) + 1,
                      Append(s, e)[i] = Append(s, e)[j]
               PROVE  i = j
    BY <1>1 DEF Distinct
  <2>1. (i \in 1 .. Len(s) \/ i = Len(s) + 1) /\ (j \in 1 .. Len(s) \/ j = Len(s) + 1)  BY <1>2
  <2> QED  BY <1>1, <1>2, <2>1 DEF Once, Distinct
<1>4. IsFiniteSet(Items(s) \cup {e}) /\ Cardinality(Items(s) \cup {e}) = Cardinality(Items(s)) + 1
  BY FS_AddElement DEF Once
<1> QED  BY <1>1, <1>3, <1>4 DEF Once

LEMMA OnceTail ==
  ASSUME NEW s, Once(s), s # <<>>
  PROVE  /\ Head(s) \in Items(s) /\ Head(s) \in Nat
         /\ Once(Tail(s)) /\ Items(Tail(s)) = Items(s) \ {Head(s)}
<1>1. s \in Seq(Nat) /\ Len(s) \in Nat /\ Len(s) # 0  BY EmptySeq, ItemsOf DEF Once
<1>2. /\ Head(s) = s[1] /\ Tail(s) \in Seq(Nat) /\ Len(Tail(s)) = Len(s) - 1
      /\ \A i \in 1 .. Len(s) - 1 : Tail(s)[i] = s[i + 1]
  BY <1>1, HeadTailProperties
<1>3. \A x : x \in Items(s) <=> \E i \in 1 .. Len(s) : x = s[i]  BY <1>1, ItemsOf
<1>4. \A x : x \in Items(Tail(s)) <=> \E i \in 1 .. Len(s) - 1 : x = s[i + 1]
  <2> DEFINE a == Tail(s)
  <2>1. a \in Seq(Nat) /\ Len(a) = Len(s) - 1 /\ \A i \in 1 .. Len(s) - 1 : a[i] = s[i + 1]
    BY <1>2
  <2> HIDE DEF a
  <2>2. \A x : x \in Items(a) <=> \E i \in 1 .. Len(a) : x = a[i]  BY <2>1, ItemsOf
  <2> QED  BY <2>1, <2>2 DEF a
<1>5. 1 \in 1 .. Len(s)  BY <1>1
<1>6. Head(s) \in Items(s) /\ Head(s) \in Nat  BY <1>1, <1>2, <1>3, <1>5, ItemsOf
<1>7. Items(Tail(s)) \subseteq Items(s) \ {Head(s)}
  <2> SUFFICES ASSUME NEW i \in 1 .. Len(s) - 1 PROVE s[i + 1] \in Items(s) /\ s[i + 1] # s[1]
    BY <1>2, <1>4
  <2>1. i + 1 \in 1 .. Len(s) /\ i + 1 # 1  BY <1>1
  <2> QED  BY <1>3, <1>5, <2>1 DEF Once, Distinct
<1>8. Items(s) \ {Head(s)} \subseteq Items(Tail(s))
  <2> SUFFICES ASSUME NEW x \in Items(s), x # s[1] PROVE x \in Items(Tail(s))
    BY <1>2
  <2>1. PICK i \in 1 .. Len(s) : x = s[i]  BY <1>3
  <2>2. i - 1 \in 1 .. Len(s) - 1 /\ (i - 1) + 1 = i  BY <1>1, <2>1
  <2> QED  BY <1>4, <2>1, <2>2
<1>9. Distinct(Tail(s))
  <2> SUFFICES ASSUME NEW i \in 1 .. Len(s) - 1, NEW j \in 1 .. Len(s) - 1, s[i + 1] = s[j + 1]
               PROVE  i = j
    BY <1>2 DEF Distinct
  <2>1. i + 1 \in 1 .. Len(s) /\ j + 1 \in 1 .. Len(s)  BY <1>1
  <2> QED  BY <2>1 DEF Once, Distinct
<1>10. /\ IsFiniteSet(Items(s) \ {Head(s)})
       /\ Cardinality(Items(s) \ {Head(s)}) = Cardinality(Items(s)) - 1
  BY <1>6, FS_RemoveElement DEF Once
<1> QED  BY <1>1, <1>2, <1>6, <1>7, <1>8, <1>9, <1>10 DEF Once

-----------------------------------------------------------------------------
(* The messages of the debug page.                                         *)

InHand == {held[d] : d \in Subscribers} \ {0}

DebugTyped ==
  /\ arrived \in Nat /\ held \in [Subscribers -> 0 .. arrived]
  /\ heldList \in [Subscribers -> {"new", "old", "gone"}] /\ walking \in BOOLEAN
  /\ Once(newList) /\ Once(oldList) /\ Once(messages)

\* No thread holds the list that was walked once the walk is over: the next swap loses nothing.
WalkDone == ~walking => oldList = <<>> /\ \A d \in Subscribers : heldList[d] # "old"

\* Each message that arrived is in one place.
HeldOnce == \A d, e \in Subscribers : held[d] = held[e] /\ held[d] # 0 => d = e
NoneMissing ==
  1 .. arrived =
    Items(newList) \cup Items(oldList) \cup Items(messages) \cup InHand \cup lost \cup garbled
      \cup erased
NoneTwice ==
  /\ Items(oldList) \cap Items(newList) = {}
  /\ Items(messages) \cap (Items(newList) \cup Items(oldList)) = {}
  /\ InHand \cap (Items(newList) \cup Items(oldList) \cup Items(messages)) = {}
  /\ lost \cap (Items(newList) \cup Items(oldList) \cup Items(messages) \cup InHand) = {}
  /\ garbled \cap (Items(newList) \cup Items(oldList) \cup Items(messages) \cup InHand \cup lost) = {}
  /\ erased \cap (Items(newList) \cup Items(oldList) \cup Items(messages) \cup InHand \cup lost \cup garbled) = {}

DebugOK == DebugTyped /\ WalkDone /\ HeldOnce /\ NoneMissing /\ NoneTwice

LEMMA HearsHolds == ASSUME DebugOK, NEW d \in Subscribers, Hears(d) PROVE DebugOK'
<1>1. /\ arrived' = arrived + 1 /\ held' = [held EXCEPT ![d] = arrived + 1] /\ held[d] = 0
      /\ heldList' = [heldList EXCEPT ![d] = "new"]
      /\ UNCHANGED <<newList, oldList, walking, messages, lost, garbled, erased>>
  BY DEF Hears
<1>2. arrived \in Nat /\ held \in [Subscribers -> 0 .. arrived]  BY DEF DebugOK, DebugTyped
<1>3. InHand' = InHand \cup {arrived + 1} /\ arrived + 1 \notin InHand
  <2>1. \A e \in Subscribers : held'[e] = IF e = d THEN arrived + 1 ELSE held[e]  BY <1>1, <1>2
  <2>2. \A e \in Subscribers : held[e] # arrived + 1  BY <1>2
  <2> QED  BY <1>1, <1>2, <2>1, <2>2 DEF InHand
<1>4. 1 .. arrived' = (1 .. arrived) \cup {arrived + 1} /\ arrived + 1 \notin 1 .. arrived
  BY <1>1, <1>2
<1>5. DebugTyped'
  <2>1. held' \in [Subscribers -> 0 .. arrived']  BY <1>1, <1>2
  <2> QED  BY <1>1, <1>2, <2>1 DEF DebugOK, DebugTyped
<1>6. WalkDone'  BY <1>1 DEF DebugOK, DebugTyped, WalkDone
<1>7. HeldOnce'
  <2>1. \A e \in Subscribers : held'[e] = IF e = d THEN arrived + 1 ELSE held[e]  BY <1>1, <1>2
  <2>2. \A e \in Subscribers : held[e] # arrived + 1  BY <1>2
  <2> QED  BY <2>1, <2>2 DEF DebugOK, HeldOnce
<1>8. NoneMissing'  BY <1>1, <1>3, <1>4 DEF DebugOK, NoneMissing
<1>9. NoneTwice'
  BY <1>1, <1>3, <1>4 DEF DebugOK, NoneMissing, NoneTwice
<1> QED  BY <1>5, <1>6, <1>7, <1>8, <1>9 DEF DebugOK

LEMMA GarbageHolds == ASSUME DebugOK, NEW d \in Subscribers, HearsGarbage(d) PROVE DebugOK'
<1>1. /\ arrived' = arrived + 1 /\ garbled' = garbled \cup {arrived + 1}
      /\ UNCHANGED <<held, heldList, newList, oldList, walking, messages, lost, erased>>
  BY DEF HearsGarbage
<1>2. arrived \in Nat /\ held \in [Subscribers -> 0 .. arrived]  BY DEF DebugOK, DebugTyped
<1>3. InHand' = InHand /\ 1 .. arrived' = (1 .. arrived) \cup {arrived + 1}
      /\ arrived + 1 \notin 1 .. arrived
  BY <1>1, <1>2 DEF InHand
<1>4. DebugTyped'
  <2>1. held' \in [Subscribers -> 0 .. arrived']  BY <1>1, <1>2
  <2> QED  BY <1>1, <1>2, <2>1 DEF DebugOK, DebugTyped
<1>5. WalkDone' /\ HeldOnce'  BY <1>1 DEF DebugOK, WalkDone, HeldOnce
<1>6. NoneMissing' /\ NoneTwice'
  BY <1>1, <1>3 DEF DebugOK, NoneMissing, NoneTwice
<1> QED  BY <1>4, <1>5, <1>6 DEF DebugOK

LEMMA AppendsHolds == ASSUME DebugOK, NEW d \in Subscribers, Appends(d) PROVE DebugOK'
<1> DEFINE m == held[d]
<1>1. /\ m # 0 /\ held' = [held EXCEPT ![d] = 0]
      /\ UNCHANGED <<arrived, heldList, walking, messages, garbled, erased>>
  BY DEF Appends
<1>2. arrived \in Nat /\ held \in [Subscribers -> 0 .. arrived] /\ m \in Nat
  BY DEF DebugOK, DebugTyped
<1>3. InHand' = InHand \ {m} /\ m \in InHand
  <2>1. \A e \in Subscribers : held'[e] = IF e = d THEN 0 ELSE held[e]  BY <1>1, <1>2
  <2>2. \A e \in Subscribers : e # d => held[e] # m  BY <1>1 DEF DebugOK, HeldOnce
  <2>3. InHand' \subseteq InHand \ {m}  BY <2>1, <2>2 DEF InHand
  <2>4. InHand \ {m} \subseteq InHand'  BY <2>1 DEF InHand
  <2> QED  BY <1>1, <2>3, <2>4 DEF InHand
<1>4. held' \in [Subscribers -> 0 .. arrived]  BY <1>1, <1>2
<1>5. HeldOnce'
  <2>1. \A e \in Subscribers : held'[e] = IF e = d THEN 0 ELSE held[e]  BY <1>1, <1>2
  <2> QED  BY <2>1 DEF DebugOK, HeldOnce
<1>6. m \notin Items(newList) /\ m \notin Items(oldList)
  BY <1>3 DEF DebugOK, NoneTwice
<1>7. heldList[d] \in {"new", "old", "gone"}  BY DEF DebugOK, DebugTyped
<1>8. ~walking => heldList[d] # "old"  BY DEF DebugOK, WalkDone
<1>9. CASE heldList[d] = "new"
  <2>1. newList' = Append(newList, m) /\ UNCHANGED <<oldList, lost>>  BY <1>9 DEF Appends
  <2>2. Once(newList') /\ Items(newList') = Items(newList) \cup {m}
    BY <1>2, <1>6, <2>1, OnceAppend DEF DebugOK, DebugTyped
  <2>3. DebugTyped' /\ WalkDone'
    BY <1>1, <1>4, <2>1, <2>2 DEF DebugOK, DebugTyped, WalkDone
  <2>4. NoneMissing' /\ NoneTwice'
    BY <1>1, <1>3, <2>1, <2>2 DEF DebugOK, NoneMissing, NoneTwice
  <2> QED  BY <1>5, <2>3, <2>4 DEF DebugOK
<1>10. CASE heldList[d] = "old"
  <2>1. oldList' = Append(oldList, m) /\ UNCHANGED <<newList, lost>>  BY <1>10 DEF Appends
  <2>2. Once(oldList') /\ Items(oldList') = Items(oldList) \cup {m}
    BY <1>2, <1>6, <2>1, OnceAppend DEF DebugOK, DebugTyped
  <2>3. DebugTyped' /\ WalkDone'
    BY <1>1, <1>4, <1>8, <1>10, <2>1, <2>2 DEF DebugOK, DebugTyped, WalkDone
  <2>4. NoneMissing' /\ NoneTwice'
    BY <1>1, <1>3, <2>1, <2>2 DEF DebugOK, NoneMissing, NoneTwice
  <2> QED  BY <1>5, <2>3, <2>4 DEF DebugOK
<1>11. CASE heldList[d] = "gone"
  <2>1. lost' = lost \cup {m} /\ UNCHANGED <<newList, oldList>>  BY <1>11 DEF Appends
  <2>2. DebugTyped' /\ WalkDone'  BY <1>1, <1>4, <2>1 DEF DebugOK, DebugTyped, WalkDone
  <2>3. NoneMissing' /\ NoneTwice'
    BY <1>1, <1>3, <2>1 DEF DebugOK, NoneMissing, NoneTwice
  <2> QED  BY <1>5, <2>2, <2>3 DEF DebugOK
<1> QED  BY <1>7, <1>9, <1>10, <1>11

LEMMA SwapHolds == DebugOK /\ SwapsLists => DebugOK'
<1> SUFFICES ASSUME DebugOK, SwapsLists PROVE DebugOK'  OBVIOUS
<1>1. /\ ~walking /\ walking' = TRUE /\ oldList' = newList /\ newList' = <<>>
      /\ heldList' = [d \in Subscribers |-> IF heldList[d] = "new" THEN "old" ELSE heldList[d]]
      /\ UNCHANGED <<arrived, held, messages, lost, garbled, erased>>
  BY DEF SwapsLists
<1>2. oldList = <<>>  BY <1>1 DEF DebugOK, WalkDone
<1>3. Once(newList') /\ Items(newList') = {} /\ Items(oldList) = {}  BY <1>1, <1>2, OnceEmpty
<1>4. heldList' \in [Subscribers -> {"new", "old", "gone"}]  BY <1>1 DEF DebugOK, DebugTyped
<1>5. DebugTyped'  BY <1>1, <1>3, <1>4 DEF DebugOK, DebugTyped
<1>6. WalkDone' /\ HeldOnce'  BY <1>1 DEF DebugOK, WalkDone, HeldOnce
<1>7. InHand' = InHand  BY <1>1 DEF InHand
<1>8. NoneMissing' /\ NoneTwice'  BY <1>1, <1>3, <1>7 DEF DebugOK, NoneMissing, NoneTwice
<1> QED  BY <1>5, <1>6, <1>8 DEF DebugOK

LEMMA WalkHolds == DebugOK /\ WalksList => DebugOK'
<1> SUFFICES ASSUME DebugOK, WalksList PROVE DebugOK'  OBVIOUS
<1>1. walking /\ UNCHANGED <<arrived, held, newList, lost, garbled, erased>>  BY DEF WalksList
<1>2. InHand' = InHand /\ HeldOnce'  BY <1>1 DEF InHand, DebugOK, HeldOnce
<1>3. CASE oldList # <<>>
  <2> DEFINE m == Head(oldList)
  <2>1. /\ messages' = Append(messages, m) /\ oldList' = Tail(oldList)
        /\ UNCHANGED <<heldList, walking>>
    BY <1>3 DEF WalksList
  <2>2. m \in Nat /\ m \in Items(oldList) /\ Once(oldList') /\ Items(oldList') = Items(oldList) \ {m}
    BY <1>3, <2>1, OnceTail DEF DebugOK, DebugTyped
  <2>3. m \notin Items(messages)  BY <2>2 DEF DebugOK, NoneTwice
  <2>4. Once(messages') /\ Items(messages') = Items(messages) \cup {m}
    BY <2>1, <2>2, <2>3, OnceAppend DEF DebugOK, DebugTyped
  <2> HIDE DEF m
  <2>5. DebugTyped' /\ WalkDone'
    BY <1>1, <2>1, <2>2, <2>4 DEF DebugOK, DebugTyped, WalkDone
  <2>6. NoneMissing' /\ NoneTwice'
    BY <1>1, <1>2, <2>2, <2>4 DEF DebugOK, NoneMissing, NoneTwice
  <2> QED  BY <1>2, <2>5, <2>6 DEF DebugOK
<1>4. CASE oldList = <<>>
  <2>1. /\ walking' = FALSE /\ UNCHANGED <<messages, oldList>>
        /\ heldList' = [d \in Subscribers |-> IF heldList[d] = "old" THEN "gone" ELSE heldList[d]]
    BY <1>4 DEF WalksList
  <2>2. heldList' \in [Subscribers -> {"new", "old", "gone"}]  BY <2>1 DEF DebugOK, DebugTyped
  <2>3. DebugTyped' /\ WalkDone'
    BY <1>1, <1>4, <2>1, <2>2 DEF DebugOK, DebugTyped, WalkDone
  <2>4. NoneMissing' /\ NoneTwice'
    BY <1>1, <1>2, <2>1 DEF DebugOK, NoneMissing, NoneTwice
  <2> QED  BY <1>2, <2>3, <2>4 DEF DebugOK
<1> QED  BY <1>3, <1>4

LEMMA DebugStepHolds == DebugOK /\ [DebugStep]_debugVars => DebugOK'
<1> SUFFICES ASSUME DebugOK, [DebugStep]_debugVars PROVE DebugOK'  OBVIOUS
<1>1. CASE UNCHANGED <<lists, lost, garbled, erased>>
  BY <1>1 DEF lists, DebugOK, DebugTyped, WalkDone, HeldOnce, NoneMissing, NoneTwice, InHand
<1>2. CASE ClearsMessages
  <2>1. /\ messages' = <<>> /\ erased' = erased \cup Items(messages)
        /\ UNCHANGED <<arrived, held, heldList, newList, oldList, walking, lost, garbled>>
    BY <1>2 DEF ClearsMessages
  <2>2. Once(messages') /\ Items(messages') = {}  BY <2>1, OnceEmpty
  <2>3. InHand' = InHand  BY <2>1 DEF InHand
  <2>4. DebugTyped' /\ WalkDone' /\ HeldOnce'
    BY <2>1, <2>2 DEF DebugOK, DebugTyped, WalkDone, HeldOnce
  <2>5. NoneMissing' /\ NoneTwice'
    BY <2>1, <2>2, <2>3 DEF DebugOK, NoneMissing, NoneTwice
  <2> QED  BY <2>4, <2>5 DEF DebugOK
<1> QED
  BY <1>1, <1>2, HearsHolds, GarbageHolds, AppendsHolds, SwapHolds, WalkHolds DEF DebugStep, debugVars,
     Chooses, SessionEnds, ComesBack, Subscribes, Unsubscribes, PausesMessages

LEMMA DebugStart == DebugInit => DebugOK
<1> SUFFICES ASSUME DebugInit PROVE DebugOK  OBVIOUS
<1>1. /\ arrived = 0 /\ held = [d \in Subscribers |-> 0] /\ heldList = [d \in Subscribers |-> "new"]
      /\ newList = <<>> /\ oldList = <<>> /\ messages = <<>> /\ lost = {} /\ garbled = {}
      /\ erased = {}
  BY DEF DebugInit
<1>2. walking \in BOOLEAN /\ ~walking  BY DEF DebugInit
<1>3. InHand = {} /\ 1 .. arrived = {}  BY <1>1 DEF InHand
<1>4. DebugTyped /\ WalkDone /\ HeldOnce
  BY <1>1, <1>2, OnceEmpty DEF DebugTyped, WalkDone, HeldOnce
<1>5. NoneMissing /\ NoneTwice  BY <1>1, <1>3, OnceEmpty DEF NoneMissing, NoneTwice
<1> QED  BY <1>4, <1>5 DEF DebugOK

LEMMA MessagesAreOnce == DebugOK => MessagesShownOnce
<1> SUFFICES ASSUME DebugOK PROVE MessagesShownOnce  OBVIOUS
<1> DEFINE parts == <<Items(newList), Items(oldList), Items(messages), InHand, lost, garbled, erased>>
<1>1. DOMAIN parts = 1 .. 7  OBVIOUS
<1>2. UNION {parts[i] : i \in 1 .. 7} =
        Items(newList) \cup Items(oldList) \cup Items(messages) \cup InHand \cup lost
          \cup garbled \cup erased
  OBVIOUS
<1>3. \A i, j \in 1 .. 7 : i # j => parts[i] \cap parts[j] = {}
  <2>1. \A i \in 1 .. 7 : i \in {1, 2, 3, 4, 5, 6, 7}  OBVIOUS
  <2> QED  BY <2>1 DEF DebugOK, NoneTwice
<1>4. \A s \in {newList, oldList, messages} : Cardinality(Items(s)) = Len(s)
  BY DEF DebugOK, DebugTyped, Once
<1> QED  BY <1>1, <1>2, <1>3, <1>4 DEF MessagesShownOnce, InHand, DebugOK, NoneMissing

-----------------------------------------------------------------------------
(* The log.                                                                *)

Logger == [pc : {"idle", "check", "slice", "trim", "file", "list"}, entry : Nat, level : Nat,
           kept : Seq(Nat)]
Entry(t) == logging[t].entry
Busy == {t \in Loggers : ~At(t, "idle")}
AtList == {Entry(t) : t \in {u \in Loggers : At(u, "list")}}
Passed == Items(file) \cup quiet
Unwalked == {list[i] : i \in {j \in DOMAIN list : j > walked}}

LogTyped ==
  /\ logging \in [Loggers -> Logger] /\ made \in Nat
  /\ buffer \in Seq(Nat) /\ list \in Seq(Nat) /\ Once(file) /\ Once(display)
  /\ quiet \subseteq Nat
  /\ flush \in {"none", "walk", "clear"} /\ walked \in 0 .. Len(list)
  /\ flush = "none" => walked = 0

\* Every entry has its own number; the thread that made it takes it past the logger, into the
\* file or not, then to the list.
EntriesOwned ==
  /\ Items(file) \cap quiet = {}
  /\ \A x \in Passed : x <= made
  /\ \A t \in Busy : Entry(t) <= made /\ (Entry(t) \in Passed <=> At(t, "list"))
  /\ \A t, u \in Busy : Entry(t) = Entry(u) => t = u

\* What is handed over is in one place: on the display, still to be walked, wiped, or late.
\* What comes during a walk is late only once the walk has ended.
HandedOnce ==
  /\ Passed \ AtList = Items(display) \cup Unwalked \cup wiped \cup late
  /\ Items(display) \cap (Unwalked \cup wiped \cup late) = {}
  /\ Unwalked \cap wiped = {}
  /\ IF flush = "clear" THEN Unwalked \subseteq late ELSE Unwalked \cap late = {}
UnwalkedDiffer == \A i, j \in walked + 1 .. Len(list) : list[i] = list[j] => i = j

LogOK == LogTyped /\ EntriesOwned /\ HandedOnce /\ UnwalkedDiffer

LEMMA UnwalkedAre ==
  ASSUME NEW s \in Seq(Nat), NEW n \in Nat
  PROVE  \A x : x \in {s[i] : i \in {j \in DOMAIN s : j > n}} <=> \E i \in n + 1 .. Len(s) : x = s[i]
<1>1. DOMAIN s = 1 .. Len(s) /\ Len(s) \in Nat  BY ItemsOf
<1>2. {j \in DOMAIN s : j > n} = n + 1 .. Len(s)  BY <1>1
<1> QED  BY <1>2

\* A thread that cuts the buffer hands nothing over.
LEMMA CutsHold ==
  ASSUME LogOK, NEW t \in Loggers, ChecksLength(t) \/ Slices(t) \/ Trims(t)
  PROVE  LogOK'
<1>1. UNCHANGED <<made, file, quiet, list, flush, walked, display, wiped, late>>
  BY DEF ChecksLength, Slices, Trims
<1>2. logging \in [Loggers -> Logger] /\ logging[t] \in Logger /\ buffer \in Seq(Nat)
  BY DEF LogOK, LogTyped
<1>3. LastOf(buffer, MaxBuffer) \in Seq(Nat)
  <2>1. Len(buffer) \in Nat /\ MaxBuffer \in Nat \ {0} /\ \A i \in 1 .. Len(buffer) : buffer[i] \in Nat
    BY <1>2, ItemsOf, LogPageAssumption
  <2> DEFINE m == IF Len(buffer) > MaxBuffer THEN Len(buffer) - MaxBuffer + 1 ELSE 1
  <2>2. m \in Int /\ \A i \in m .. Len(buffer) : i \in 1 .. Len(buffer)  BY <2>1
  <2> HIDE DEF m
  <2>3. SubSeq(buffer, m, Len(buffer)) \in Seq(Nat)  BY <2>1, <2>2, SubSeqProperties
  <2> QED  BY <2>3 DEF m, LastOf
<1>4. <<>> \in Seq(Nat)  BY EmptySeq
<1>5. /\ logging' \in [Loggers -> Logger] /\ buffer' \in Seq(Nat)
      /\ \A u \in Loggers : logging'[u].entry = logging[u].entry
      /\ \A u \in Loggers : u # t => logging'[u].pc = logging[u].pc
      /\ logging[t].pc \notin {"idle", "list"} /\ logging'[t].pc \notin {"idle", "list"}
  <2>1. CASE ChecksLength(t)
    BY <1>2, <2>1 DEF ChecksLength, LoggerGoes, At, Logger
  <2>2. CASE Slices(t)
    BY <1>2, <1>3, <2>2 DEF Slices, At, Logger
  <2>3. CASE Trims(t)
    BY <1>2, <1>4, <2>3 DEF Trims, At, Logger
  <2> QED  BY <2>1, <2>2, <2>3
<1>6. \A u \in Loggers : (At(u, "idle")' <=> At(u, "idle")) /\ (At(u, "list")' <=> At(u, "list"))
                         /\ Entry(u)' = Entry(u)
  BY <1>5 DEF At, Entry
<1>7. Busy' = Busy /\ AtList' = AtList /\ Unwalked' = Unwalked /\ Passed' = Passed
  BY <1>1, <1>6 DEF Busy, AtList, Unwalked, Passed
<1>8. LogTyped'  BY <1>1, <1>5 DEF LogOK, LogTyped
<1>9. EntriesOwned'  BY <1>1, <1>6, <1>7 DEF LogOK, EntriesOwned, Busy
<1>10. HandedOnce' /\ UnwalkedDiffer'  BY <1>1, <1>7 DEF LogOK, HandedOnce, UnwalkedDiffer
<1> QED  BY <1>8, <1>9, <1>10 DEF LogOK

\* A new entry has the next number.
LEMMA LogsHold == ASSUME LogOK, NEW t \in Loggers, Logs(t) PROVE LogOK'
<1>1. /\ UNCHANGED <<file, quiet, list, flush, walked, display, wiped, late>> /\ made' = made + 1
      /\ At(t, "idle") /\ Passed' = Passed
  BY DEF Logs, Passed
<1>2. logging \in [Loggers -> Logger] /\ logging[t] \in Logger /\ buffer \in Seq(Nat) /\ made \in Nat
  BY DEF LogOK, LogTyped
<1>3. CASE UNCHANGED <<buffer, logging>>
  <2>1. /\ Busy' = Busy /\ AtList' = AtList /\ Unwalked' = Unwalked
        /\ \A u \in Busy : Entry(u)' = Entry(u) /\ Entry(u) \in Nat
        /\ \A u : At(u, "list")' <=> At(u, "list")
    BY <1>1, <1>2, <1>3 DEF Busy, AtList, Unwalked, Entry, At, Logger
  <2>2. LogTyped'  BY <1>1, <1>2, <1>3 DEF LogOK, LogTyped
  <2>3. Passed \subseteq Nat  BY ItemsOf DEF LogOK, LogTyped, Once, Passed
  <2>4. EntriesOwned'  BY <1>1, <1>2, <2>1, <2>3 DEF LogOK, EntriesOwned
  <2>5. HandedOnce' /\ UnwalkedDiffer'  BY <1>1, <2>1 DEF LogOK, HandedOnce, UnwalkedDiffer
  <2> QED  BY <2>2, <2>4, <2>5 DEF LogOK
<1>4. ASSUME NEW level \in Levels, buffer' = Append(buffer, made'),
             logging' = [logging EXCEPT ![t].entry = made', ![t].level = level, ![t].pc = "check"]
      PROVE  LogOK'
  <2>1. logging' \in [Loggers -> Logger]
    <3>1. made + 1 \in Nat  BY <1>2
    <3>2. level \in Nat  BY LogPageAssumption
    <3>3. logging' = [logging EXCEPT ![t] = [logging[t] EXCEPT !.entry = made + 1, !.level = level, !.pc = "check"]]
      BY <1>1, <1>2, <1>4 DEF Logger
    <3>4. [logging[t] EXCEPT !.entry = made + 1, !.level = level, !.pc = "check"] \in Logger
      BY <1>2, <3>1, <3>2 DEF Logger
    <3> QED  BY <1>2, <3>3, <3>4
  <2>2. /\ \A u \in Loggers : u # t => logging'[u] = logging[u]
        /\ logging'[t].entry = made + 1 /\ logging'[t].pc = "check"
    BY <1>1, <1>2, <1>4 DEF Logger
  <2>3. buffer' \in Seq(Nat)
    <3>1. made + 1 \in Nat  BY <1>2
    <3> QED  BY <1>1, <1>2, <1>4, <3>1, AppendProperties
  <2>4. LogTyped'  BY <1>1, <1>2, <2>1, <2>3 DEF LogOK, LogTyped
  <2>5. Busy' = Busy \cup {t} /\ t \notin Busy  BY <1>1, <2>2 DEF Busy, At
  <2>6. AtList' = AtList  BY <1>1, <2>2 DEF AtList, At, Entry
  <2>7. \A u \in Busy : Entry(u)' = Entry(u) /\ Entry(u) \in Nat /\ (At(u, "list")' <=> At(u, "list"))
    BY <1>2, <2>2, <2>5 DEF Busy, Entry, At, Logger
  <2>8. Entry(t)' = made + 1 /\ ~At(t, "list")'  BY <2>2 DEF Entry, At
  <2>9. Passed \subseteq Nat  BY ItemsOf DEF LogOK, LogTyped, Once, Passed
  <2>10. made + 1 \notin Passed /\ \A u \in Busy : Entry(u) # made + 1
    BY <1>2, <2>7, <2>9 DEF LogOK, EntriesOwned
  <2>11. EntriesOwned'
    BY <1>1, <1>2, <2>5, <2>7, <2>8, <2>9, <2>10 DEF LogOK, EntriesOwned
  <2>12. Unwalked' = Unwalked  BY <1>1 DEF Unwalked
  <2>13. HandedOnce' /\ UnwalkedDiffer'
    BY <1>1, <2>6, <2>12 DEF LogOK, HandedOnce, UnwalkedDiffer
  <2> QED  BY <2>4, <2>11, <2>13 DEF LogOK
<1> QED  BY <1>3, <1>4 DEF Logs

\* An entry that passes the logger is not handed over yet.
LEMMA WritesHold == ASSUME LogOK, NEW t \in Loggers, Writes(t) PROVE LogOK'
<1> DEFINE e == Entry(t)
<1>1. /\ At(t, "file") /\ logging' = [logging EXCEPT ![t].pc = "list", ![t].level = 0]
      /\ \/ quiet' = quiet \cup {e} /\ file' = file
         \/ file' = Append(file, e) /\ quiet' = quiet
      /\ UNCHANGED <<made, buffer, list, flush, walked, display, wiped, late>>
  BY DEF Writes, Entry
<1>2. logging \in [Loggers -> Logger] /\ logging[t] \in Logger /\ Once(file) /\ e \in Nat
  BY DEF LogOK, LogTyped, Entry, Logger
<1>3. logging' \in [Loggers -> Logger]  BY <1>1, <1>2 DEF Logger
<1>4. /\ \A u \in Loggers : u # t => logging'[u] = logging[u]
      /\ logging'[t].entry = e /\ logging'[t].pc = "list"
  BY <1>1, <1>2 DEF Logger, Entry
<1>5. Busy' = Busy /\ t \in Busy  BY <1>1, <1>4 DEF Busy, At
<1>6. e \notin Passed  BY <1>1, <1>5 DEF LogOK, EntriesOwned, At
<1>7. /\ Once(file') /\ quiet' \subseteq Nat /\ Passed' = Passed \cup {e}
      /\ Items(file') \cap quiet' = {}
  <2>1. Items(file) \cap quiet = {} /\ quiet \subseteq Nat  BY DEF LogOK, LogTyped, EntriesOwned
  <2>2. CASE quiet' = quiet \cup {e} /\ file' = file
    BY <1>2, <1>6, <2>1, <2>2 DEF Passed
  <2>3. CASE file' = Append(file, e) /\ quiet' = quiet
    <3>1. e \notin Items(file)  BY <1>6 DEF Passed
    <3>2. Once(file') /\ Items(file') = Items(file) \cup {e}  BY <1>2, <2>3, <3>1, OnceAppend
    <3> QED  BY <1>6, <2>1, <2>3, <3>2 DEF Passed
  <2> QED  BY <1>1, <2>2, <2>3
<1>8. AtList' = AtList \cup {e}
  <2>1. \A u \in Loggers : Entry(u)' = Entry(u) /\ (At(u, "list")' <=> At(u, "list") \/ u = t)
    BY <1>1, <1>4 DEF At, Entry
  <2> QED  BY <2>1 DEF AtList
<1>9. LogTyped'  BY <1>1, <1>3, <1>7 DEF LogOK, LogTyped
<1>10. EntriesOwned'
  <2>1. \A u \in Busy : Entry(u)' = Entry(u) /\ (At(u, "list")' <=> At(u, "list") \/ u = t)
    BY <1>1, <1>4 DEF At, Entry, Busy
  <2>2. \A u \in Busy : u # t => Entry(u) # e  BY <1>5 DEF LogOK, EntriesOwned
  <2>3. e <= made  BY <1>5 DEF LogOK, EntriesOwned
  <2> HIDE DEF e
  <2>4. \A u \in Busy : Entry(u) = e <=> u = t  BY <2>2 DEF e
  <2>5. \A x \in Passed' : x <= made  BY <1>7, <2>3 DEF LogOK, EntriesOwned
  <2>6. \A u \in Busy : Entry(u) \in Passed' <=> At(u, "list") \/ u = t
    BY <1>7, <2>4 DEF LogOK, EntriesOwned
  <2> QED  BY <1>1, <1>5, <1>7, <2>1, <2>5, <2>6 DEF LogOK, EntriesOwned
<1>11. Unwalked' = Unwalked  BY <1>1 DEF Unwalked
<1>12. Passed' \ AtList' = Passed \ AtList  BY <1>6, <1>7, <1>8
<1>13. HandedOnce' /\ UnwalkedDiffer'
  BY <1>1, <1>11, <1>12 DEF LogOK, HandedOnce, UnwalkedDiffer
<1> QED  BY <1>9, <1>10, <1>13 DEF LogOK

\* An entry that is handed over is new to the page.
LEMMA ListsHold == ASSUME LogOK, NEW t \in Loggers, Lists(t) PROVE LogOK'
<1> DEFINE e == Entry(t)
<1>1. /\ At(t, "list") /\ list' = Append(list, e)
      /\ late' = IF flush = "clear" THEN late \cup {e} ELSE late
      /\ logging' = [logging EXCEPT ![t].pc = "idle"]
      /\ UNCHANGED <<made, buffer, file, quiet, flush, walked, display, wiped>> /\ Passed' = Passed
  BY DEF Lists, LoggerGoes, Entry, Passed
<1>2. logging \in [Loggers -> Logger] /\ logging[t] \in Logger /\ list \in Seq(Nat) /\ e \in Nat
      /\ walked \in 0 .. Len(list) /\ Len(list) \in Nat
  BY ItemsOf DEF LogOK, LogTyped, Entry, Logger
<1>3. logging' \in [Loggers -> Logger]  BY <1>1, <1>2 DEF Logger
<1>4. /\ \A u \in Loggers : u # t => logging'[u] = logging[u]
      /\ logging'[t].pc = "idle"
  BY <1>1, <1>2 DEF Logger
<1>5. /\ list' \in Seq(Nat) /\ Len(list') = Len(list) + 1
      /\ \A i \in 1 .. Len(list) : list'[i] = list[i]
      /\ list'[Len(list) + 1] = e
  BY <1>1, <1>2, ItemsAppend
<1>6. Busy' = Busy \ {t} /\ t \in Busy  BY <1>1, <1>4 DEF Busy, At
<1>7. \A u \in Busy \ {t} : Entry(u)' = Entry(u) /\ (At(u, "list")' <=> At(u, "list")) /\ Entry(u) # e
  <2>1. \A u \in Busy \ {t} : Entry(u) # e  BY <1>6 DEF LogOK, EntriesOwned
  <2> QED  BY <1>4, <2>1 DEF At, Entry, Busy
<1>8. AtList' = AtList \ {e} /\ e \in AtList
  <2>1. AtList = {Entry(u) : u \in {v \in Busy : At(v, "list")}}  BY DEF AtList, Busy, At
  <2>2. AtList' = {Entry(u)' : u \in {v \in Busy \ {t} : At(v, "list")'}}
    BY <1>6 DEF AtList, Busy, At
  <2>3. AtList' = {Entry(u) : u \in {v \in Busy \ {t} : At(v, "list")}}  BY <1>7, <2>2
  <2>4. e \in AtList  BY <1>1, <1>6, <2>1
  <2> HIDE DEF e
  <2>5. AtList' \subseteq AtList \ {e}  BY <1>7, <2>1, <2>3
  <2>6. AtList \ {e} \subseteq AtList'  BY <2>1, <2>3 DEF e
  <2> QED  BY <2>4, <2>5, <2>6
<1>9. e \in Passed  BY <1>1, <1>6 DEF LogOK, EntriesOwned
<1>10. e \notin Items(display) \cup Unwalked \cup wiped \cup late
  BY <1>8 DEF LogOK, HandedOnce
<1>11. Unwalked' = Unwalked \cup {e}
  <2>1. \A x : x \in Unwalked <=> \E i \in walked + 1 .. Len(list) : x = list[i]
    BY <1>2, UnwalkedAre DEF Unwalked
  <2>2. \A x : x \in Unwalked' <=> \E i \in walked + 1 .. Len(list) + 1 : x = list'[i]
    BY <1>1, <1>2, <1>5, UnwalkedAre DEF Unwalked
  <2> HIDE DEF e
  <2>3. Unwalked' \subseteq Unwalked \cup {e}
    <3> SUFFICES ASSUME NEW i \in walked + 1 .. Len(list) + 1
                 PROVE  list'[i] \in Unwalked \cup {e}
      BY <2>2
    <3>1. CASE i = Len(list) + 1  BY <1>5, <3>1
    <3>2. CASE i # Len(list) + 1
      <4>1. i \in walked + 1 .. Len(list) /\ i \in 1 .. Len(list)  BY <1>2, <3>2
      <4> QED  BY <1>5, <2>1, <4>1
    <3> QED  BY <3>1, <3>2
  <2>4. e \in Unwalked'
    <3>1. Len(list) + 1 \in walked + 1 .. Len(list) + 1  BY <1>2
    <3> QED  BY <1>5, <2>2, <3>1
  <2>5. ASSUME NEW x \in Unwalked PROVE x \in Unwalked'
    <3>1. PICK i \in walked + 1 .. Len(list) : x = list[i]  BY <2>1
    <3>2. i \in walked + 1 .. Len(list) + 1 /\ i \in 1 .. Len(list)  BY <1>2
    <3> QED  BY <1>5, <2>2, <3>1, <3>2
  <2> QED  BY <2>3, <2>4, <2>5
<1>12. LogTyped'
  <2>1. walked' \in 0 .. Len(list')  BY <1>1, <1>2, <1>5
  <2> QED  BY <1>1, <1>3, <1>5, <2>1 DEF LogOK, LogTyped
<1>13. EntriesOwned'  BY <1>1, <1>6, <1>7 DEF LogOK, EntriesOwned
<1>14. HandedOnce'
  <2> HIDE DEF e
  <2> QED  BY <1>1, <1>8, <1>9, <1>10, <1>11 DEF LogOK, HandedOnce
<1>15. UnwalkedDiffer'
  <2>1. \A i \in walked + 1 .. Len(list) : list[i] \in Unwalked /\ list'[i] = list[i]
    <3>1. \A x : x \in Unwalked <=> \E i \in walked + 1 .. Len(list) : x = list[i]
      BY <1>2, UnwalkedAre DEF Unwalked
    <3>2. \A i \in walked + 1 .. Len(list) : i \in 1 .. Len(list)  BY <1>2
    <3> QED  BY <1>5, <3>1, <3>2
  <2>2. \A i \in walked + 1 .. Len(list) : list'[i] # e  BY <1>10, <2>1
  <2> HIDE DEF e
  <2> SUFFICES ASSUME NEW i \in walked + 1 .. Len(list) + 1, NEW j \in walked + 1 .. Len(list) + 1,
                      list'[i] = list'[j]
               PROVE  i = j
    BY <1>1, <1>5 DEF UnwalkedDiffer
  <2>3. /\ i \in walked + 1 .. Len(list) \/ i = Len(list) + 1
        /\ j \in walked + 1 .. Len(list) \/ j = Len(list) + 1
    BY <1>2
  <2> QED  BY <1>5, <2>1, <2>2, <2>3 DEF LogOK, UnwalkedDiffer
<1> QED  BY <1>12, <1>13, <1>14, <1>15 DEF LogOK

\* The Qt thread: a walk shows what is not walked; what is cleared is shown or late.
LEMMA QtHolds == LogOK /\ (Flush \/ ClearsLog) => LogOK'
<1> SUFFICES ASSUME LogOK, Flush \/ ClearsLog PROVE LogOK'  OBVIOUS
<1>1. UNCHANGED <<logging, made, file, quiet, late>> /\ Passed' = Passed
  BY DEF Flush, FlushBegins, FlushWalks, FlushClears, ClearsLog, Passed
<1>2. EntriesOwned' /\ AtList' = AtList
  BY <1>1 DEF LogOK, EntriesOwned, Busy, At, Entry, AtList
<1>3. list \in Seq(Nat) /\ Len(list) \in Nat /\ walked \in 0 .. Len(list) /\ Once(display)
      /\ \A i \in 1 .. Len(list) : list[i] \in Nat
  BY ItemsOf DEF LogOK, LogTyped
<1>4. \A x : x \in Unwalked <=> \E i \in walked + 1 .. Len(list) : x = list[i]
  BY <1>3, UnwalkedAre DEF Unwalked
<1>5. CASE FlushBegins
  <2>1. flush = "none" /\ flush' = "walk" /\ walked' = walked
        /\ UNCHANGED <<buffer, list, display, wiped>>
    BY <1>5 DEF FlushBegins, LogOK, LogTyped
  <2>2. Unwalked' = Unwalked  BY <2>1 DEF Unwalked
  <2>3. LogTyped'  BY <1>1, <2>1 DEF LogOK, LogTyped
  <2>4. HandedOnce' /\ UnwalkedDiffer'
    BY <1>1, <1>2, <2>1, <2>2 DEF LogOK, HandedOnce, UnwalkedDiffer
  <2> QED  BY <1>2, <2>3, <2>4 DEF LogOK
<1>6. CASE FlushWalks /\ walked < Len(list)
  <2> DEFINE e == list[walked + 1]
  <2>1. /\ flush = "walk" /\ display' = Append(display, e) /\ walked' = walked + 1
        /\ UNCHANGED <<flush, buffer, list, wiped>>
    BY <1>6 DEF FlushWalks
  <2>2. walked + 1 \in walked + 1 .. Len(list) /\ walked + 1 \in 1 .. Len(list)  BY <1>3, <1>6
  <2>3. e \in Unwalked /\ e \in Nat  BY <1>3, <1>4, <2>2
  <2>4. e \notin Items(display) /\ e \notin wiped /\ e \notin late
    BY <2>1, <2>3 DEF LogOK, HandedOnce
  <2>5. Once(display') /\ Items(display') = Items(display) \cup {e}
    BY <1>3, <2>1, <2>3, <2>4, OnceAppend
  <2>6. Unwalked' = Unwalked \ {e}
    <3>1. walked + 1 \in Nat  BY <1>3
    <3>2. \A x : x \in Unwalked' <=> \E i \in (walked + 1) + 1 .. Len(list) : x = list[i]
      BY <1>3, <2>1, <3>1, UnwalkedAre DEF Unwalked
    <3>3. \A i \in walked + 1 .. Len(list) : i = walked + 1 \/ i \in (walked + 1) + 1 .. Len(list)
      BY <1>3
    <3>4. \A i \in (walked + 1) + 1 .. Len(list) : i \in walked + 1 .. Len(list) /\ i # walked + 1
      BY <1>3
    <3>5. \A i \in (walked + 1) + 1 .. Len(list) : list[i] # e
      BY <2>2, <3>4 DEF LogOK, UnwalkedDiffer
    <3>6. Unwalked' \subseteq Unwalked \ {e}  BY <1>4, <3>2, <3>4, <3>5
    <3>7. Unwalked \ {e} \subseteq Unwalked'  BY <1>4, <3>2, <3>3
    <3> QED  BY <3>6, <3>7
  <2>7. walked' \in 0 .. Len(list')  BY <1>3, <2>1, <2>2
  <2>8. LogTyped'  BY <1>1, <2>1, <2>5, <2>7 DEF LogOK, LogTyped
  <2>9. UnwalkedDiffer'
    <3>1. \A i \in (walked + 1) + 1 .. Len(list) : i \in walked + 1 .. Len(list)  BY <1>3
    <3> QED  BY <2>1, <3>1 DEF LogOK, UnwalkedDiffer
  <2> HIDE DEF e
  <2>10. HandedOnce'
    BY <1>1, <1>2, <2>1, <2>3, <2>4, <2>5, <2>6 DEF LogOK, HandedOnce
  <2> QED  BY <1>2, <2>8, <2>9, <2>10 DEF LogOK
<1>7. CASE FlushWalks /\ ~(walked < Len(list))
  <2>1. flush' = "clear" /\ UNCHANGED <<buffer, list, walked, display, wiped>>
    BY <1>7 DEF FlushWalks
  <2>2. Unwalked' = Unwalked  BY <2>1 DEF Unwalked
  <2>3. Unwalked = {}
    <3>1. walked + 1 .. Len(list) = {}  BY <1>3, <1>7
    <3> QED  BY <1>4, <3>1
  <2>4. LogTyped'  BY <1>1, <2>1 DEF LogOK, LogTyped
  <2>5. HandedOnce' /\ UnwalkedDiffer'
    BY <1>1, <1>2, <2>1, <2>2, <2>3 DEF LogOK, HandedOnce, UnwalkedDiffer
  <2> QED  BY <1>2, <2>4, <2>5 DEF LogOK
<1>8. CASE FlushClears
  <2>1. /\ flush = "clear" /\ list' = <<>> /\ flush' = "none" /\ walked' = 0
        /\ UNCHANGED <<buffer, display, wiped>>
    BY <1>8 DEF FlushClears
  <2>2. list' \in Seq(Nat) /\ Len(list') = 0  BY <2>1, EmptySeq
  <2>3. walked' \in 0 .. Len(list')  BY <2>1, <2>2
  <2>4. Unwalked' = {} /\ UnwalkedDiffer'
    <3>1. walked' + 1 .. Len(list') = {}  BY <2>1, <2>2
    <3>2. \A x : x \in Unwalked' <=> \E i \in walked' + 1 .. Len(list') : x = list'[i]
      BY <2>1, <2>2, UnwalkedAre DEF Unwalked
    <3> QED  BY <3>1, <3>2 DEF UnwalkedDiffer
  <2>5. Unwalked \subseteq late  BY <2>1 DEF LogOK, HandedOnce
  <2>6. LogTyped'  BY <1>1, <2>1, <2>2, <2>3 DEF LogOK, LogTyped
  <2>7. HandedOnce'
    BY <1>1, <1>2, <2>1, <2>4, <2>5 DEF LogOK, HandedOnce
  <2> QED  BY <1>2, <2>4, <2>6, <2>7 DEF LogOK
<1>9. CASE ClearsLog
  <2>1. /\ flush = "none" /\ display' = <<>> /\ buffer' = <<>> /\ wiped' = wiped \cup InSeq(display)
        /\ UNCHANGED <<list, flush, walked>>
    BY <1>9 DEF ClearsLog, Click
  <2>2. Once(display') /\ Items(display') = {} /\ buffer' \in Seq(Nat)  BY <2>1, OnceEmpty, EmptySeq
  <2>3. Unwalked' = Unwalked  BY <2>1 DEF Unwalked
  <2>4. InSeq(display) = Items(display)  BY <1>3, ItemsOf DEF Once
  <2>5. LogTyped'  BY <1>1, <2>1, <2>2 DEF LogOK, LogTyped
  <2>6. HandedOnce' /\ UnwalkedDiffer'
    BY <1>1, <1>2, <2>1, <2>2, <2>3, <2>4 DEF LogOK, HandedOnce, UnwalkedDiffer
  <2> QED  BY <1>2, <2>5, <2>6 DEF LogOK
<1> QED  BY <1>5, <1>6, <1>7, <1>8, <1>9 DEF Flush

LEMMA LogStutters ==
  LogOK /\ UNCHANGED <<logging, made, buffer, file, quiet, list, flush, walked, display, wiped, late>>
    => LogOK'
<1> SUFFICES ASSUME LogOK,
                    UNCHANGED <<logging, made, buffer, file, quiet, list, flush, walked, display, wiped, late>>
             PROVE  LogOK'
  OBVIOUS
<1>1. Busy' = Busy /\ AtList' = AtList /\ Unwalked' = Unwalked /\ Passed' = Passed
  BY DEF Busy, At, Entry, AtList, Unwalked, Passed
<1>2. LogTyped'  BY DEF LogOK, LogTyped
<1>3. EntriesOwned'  BY <1>1 DEF LogOK, EntriesOwned, At, Entry
<1>4. HandedOnce' /\ UnwalkedDiffer'  BY <1>1 DEF LogOK, HandedOnce, UnwalkedDiffer
<1> QED  BY <1>2, <1>3, <1>4 DEF LogOK

LEMMA LogStepHolds == LogOK /\ [LogStep]_logVars => LogOK'
<1> SUFFICES ASSUME LogOK, [LogStep]_logVars PROVE LogOK'  OBVIOUS
<1>1. CASE UNCHANGED <<logging, made, buffer, file, quiet, list, flush, walked, display, wiped, late>>
  BY <1>1, LogStutters
<1>2. ASSUME NEW t \in Loggers, Logging(t) PROVE LogOK'
  BY <1>2, CutsHold, LogsHold, WritesHold, ListsHold DEF Logging
<1> QED
  BY <1>1, <1>2, QtHolds DEF LogStep, logVars, PausesLog, AppliesFilter,
     SetsLogLevel

LEMMA LogStart == LogInit => LogOK
<1> SUFFICES ASSUME LogInit PROVE LogOK  OBVIOUS
<1>1. /\ logging = [t \in Loggers |-> [pc |-> "idle", entry |-> 0, level |-> 0, kept |-> <<>>]]
      /\ made = 0 /\ buffer = <<>> /\ file = <<>> /\ list = <<>> /\ flush = "none" /\ walked = 0
      /\ display = <<>> /\ wiped = {} /\ late = {} /\ quiet = {}
  BY DEF LogInit
<1>2. <<>> \in Seq(Nat) /\ Len(<<>>) = 0 /\ Once(<<>>) /\ Items(<<>>) = {}
  BY EmptySeq, OnceEmpty
<1>3. logging \in [Loggers -> Logger]  BY <1>1, <1>2 DEF Logger
<1>4. LogTyped  BY <1>1, <1>2, <1>3 DEF LogTyped
<1>5. Busy = {} /\ AtList = {} /\ Passed = {}  BY <1>1, <1>2 DEF Busy, AtList, At, Passed
<1>6. 0 + 1 .. 0 = {}  OBVIOUS
<1>7. Unwalked = {}  BY <1>1 DEF Unwalked
<1>8. UnwalkedDiffer  BY <1>1, <1>2, <1>6 DEF UnwalkedDiffer
<1>9. EntriesOwned /\ HandedOnce  BY <1>1, <1>2, <1>5, <1>7 DEF EntriesOwned, HandedOnce
<1> QED  BY <1>4, <1>8, <1>9 DEF LogOK

LEMMA EntriesAreOnce == LogOK => EntriesShownOnce
<1> SUFFICES ASSUME LogOK PROVE EntriesShownOnce  OBVIOUS
<1>1. InSeq(file) = Items(file) /\ InSeq(display) = Items(display)
  BY ItemsOf DEF LogOK, LogTyped, Once
<1>2. /\ Cardinality(Items(display)) = Len(display) /\ Cardinality(Items(file)) = Len(file)
      /\ Items(file) \cap quiet = {}
  BY DEF LogOK, LogTyped, EntriesOwned, Once
<1>3. {logging[t].entry : t \in {u \in Loggers : At(u, "list")}} = AtList  BY DEF AtList, Entry
<1> QED  BY <1>1, <1>2, <1>3 DEF EntriesShownOnce, LogOK, HandedOnce, Unwalked, Passed

(* An entry of the log and a message of the debug page are shown once, or  *)
(* wait, or are missing for a reason the properties name.                  *)
THEOREM EntriesAndMessagesShownOnce == ScreensSpec => []ShownOnceOrLate
<1> DEFINE Inv == LogOK /\ DebugOK
<1>1. ScreensInit => Inv  BY ScreensStarted, LogStart, DebugStart
<1>2. Inv /\ [ScreensNext]_<<view, screens>> => Inv'
  BY ScreensStepped, LogStepHolds, DebugStepHolds
<1>3. Inv => ShownOnceOrLate  BY EntriesAreOnce, MessagesAreOnce DEF ShownOnceOrLate
<1> QED  BY <1>1, <1>2, <1>3, PTL DEF ScreensSpec
=============================================================================
