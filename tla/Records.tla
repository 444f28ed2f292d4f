------------------------------- MODULE Records -------------------------------
(***************************************************************************)
(* The history of readings: table data_records of                          *)
(* core/storage/database.py and the page that shows it,                    *)
(* ui/pages/data_page.py.                                                  *)
(*                                                                         *)
(* Collectors insert from their threads and a maintenance thread deletes   *)
(* what is past its retention, while the Qt thread pages through what      *)
(* matches a filter.  A page takes two statements, the rows and their      *)
(* number, each with a state of the table of its own.                      *)
(***************************************************************************)
EXTENDS Integers, FiniteSets

CONSTANTS
  Devices,
  Retention,    \* data_retention_days, in ticks of the clock
  PageSizes,    \* the sizes of a page the user may choose
  StartTimes,   \* the start and end times the user may choose
  EndTimes,
  MaxRecords,   \* bound: records inserted
  MaxTime,      \* bound of the clock
  MaxEdits      \* bound: changes of the filter, the page size, and clearings

ASSUME RecordsAssumption ==
  /\ {Retention, MaxRecords, MaxTime, MaxEdits} \subseteq Nat
  /\ PageSizes \subseteq Nat \ {0} /\ PageSizes # {}
  /\ StartTimes \cup EndTimes \subseteq 0 .. MaxTime

All == "all"

VARIABLES
  clock,
  records,    \* data_records
  inserted,   \* history: every record ever inserted; its size is AUTOINCREMENT
  cutoff,     \* the cutoff the maintenance thread has computed, -1 for none
  filter,     \* the widgets of the page: a device or all (point, status and alarm do the same), times;
              \* and the order in which the statement made of it gives records of one second
  pageNo,     \* _page, from 0
  size,       \* the page size
  total,      \* _total_count
  listed,     \* the rows in the table of the page
  query,      \* how far _query_data has come: "done" or "count"
  edits,      \* bound: edits so far
  cleared,    \* history: the latest end time up to which the user has cleared
  sought,     \* history: what matched when page 0 was shown last
  seen,       \* history: what has been shown since
  edited,     \* history: the filter was edited since then
  shrunk      \* history: records were deleted since then

pageVars == <<pageNo, size, total, listed, query, sought, seen, edited, shrunk>>
recordsVars == <<clock, records, inserted, cutoff, filter, pageVars, edits, cleared>>

-----------------------------------------------------------------------------
\* query_data_filtered and count_data_filtered: the condition, and the order.
Matches(r) ==
  /\ filter.device \in {All, r.device}
  /\ filter.from <= r.at /\ r.at <= filter.until
Matching(rs) == {r \in rs : Matches(r)}

\* ORDER BY timestamp says nothing of records of one second: the plan of the statement does,
\* from an index on the time the newest first, after a sort the oldest.
Ties(r, s) == IF filter.ties = "newest" THEN r.id > s.id ELSE r.id < s.id

\* Mutant: ORDER BY timestamp without DESC.
LaterAscending(r, s) == r.at < s.at \/ (r.at = s.at /\ Ties(r, s))
Later(r, s) == r.at > s.at \/ (r.at = s.at /\ Ties(r, s))

\* LIMIT n OFFSET p * n: the rows that have so many later ones before them.
Before(rs, r) == {s \in Matching(rs) : Later(s, r)}
Rows(rs, p, n) == {r \in Matching(rs) : Cardinality(Before(rs, r)) \in p * n .. (p + 1) * n - 1}

LastPage == (pageNo + 1) * size >= total

-----------------------------------------------------------------------------
\* A row: its id comes from AUTOINCREMENT.
NewRecord(d, at) == [id |-> Cardinality(inserted) + 1, device |-> d, at |-> at]

\* insert_data, from on_data: the reading was taken a little before it is inserted.
Insert ==
  /\ Cardinality(inserted) < MaxRecords
  /\ \E d \in Devices, age \in 0 .. 1 :
       LET r == NewRecord(d, clock - age)
       IN /\ age <= clock
          /\ records' = records \cup {r} /\ inserted' = inserted \cup {r}
  /\ UNCHANGED <<clock, cutoff, filter, pageVars, edits, cleared>>

Tick ==
  /\ clock < MaxTime /\ clock' = clock + 1
  /\ UNCHANGED <<records, inserted, cutoff, filter, pageVars, edits, cleared>>

\* delete_old_data.
Deleted(before) == records' = {r \in records : r.at >= before}

\* _maintenance_loop: the cutoff is computed, then used.
KeeperLooks ==
  /\ cutoff = -1 /\ clock >= Retention /\ cutoff' = clock - Retention
  /\ UNCHANGED <<clock, records, inserted, filter, pageVars, edits, cleared>>
KeeperDeletes ==
  /\ cutoff # -1 /\ cutoff' = -1
  /\ Deleted(cutoff)
  /\ shrunk' = (shrunk \/ records' # records)
  /\ UNCHANGED <<clock, inserted, filter, pageNo, size, total, listed, query, sought, seen, edited, edits, cleared>>

\* _query_data: the rows, then their number.
Shows(rs, p, n) ==
  /\ pageNo' = p /\ size' = n
  /\ listed' = Rows(rs, p, n)
  /\ IF p = 0 THEN /\ sought' = Matching(rs) /\ seen' = listed'
                   /\ edited' = FALSE /\ shrunk' = FALSE
     ELSE seen' = seen \cup listed' /\ UNCHANGED <<sought, edited, shrunk>>
  /\ query' = "count"
  /\ UNCHANGED <<filter, total>>

Counts ==
  /\ query = "count" /\ query' = "done"
  /\ total' = Cardinality(Matching(records))
  /\ UNCHANGED <<clock, records, inserted, cutoff, filter, pageNo, size, listed, sought, seen, edited, shrunk, edits, cleared>>

\* The Qt thread runs one slot at a time: the user's next click waits for the page.
Clicks == query = "done" /\ UNCHANGED <<clock, inserted, cutoff>>
Edits == edits < MaxEdits /\ edits' = edits + 1

\* The widgets take a new filter; the page asks the database when told to.
EditFilter ==
  /\ Clicks /\ Edits
  /\ filter' \in [device : Devices \cup {All}, from : StartTimes, until : EndTimes,
                  ties : {"newest", "oldest"}] \ {filter}
  /\ edited' = TRUE
  /\ UNCHANGED <<records, pageNo, size, total, listed, query, sought, seen, shrunk, cleared>>

\* The query button asks for the page the user was on.
PressQuery == Clicks /\ Shows(records, pageNo, size) /\ UNCHANGED <<records, edits, cleared>>
PrevPage == Clicks /\ pageNo > 0 /\ Shows(records, pageNo - 1, size) /\ UNCHANGED <<records, edits, cleared>>
NextPage == Clicks /\ ~LastPage /\ Shows(records, pageNo + 1, size) /\ UNCHANGED <<records, edits, cleared>>

\* _on_page_size_changed.
ChangeSize ==
  /\ Clicks /\ Edits
  /\ \E n \in PageSizes \ {size} : Shows(records, 0, n)
  /\ UNCHANGED <<records, cleared>>

\* _clear_old_data: every record before the end time, whatever its device and whether it
\* is after the start time.
ClearData ==
  /\ Clicks /\ Edits
  /\ Deleted(filter.until)
  /\ cleared' = IF filter.until > cleared THEN filter.until ELSE cleared
  /\ Shows(records', 0, size)

RecordsInit ==
  /\ clock = 0 /\ records = {} /\ inserted = {} /\ cutoff = -1
  /\ filter = [device |-> All, from |-> 0, until |-> MaxTime, ties |-> "newest"]
  /\ size \in PageSizes
  /\ pageNo = 0 /\ total = 0 /\ listed = {} /\ query = "done"
  /\ edits = 0 /\ cleared = 0 /\ sought = {} /\ seen = {} /\ edited = FALSE /\ shrunk = FALSE

RecordsStep ==
  \/ Insert \/ Tick \/ KeeperLooks \/ KeeperDeletes
  \/ Counts
  \/ EditFilter \/ PressQuery \/ PrevPage \/ NextPage \/ ChangeSize \/ ClearData

-----------------------------------------------------------------------------
RecordsSpec == RecordsInit /\ [][RecordsStep]_recordsVars

\* A record is gone only when it is older than the retention, or than the end time of a
\* clearing: the cutoff the maintenance thread holds while other records come in, and while
\* the clock goes on, never reaches into what is to be kept (database.py:324, :354).  What the
\* user agreed to in the clearing is less: see ClearsWhatIsFiltered.
KeptForTheRetention ==
  \A r \in inserted \ records : r.at < clock - Retention \/ r.at < cleared

\* A user who pages from the first page to the last has been shown every record that matched
\* at the start and is still there, whatever is inserted and expires in between: the offsets
\* of the pages (data_page.py:162) are sound because what is inserted comes first and what
\* expires goes last.
PagingMissesNothing ==
  query = "done" /\ LastPage /\ ~edited => sought \cap records \subseteq seen

\* The page shown exists: it has rows, or it is the first one, unless the filter was edited or
\* records deleted since the user was on page 0 (data_page.py:140-153): the number of pages is
\* counted after the rows are read and the page turned before they are.
PageExists ==
  query = "done" => pageNo = 0 \/ pageNo * size < total \/ edited \/ shrunk

\* What the dialog of the clearing asks the user to confirm: that the data under the current
\* filter are deleted (data_page.py:240), and no others.  The code deletes by the end time alone.
ClearsWhatIsFiltered == [][ClearData => records \ records' \subseteq Matching(records)]_recordsVars

\* The history is kept whole, shown whole, and shown where it is.
HistoryIsWhole == KeptForTheRetention /\ PagingMissesNothing /\ PageExists

=============================================================================
