------------------------------- MODULE LogPage -------------------------------
(***************************************************************************)
(* The log: LogManager of utils/logger.py and ui/pages/log_page.py.        *)
(*                                                                         *)
(* Every thread of the gateway logs.  What passes the page's pause and     *)
(* filter goes to a bounded buffer, to the file if its level is that of    *)
(* the logger or above, and to the page's list, whatever its level.  A     *)
(* timer of the Qt thread walks through the list and then clears it.       *)
(***************************************************************************)
EXTENDS Integers, Sequences, FiniteSets

CONSTANTS
  Loggers,    \* threads that log
  Levels,     \* levels of entries, by their numbers
  MaxBuffer,  \* MAX_BUFFER_SIZE
  MaxEntries, \* bound: entries logged
  MaxClicks   \* bound: what the user does on the page

ASSUME LogPageAssumption ==
  /\ {MaxEntries, MaxClicks} \subseteq Nat /\ {MaxBuffer} \cup Levels \subseteq Nat \ {0}

AnyLevel == 0
InfoLevel == 20

VARIABLES
  logging,  \* of each thread: [pc, entry, level, kept (the slice of the buffer it has made)]
  made,     \* number of entries made so far, which numbers them
  paused,   \* LogManager._paused
  wanted,   \* _filters['level']
  least,    \* the level of the logger, below which nothing is written
  buffer,   \* _log_buffer
  file,     \* gateway.log
  list,     \* _pending_logs of the page
  flush,    \* _flush_logs: "none", "walk" or "clear"
  walked,   \* how far it has come in the list
  display,  \* _log_display
  clicks,   \* bound: clicks so far
  wiped,    \* history: entries the user has cleared from the display
  late,     \* history: entries put in the list between the walk's end and clear()
  quiet     \* history: entries below the level of the logger when they were to be written

logVars == <<logging, made, paused, wanted, least, quiet, buffer, file, list, flush, walked, display, clicks, wiped, late>>

InSeq(s) == {s[i] : i \in DOMAIN s}
At(t, pc) == logging[t].pc = pc
LoggerGoes(t, pc) == logging' = [logging EXCEPT ![t].pc = pc]

-----------------------------------------------------------------------------
\* log(): pause and filter, then the entry is appended to the buffer;
Logs(t) ==
  /\ At(t, "idle") /\ made < MaxEntries
  /\ made' = made + 1
  /\ \E level \in Levels :
       IF paused \/ wanted \notin {AnyLevel, level} THEN UNCHANGED <<buffer, logging>>
       ELSE /\ buffer' = Append(buffer, made')
            /\ logging' = [logging EXCEPT ![t].entry = made', ![t].level = level, ![t].pc = "check"]
  /\ UNCHANGED <<least, quiet, paused, wanted, file, list, flush, walked, display, clicks, wiped, late>>

\* a buffer that is too long is cut, and put in place of what it has become meanwhile;
ChecksLength(t) ==
  /\ At(t, "check") /\ LoggerGoes(t, IF Len(buffer) > MaxBuffer THEN "slice" ELSE "file")
  /\ UNCHANGED <<least, quiet, made, paused, wanted, buffer, file, list, flush, walked, display, clicks, wiped, late>>
LastOf(s, n) == SubSeq(s, IF Len(s) > n THEN Len(s) - n + 1 ELSE 1, Len(s))
Slices(t) ==
  /\ At(t, "slice")
  /\ logging' = [logging EXCEPT ![t].pc = "trim", ![t].kept = LastOf(buffer, MaxBuffer)]
  /\ UNCHANGED <<least, quiet, made, paused, wanted, buffer, file, list, flush, walked, display, clicks, wiped, late>>
Trims(t) ==
  /\ At(t, "trim")
  /\ buffer' = logging[t].kept
  /\ logging' = [logging EXCEPT ![t].pc = "file", ![t].kept = <<>>]
  /\ UNCHANGED <<least, quiet, made, paused, wanted, file, list, flush, walked, display, clicks, wiped, late>>

\* then the logger writes it, or does not, and it is handed to the callback of the page.
Writes(t) ==
  /\ At(t, "file")
  /\ IF logging[t].level < least
     THEN quiet' = quiet \cup {logging[t].entry} /\ UNCHANGED file
     ELSE file' = Append(file, logging[t].entry) /\ UNCHANGED quiet
  /\ logging' = [logging EXCEPT ![t].pc = "list", ![t].level = 0]
  /\ UNCHANGED <<made, paused, wanted, least, buffer, list, flush, walked, display, clicks, wiped, late>>
Lists(t) ==
  /\ At(t, "list") /\ list' = Append(list, logging[t].entry)
  /\ late' = IF flush = "clear" THEN late \cup {logging[t].entry} ELSE late
  /\ LoggerGoes(t, "idle")
  /\ UNCHANGED <<least, quiet, made, paused, wanted, buffer, file, flush, walked, display, clicks, wiped>>

-----------------------------------------------------------------------------
\* _flush_logs: entries that come during the walk are walked through too, until it ends; what
\* comes between its end and clear() is thrown away with the rest.
FlushBegins ==
  /\ flush = "none" /\ list # <<>> /\ flush' = "walk" /\ walked' = 0
  /\ UNCHANGED <<least, quiet, logging, made, paused, wanted, buffer, file, list, display, clicks, wiped, late>>
FlushWalks ==
  /\ flush = "walk"
  /\ IF walked < Len(list)
     THEN display' = Append(display, list[walked + 1]) /\ walked' = walked + 1 /\ UNCHANGED flush
     ELSE flush' = "clear" /\ UNCHANGED <<display, walked>>
  /\ UNCHANGED <<least, quiet, logging, made, paused, wanted, buffer, file, list, clicks, wiped, late>>
\* Mutant: only the first entry is taken out.
FlushClearsHead ==
  /\ flush = "clear" /\ list' = Tail(list) /\ flush' = "none" /\ walked' = 0
  /\ UNCHANGED <<least, quiet, logging, made, paused, wanted, buffer, file, display, clicks, wiped, late>>
FlushClears ==
  /\ flush = "clear" /\ list' = <<>> /\ flush' = "none" /\ walked' = 0
  /\ UNCHANGED <<least, quiet, logging, made, paused, wanted, buffer, file, display, clicks, wiped, late>>
Flush == FlushBegins \/ FlushWalks \/ FlushClears

\* The user: the slots of the page run between two flushes, on the same thread.
Click == flush = "none" /\ clicks < MaxClicks /\ clicks' = clicks + 1

\* _toggle_pause and _apply_filter act on the manager: the file stops with the page.
PausesLog ==
  /\ Click /\ paused' = ~paused
  /\ UNCHANGED <<least, quiet, logging, made, wanted, buffer, file, list, flush, walked, display, wiped, late>>
AppliesFilter ==
  /\ Click /\ wanted' \in (Levels \cup {AnyLevel}) \ {wanted}
  /\ UNCHANGED <<least, quiet, logging, made, paused, buffer, file, list, flush, walked, display, wiped, late>>
\* The settings page sets the level of the logger.
SetsLogLevel ==
  /\ Click /\ least' \in Levels \ {least}
  /\ UNCHANGED <<quiet, logging, made, paused, wanted, buffer, file, list, flush, walked, display, wiped, late>>
\* _clear_logs: the display and the buffer, not the list.
ClearsLog ==
  /\ Click /\ display' = <<>> /\ buffer' = <<>>
  /\ wiped' = wiped \cup InSeq(display)
  /\ UNCHANGED <<least, quiet, logging, made, paused, wanted, file, list, flush, walked, late>>

LogInit ==
  /\ logging = [t \in Loggers |-> [pc |-> "idle", entry |-> 0, level |-> 0, kept |-> <<>>]]
  /\ made = 0 /\ paused = FALSE /\ wanted = AnyLevel /\ least = InfoLevel /\ quiet = {}
  /\ buffer = <<>> /\ file = <<>> /\ list = <<>> /\ flush = "none" /\ walked = 0 /\ display = <<>>
  /\ clicks = 0 /\ wiped = {} /\ late = {}

Logging(t) == Logs(t) \/ ChecksLength(t) \/ Slices(t) \/ Trims(t) \/ Writes(t) \/ Lists(t)
LogStep == (\E t \in Loggers : Logging(t)) \/ Flush \/ PausesLog \/ AppliesFilter \/ SetsLogLevel \/ ClearsLog

-----------------------------------------------------------------------------
\* Every entry that passes pause and filter is shown on the page once, waits for the timer, or
\* was cleared by the user; it is missing only when it came between the end of a walk and
\* clear() (log_page.py:83-101).  It is in the file too, once, unless its level was below the
\* logger's as it was to be written: the page is handed those as well (logger.py:128, :138).
EntriesShownOnce ==
  LET handed == (InSeq(file) \cup quiet) \ {logging[t].entry : t \in {u \in Loggers : At(u, "list")}}
      unwalked == {list[i] : i \in {j \in DOMAIN list : j > walked}}
  IN /\ handed = InSeq(display) \cup unwalked \cup wiped \cup late
     /\ Cardinality(InSeq(display)) = Len(display) /\ Cardinality(InSeq(file)) = Len(file)
     /\ InSeq(display) \cap (unwalked \cup wiped \cup late) = {} /\ InSeq(file) \cap quiet = {}

=============================================================================
