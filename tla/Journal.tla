-------------------------------- MODULE Journal --------------------------------
(***************************************************************************)
(* The journal for the user (gatewayd/src/journal.rs) and those who append *)
(* to it: main(), which records the agents it does not serve, and then the *)
(* health monitor it starts (gatewayd/src/health.rs).  Each awaits the     *)
(* answer of the writer task, which owns the table, before it goes on.     *)
(*                                                                         *)
(* The table outlives the gateway.  The wall clock may be set back.  As in *)
(* EventLog a row takes one page, and page_count never shrinks, for        *)
(* nothing runs a VACUUM.  What an event says, its level too, is left out. *)
(***************************************************************************)
EXTENDS Naturals, Sequences, FiniteSetsExt

CONSTANTS
  Retention,    \* retention_days in ticks of the clock; 0 = keep for good
  SizeLimit,    \* max_size_mb as a number of pages; 0 = no limit
  Batch,        \* rows a clean-up by size deletes: max_size_mb, at most 100000
  WarnAt,       \* db_size_warn_pct as a number of pages; 0 = no alerts
  Excluded,     \* how many agents the approvals keep from being served
  MaxTime,      \* bound of the model: the clock
  MaxEvents     \* bound of the model: appends

ASSUME JournalAssumption ==
  /\ Retention \in Nat /\ SizeLimit \in Nat /\ WarnAt \in Nat
  /\ Excluded \in Nat /\ MaxTime \in Nat /\ MaxEvents \in Nat
  /\ Batch \in Nat \ {0}

VARIABLES
  events,       \* the rows of journal_events
  lastId,       \* sqlite_sequence: the largest id ever given (AUTOINCREMENT)
  dbPages,      \* page_count
  filePages,    \* what of them is in the file, the rest being in its WAL
  clock,        \* now_unix()
  mainPc,       \* main(): down, recording an exclusion, awaiting the answer, up
  toNote,       \* exclusions main() has still to record
  monitorPc,    \* the monitor: off, asleep, reporting, awaiting the answer
  report,       \* events it has still to append: alerts and the summary
  stamps,       \* history: the ts of every event ever appended, by id
  latest,       \* history: the latest reading of the clock
  told          \* history: the seqs append has returned

journalVars == <<events, lastId, dbPages, filePages, clock, mainPc, toNote,
                 monitorPc, report, stamps, latest, told>>

table == <<events, lastId, dbPages, stamps, told>>
time == <<clock, latest>>

Event == [id : Nat \ {0}, ts : Nat]

JournalInit ==
  /\ events = {}
  /\ lastId = 0
  /\ dbPages = 0
  /\ filePages = 0
  /\ clock = Retention
  /\ mainPc = "down"
  /\ toNote = 0
  /\ monitorPc = "off"
  /\ report = 0
  /\ stamps = <<>>
  /\ latest = Retention
  /\ told = <<>>

-----------------------------------------------------------------------------
(* The writer                                                                *)

(* What DELETE ... WHERE ts < cutoff takes.                                  *)
Expired(e) == Retention > 0 /\ e.ts + Retention < clock

Oversized(pages) == SizeLimit > 0 /\ pages > SizeLimit

(* What DELETE ... WHERE id IN (SELECT id ... ORDER BY id LIMIT n) takes.    *)
NewestOf(T) == {e \in T : Cardinality({f \in T : f.id > e.id}) < Batch}
OldestOf(T) == {e \in T : Cardinality({f \in T : f.id < e.id}) < Batch}

(* What cleanup may leave of table T.  Either statement may fail, which is   *)
(* only logged.                                                              *)
CleanedUp(T, pages) == UNION {
  IF Oversized(pages) THEN {U, U \ OldestOf(U)} ELSE {U} :
  U \in {T, {e \in T : ~Expired(e)}}}

(* SELECT COALESCE(MAX(id), 0)                                               *)
MaxId(T) == IF T = {} THEN 0 ELSE Max({e.id : e \in T})

(* AUTOINCREMENT, and what the id would be without it.                       *)
NextRowId == MaxId(events) + 1
NextId == lastId + 1

(* The INSERT of an append and the clean-up after it.                        *)
Insert ==
  LET all == events \union {[id |-> NextId, ts |-> clock]}
      pages == Max({dbPages, Cardinality(all)})
  IN  /\ events' \in CleanedUp(all, pages)
      /\ dbPages' = pages
      /\ lastId' = NextId
      /\ stamps' = Append(stamps, clock)

(* do_append, answered with the seq last_seq reads, which is not that of the *)
(* event when the clean-up took it; an error when that SELECT or the INSERT  *)
(* fails.                                                                    *)
Appended == Insert /\ told' = Append(told, MaxId(events'))
AppendFails ==
  \/ UNCHANGED table
  \/ Insert /\ UNCHANGED told

-----------------------------------------------------------------------------
(* main(): opens the journal, which cleans it up, and records the exclusions *)

StartUp ==
  /\ mainPc = "down"
  /\ Len(stamps) + Excluded <= MaxEvents
  /\ events' \in CleanedUp(events, dbPages)
  /\ mainPc' = "note"
  /\ toNote' = Excluded
  /\ UNCHANGED <<lastId, dbPages, filePages, monitorPc, report, stamps, told, time>>

Note ==
  /\ mainPc = "note"
  /\ toNote > 0
  /\ mainPc' = "wait"
  /\ UNCHANGED <<table, filePages, toNote, monitorPc, report, time>>

Noted ==
  /\ mainPc = "wait"
  /\ Appended
  /\ mainPc' = "note"
  /\ toNote' = toNote - 1
  /\ UNCHANGED <<filePages, monitorPc, report, time>>

(* The ? of main(): the gateway exits.                                       *)
NoteFails ==
  /\ mainPc = "wait"
  /\ AppendFails
  /\ mainPc' = "down"
  /\ toNote' = 0
  /\ UNCHANGED <<filePages, monitorPc, report, time>>

StartMonitor ==
  /\ mainPc = "note"
  /\ toNote = 0
  /\ mainPc' = "up"
  /\ monitorPc' = "asleep"
  /\ UNCHANGED <<table, filePages, toNote, report, time>>

(* The gateway dies or is stopped, a command under way or not executed.      *)
Die ==
  /\ mainPc # "down"
  /\ mainPc' = "down"
  /\ toNote' = 0
  /\ monitorPc' = "off"
  /\ report' = 0
  /\ UNCHANGED <<table, filePages, time>>

-----------------------------------------------------------------------------
(* The health monitor                                                        *)

(* alerts_from_snapshot for the journal's own file: an error or a warning.   *)
Alerts ==
  IF WarnAt > 0 /\ SizeLimit > 0 /\ (filePages >= WarnAt \/ filePages >= SizeLimit)
  THEN 1 ELSE 0

(* The interval is over: collect_snapshot, with what it found of the other   *)
(* databases, and the summary.                                               *)
Wake ==
  /\ monitorPc = "asleep"
  /\ Len(stamps) + 3 <= MaxEvents
  /\ \E others \in {0, 1} : report' = others + Alerts + 1
  /\ monitorPc' = "report"
  /\ UNCHANGED <<table, filePages, mainPc, toNote, time>>

Report ==
  /\ monitorPc = "report"
  /\ monitorPc' = "wait"
  /\ UNCHANGED <<table, filePages, mainPc, toNote, report, time>>

(* The answer is dropped, good or bad: the next event, or sleep.             *)
RepeatsOnError ==
  /\ report' = IF told' = told THEN report ELSE report - 1
  /\ monitorPc' = IF report' = 0 THEN "asleep" ELSE "report"
Proceed ==
  /\ report' = report - 1
  /\ monitorPc' = IF report = 1 THEN "asleep" ELSE "report"

Reported ==
  /\ monitorPc = "wait"
  /\ Appended \/ AppendFails
  /\ Proceed
  /\ UNCHANGED <<filePages, mainPc, toNote, time>>

-----------------------------------------------------------------------------
(* A checkpoint of the WAL.                                                  *)
Checkpoint ==
  /\ filePages < dbPages
  /\ filePages' = dbPages
  /\ UNCHANGED <<table, mainPc, toNote, monitorPc, report, time>>

Tick ==
  /\ clock < MaxTime
  /\ clock' = clock + 1
  /\ latest' = Max({latest, clock + 1})
  /\ UNCHANGED <<table, filePages, mainPc, toNote, monitorPc, report>>

(* The wall clock is set back, never to before the first retention_days.     *)
SetBack ==
  /\ \E t \in Retention .. MaxTime : t < clock /\ clock' = t
  /\ UNCHANGED <<table, filePages, mainPc, toNote, monitorPc, report, latest>>

MonitorStep == Report \/ Reported

JournalNext ==
  \/ StartUp \/ Note \/ Noted \/ NoteFails \/ StartMonitor \/ Die
  \/ Wake \/ MonitorStep \/ Checkpoint \/ Tick \/ SetBack

JournalSpec == JournalInit /\ [][JournalNext]_journalVars

-----------------------------------------------------------------------------
JournalTypeOK ==
  /\ events \subseteq Event
  /\ lastId \in Nat /\ dbPages \in Nat /\ filePages \in 0 .. dbPages
  /\ clock \in Nat /\ latest \in Nat
  /\ mainPc \in {"down", "note", "wait", "up"}
  /\ toNote \in 0 .. Excluded
  /\ monitorPc \in {"off", "asleep", "report", "wait"}
  /\ report \in Nat
  /\ stamps \in Seq(Nat)
  /\ told \in Seq(Nat)

(* "Appends an event and returns its monotonic seq" (journal.rs:109): over   *)
(* crashes, restarts and clean-ups that empty the table, no seq is returned  *)
(* for two events and later ones are greater; 0 is returned when the event   *)
(* fell to its own clean-up.                                                 *)
SeqsRise == \A i, j \in 1 .. Len(told) :
  i < j /\ told[i] # 0 /\ told[j] # 0 => told[i] < told[j]

(* "the oldest ones are removed" (journal.rs:10), by two clean-ups, one of   *)
(* which goes by a clock that may be set back: an event is gone while an     *)
(* older one is kept only if it had outlived the retention.                  *)
KeptNewest == \A e \in events, i \in 1 .. Len(stamps) :
  e.id < i /\ (\A f \in events : f.id # i) => Retention > 0 /\ stamps[i] + Retention < latest

(* Whatever the journal answers, a check of the monitor comes to its summary *)
(* and the monitor to its next sleep, unless the gateway goes down.          *)
MonitorReturns == (monitorPc = "report") ~> (monitorPc \in {"asleep", "off"})
===============================================================================
