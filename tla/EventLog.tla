------------------------------- MODULE EventLog -------------------------------
(***************************************************************************)
(* The durable buffer of stream events (gatewayd/src/event_log.rs): one    *)
(* writer task owns an SQLite table of rows (task_id, seq, event) and      *)
(* executes the commands of its channel one after the other, so a command  *)
(* is one action.  The table outlives the gateway, the counter of appends  *)
(* since the last size check does not.                                     *)
(*                                                                         *)
(* SQLite is modelled at one row per page: page_count grows with the table *)
(* and, without a VACUUM, never shrinks.                                   *)
(***************************************************************************)
EXTENDS Naturals, Sequences, SequencesExt, FiniteSetsExt

CONSTANTS
  Task,         \* task ids, a fresh one for every message/send
  PagesLimit,   \* max_size_mb as a number of pages; 0 = no limit
  DeleteBatch,  \* rows a cleanup deletes (the code takes max_size_mb again)
  CheckEvery,   \* SIZE_CHECK_EVERY_N_APPENDS (64 in the code)
  MaxEvents     \* bound of the model: events of a task

VARIABLES
  log,          \* the rows of task_events
  pages,        \* page_count of the database file
  sinceCheck,   \* Writer.appends_since_check
  issued        \* history: per task, the rows in the order they were appended

logVars == <<log, pages, sinceCheck, issued>>

Row == [task : Task, seq : Nat, event : Nat]

ASSUME EventLogAssumption ==
  /\ PagesLimit \in Nat
  /\ DeleteBatch \in Nat
  /\ CheckEvery \in Nat \ {0}
  /\ MaxEvents \in Nat

LogInit ==
  /\ log = {}
  /\ pages = 0
  /\ sinceCheck = 0
  /\ issued = [t \in Task |-> <<>>]

-----------------------------------------------------------------------------
Rows(t) == {row \in log : row.task = t}
Seqs(t) == {row.seq : row \in Rows(t)}

(* do_last_seq and the SELECT of next_seq: COALESCE(MAX(seq), 0).            *)
LastSeq(t) == IF Seqs(t) = {} THEN 0 ELSE Max(Seqs(t))

NextSeq(t) == LastSeq(t) + 1

(* do_events_after: ORDER BY seq LIMIT; the i-th row is the one with i - 1    *)
(* rows before it.                                                           *)
EventsAfter(t, after, limit) ==
  LET rows == {row \in Rows(t) : row.seq > after}
      Before(row) == {r \in rows : r.seq < row.seq}
  IN  [i \in 1 .. Min({limit, Cardinality(rows)}) |->
         CHOOSE row \in rows : Cardinality(Before(row)) = i - 1]

(* The rows a cleanup of table T may delete: ORDER BY seq LIMIT over all     *)
(* tasks, in any order among rows with the same seq.                         *)
NewestFirst(T) ==
  {D \in kSubset(Min({DeleteBatch, Cardinality(T)}), T) : \A a \in D, b \in T \ D : a.seq >= b.seq}

Oldest(T) ==
  {D \in kSubset(Min({DeleteBatch, Cardinality(T)}), T) : \A a \in D, b \in T \ D : a.seq <= b.seq}

Oversized == pages' > PagesLimit

(* cleanup_if_oversized after an append that left table T.                   *)
Cleanup(T) ==
  IF Oversized THEN \E D \in Oldest(T) : log' = T \ D ELSE log' = T

(* do_append of event e: insert, then check the size every CheckEvery times. *)
DoAppend(t, e) ==
  LET row == [task |-> t, seq |-> NextSeq(t), event |-> e]
      table == log \cup {row}
      due == PagesLimit > 0 /\ sinceCheck + 1 >= CheckEvery
  IN  /\ issued' = [issued EXCEPT ![t] = Append(@, row)]
      /\ pages' = Max({pages, Cardinality(table)})
      /\ sinceCheck' = IF due THEN 0 ELSE sinceCheck + 1
      /\ IF due THEN Cleanup(table) ELSE log' = table

(* The writer starts again with the gateway.                                 *)
Reopen ==
  /\ sinceCheck' = 0
  /\ UNCHANGED <<log, pages, issued>>

-----------------------------------------------------------------------------
(* The log by itself, used by any number of streams.                         *)
LogNext ==
  \/ \E t \in Task : /\ Len(issued[t]) < MaxEvents
                     /\ DoAppend(t, Len(issued[t]) + 1)
  \/ Reopen

LogSpec == LogInit /\ [][LogNext]_logVars

-----------------------------------------------------------------------------
(* Type invariant of the log.                                                *)
LogTypeOK ==
  /\ log \in SUBSET Row
  /\ pages \in Nat
  /\ sinceCheck \in Nat
  /\ issued \in [Task -> Seq(Row)]

(* What table T still has of the rows appended (in the order of each task)   *)
(* are the last ones, with consecutive seqs.                                 *)
HasNewest(T, appended) ==
  \A t \in Task :
    /\ \A row \in T : row.task = t => \E i \in DOMAIN appended[t] : row = appended[t][i]
    /\ \A i, j \in DOMAIN appended[t] :
         i < j /\ appended[t][i] \in T =>
           appended[t][j] \in T /\ appended[t][j].seq = appended[t][i].seq + (j - i)

(* A replay has no holes: what cleanups and restarts leave of a task are its *)
(* newest events, with consecutive seqs (is_contiguous, event_log.rs:306),   *)
(* although a cleanup goes by seq over all tasks and numbering may restart.  *)
KeepsNewest == HasNewest(log, issued)

=============================================================================
