-------------------------------- MODULE LogFiles --------------------------------
(***************************************************************************)
(* The hourly monitor of the log directory (gatewayd/src/main.rs): when    *)
(* the directory is too large it compresses the files of earlier days and  *)
(* removes the oldest, while the appender goes on writing and, at          *)
(* midnight, starts a new file and removes old ones by itself.             *)
(*                                                                         *)
(* gzip_file names the archive with_extension("log.gz"), which makes       *)
(* gateway.log.gz of every gateway.YYYY-MM-DD: there is one archive, and   *)
(* each day compressed overwrites the one before.  The directory is the    *)
(* appender's: logging.file.path ends with a slash.  (Without one the      *)
(* monitor watches the directory above it.)                                *)
(***************************************************************************)
EXTENDS Naturals, FiniteSets, SequencesExt

CONSTANTS
  Limit,       \* max_total_size_mb in the units of sizes; 0 = never prune
  Compress,    \* compress_rotated
  MaxFiles,    \* max_files of the appender
  MaxSize,     \* bound of the model: the size of a file
  MaxDays      \* bound of the model: days

ASSUME LogFilesAssumption ==
  /\ Limit \in Nat /\ {MaxSize, MaxDays} \subseteq Nat \ {0}
  /\ Compress \in BOOLEAN
  /\ MaxFiles \in Nat \ {0}

Archive == 0
Names == 0 .. MaxDays

VARIABLES
  size,        \* [Names -> sizes]; 0 = no such file
  written,     \* the pairs of files <<m, n>>, m last written to before n
  born,        \* the pairs of files <<m, n>>, m created before n
  today,       \* the file the appender writes to
  prunePc,     \* where prune_log_dir is
  active,      \* prune_log_dir: the newest file when it began
  toZip,       \* its files still to compress
  victim,      \* the file it is about to remove
  rolled       \* whether the appender has changed files since the prune began

logFilesVars == <<size, written, born, today, prunePc, active, toZip, victim, rolled>>
dirVars == <<size, written, born>>

Files == {n \in Names : size[n] > 0}

(* An order of files, of the files S only, and with n at its end.            *)
Among(order, S) == order \cap (S \X S)
PutLast(order, S, n) == Among(order, S \ {n}) \cup ((S \ {n}) \X {n})

(* dir_size_mb, and the total of prune_log_dir.                              *)
TotalSize == FoldFunction(+, 0, size)

LogFilesInit ==
  /\ size = [n \in Names |-> IF n = 1 THEN 1 ELSE 0]
  /\ written = {} /\ born = {}
  /\ today = 1
  /\ prunePc = "asleep"
  /\ active = 1 /\ toZip = <<>> /\ victim = 1 /\ rolled = FALSE

(* File n is given the size s.                                               *)
WriteFile(n, s) ==
  /\ size' = [size EXCEPT ![n] = s]
  /\ written' = PutLast(written, Files, n)
  /\ born' = IF n \in Files THEN born ELSE PutLast(born, Files, n)

Unlink(gone) ==
  /\ size' = [n \in Names |-> IF n \in gone THEN 0 ELSE size[n]]
  /\ written' = Among(written, Files \ gone)
  /\ born' = Among(born, Files \ gone)

-----------------------------------------------------------------------------
(* The appender                                                              *)

(* A line; one for a file that was removed is lost with it.                  *)
WriteLine ==
  /\ size[today] \in 1 .. MaxSize - 1
  /\ WriteFile(today, size[today] + 1)
  /\ UNCHANGED <<today, prunePc, active, toZip, victim, rolled>>

(* The first line of a day: all but the MaxFiles - 1 youngest files go.  No  *)
(* prune takes so long that it meets two of them.                            *)
Younger(n) == {m \in Files : <<n, m>> \in born}
Kept == {n \in Files : Cardinality(Younger(n)) < MaxFiles - 1}

Rollover ==
  /\ today < MaxDays
  /\ ~rolled
  /\ today' = today + 1
  /\ rolled' = (prunePc # "asleep")
  /\ size' = [n \in Names |-> IF n = today + 1 THEN 1 ELSE IF n \in Kept THEN size[n] ELSE 0]
  /\ written' = PutLast(written, Kept, today + 1)
  /\ born' = PutLast(born, Kept, today + 1)
  /\ UNCHANGED <<prunePc, active, toZip, victim>>

-----------------------------------------------------------------------------
(* The monitor                                                               *)

(* The directory is over the limit.  The error it logs is a line of today's  *)
(* file, which makes that the newest.                                        *)
FindTooLarge ==
  /\ prunePc = "asleep"
  /\ Limit > 0 /\ TotalSize >= Limit
  /\ size[today] > 0
  /\ WriteFile(today, IF size[today] < MaxSize THEN size[today] + 1 ELSE MaxSize)
  /\ prunePc' = "collect"
  /\ rolled' = FALSE
  /\ UNCHANGED <<today, active, toZip, victim>>

IsNewest(n) == n \in Files /\ \A m \in Files \ {n} : <<m, n>> \in written
IsOldest(n) == n \in Files /\ \A m \in Files \ {n} : <<n, m>> \in written
InOrder(files) == {q \in SetToSeqs(files) :
  \A i, j \in DOMAIN q : i < j => <<q[i], q[j]>> \in written}

Collect ==
  /\ prunePc = "collect"
  /\ \E n \in Names :
       /\ IsNewest(n)
       /\ active' = n
       /\ toZip' \in IF Compress THEN InOrder(Files \ {n, Archive}) ELSE {<<>>}
  /\ prunePc' = "zip"
  /\ UNCHANGED <<dirVars, today, victim, rolled>>

NextToZip == toZip' = Tail(toZip) /\ prunePc' = "zip"

(* gzip_file: fs::read.                                                      *)
ZipRead ==
  /\ prunePc = "zip" /\ toZip # <<>>
  /\ size[Head(toZip)] > 0
  /\ prunePc' = "zipWrite"
  /\ UNCHANGED <<dirVars, today, active, toZip, victim, rolled>>

(* fs::write of the archive, whatever it held.                               *)
ZipWrite ==
  /\ prunePc = "zipWrite"
  /\ WriteFile(Archive, 1)
  /\ prunePc' = "zipUnlink"
  /\ UNCHANGED <<today, active, toZip, victim, rolled>>

(* fs::remove_file of the original.                                          *)
ZipUnlink ==
  /\ prunePc = "zipUnlink"
  /\ Unlink({Head(toZip)})
  /\ NextToZip
  /\ UNCHANGED <<today, active, victim, rolled>>

(* One of the three fails, as when the appender has removed the file.        *)
ZipFails ==
  /\ prunePc \in {"zip", "zipWrite", "zipUnlink"} /\ toZip # <<>>
  /\ NextToZip
  /\ UNCHANGED <<dirVars, today, active, victim, rolled>>

(* The loop of prune_log_dir: a look at the directory ...                    *)
AnyFile(n) == TRUE
NotActive(n) == n # active

MayRemove(n) ==
  /\ prunePc = "zip" /\ toZip = <<>>
  /\ Cardinality(Files) > 1 /\ TotalSize > Limit
  /\ IsOldest(n) /\ NotActive(n)

ChooseOldest ==
  /\ \E n \in Names : MayRemove(n) /\ victim' = n
  /\ prunePc' = "remove"
  /\ UNCHANGED <<dirVars, today, active, toZip, rolled>>

(* ... and the removal of the oldest file,                                   *)
RemoveOldest ==
  /\ prunePc = "remove"
  /\ size[victim] > 0
  /\ Unlink({victim})
  /\ prunePc' = "zip"
  /\ UNCHANGED <<today, active, toZip, victim, rolled>>

(* until one file is left, the limit is kept, the oldest is the active one   *)
(* or a removal fails.                                                       *)
PruneEnds ==
  /\ \/ prunePc = "zip" /\ toZip = <<>> /\ \A n \in Names : ~MayRemove(n)
     \/ prunePc = "remove"
  /\ prunePc' = "asleep"
  /\ rolled' = FALSE
  /\ UNCHANGED <<dirVars, today, active, toZip, victim>>

LogFilesNext ==
  \/ WriteLine \/ Rollover
  \/ FindTooLarge \/ Collect \/ ZipRead \/ ZipWrite \/ ZipUnlink \/ ZipFails
  \/ ChooseOldest \/ RemoveOldest \/ PruneEnds

LogFilesSpec == LogFilesInit /\ [][LogFilesNext]_logFilesVars

-----------------------------------------------------------------------------
(* A strict total order of S.                                                *)
Orders(order, S) ==
  /\ order \subseteq S \X S
  /\ \A m, n \in S : m # n => (<<m, n>> \in order <=> <<n, m>> \notin order)
  /\ \A n \in S : <<n, n>> \notin order
  /\ \A k, m, n \in S : <<k, m>> \in order /\ <<m, n>> \in order => <<k, n>> \in order

LogFilesTypeOK ==
  /\ size \in [Names -> 0 .. MaxSize]
  /\ Orders(written, Files) /\ Orders(born, Files)
  /\ today \in Names \ {Archive} /\ {active, victim} \subseteq Names
  /\ toZip \in Seq(Names)
  /\ prunePc \in {"asleep", "collect", "zip", "zipWrite", "zipUnlink", "remove"}
  /\ rolled \in BOOLEAN

(* "The active (newest) file is left untouched" (main.rs:758): whatever      *)
(* compressing does to the order of the files, and though midnight passes    *)
(* and the appender prunes in the middle of it, the file the appender writes *)
(* to is still there.  (Not so for MaxFiles below 3: then the appender may   *)
(* remove, at that midnight, the very file the prune holds for the active    *)
(* one, and the prune goes on to remove today's.)                            *)
TodayKept == size[today] > 0
===============================================================================
