--------------------------------- MODULE Tasks ---------------------------------
(***************************************************************************)
(* The stored record of one task (core/src/task_store.rs) and those who    *)
(* write it: the turn of its message/send, which for a non-blocking send   *)
(* records it as working, runs detached (gatewayd/src/transport_http.rs)   *)
(* and stores the outcome; tasks/cancel requests; and the sweeper, which   *)
(* removes the files of old tasks.  All of them work on the same two       *)
(* names of a directory, the task's file and its .json.tmp, across crashes *)
(* of the gateway.  Ids are never reused: every task has its own files.    *)
(***************************************************************************)
EXTENDS Naturals

CONSTANTS
  Turn,      \* the turn of the task's send
  Cancel,    \* tasks/cancel requests for the task
  Inode,     \* files of the directory, bound of the model
  NoFile

VARIABLES
  pc,        \* where each writer is
  detached,  \* the send was non-blocking
  stage,     \* which of its saves the turn is at: "record", "result" or "final"
  value,     \* the state each writer saves
  fd,        \* the file it has open
  tmp, final,  \* the directory: what <id>.json.tmp and <id>.json name
  content,   \* what is in a file: a task state, "empty" or "torn"
  expired,   \* files with an mtime older than the TTL
  stat,      \* the sweeper has found <id>.json to be expired
  collided   \* history: a save has begun within another one

Writer == Cancel \cup {Turn}
turnVars == <<detached, stage>>
disk == <<tmp, final, content, expired>>
vars == <<pc, turnVars, value, fd, disk, stat, collided>>

ASSUME TasksAssumption == Turn \notin Cancel /\ NoFile \notin Inode

Outcome == {"completed", "canceled", "failed"}
TaskState == Outcome \cup {"working"}

Init ==
  /\ pc = [w \in Writer |-> "idle"]
  /\ detached = FALSE
  /\ stage = "record"
  /\ value = [w \in Writer |-> "working"]
  /\ fd = [w \in Writer |-> NoFile]
  /\ tmp = NoFile /\ final = NoFile
  /\ content = [f \in Inode |-> "empty"]
  /\ expired = {}
  /\ stat = FALSE
  /\ collided = FALSE

Goto(w, from, to) == pc[w] = from /\ pc' = [pc EXCEPT ![w] = to]

BeginSave(w, from, state) ==
  /\ Goto(w, from, "save")
  /\ value' = [value EXCEPT ![w] = state]

-----------------------------------------------------------------------------
(* TaskStore::save                                                           *)

Saving(w) == pc[w] \in {"opened", "filled"}

Free(f) == f \notin {tmp, final} /\ \A w \in Writer : Saving(w) => fd[w] # f

(* Every save of a task opens the same .json.tmp, truncating what is there.  *)
OpenFinal(w) ==
  /\ Goto(w, "save", "opened")
  /\ \E f \in IF final = NoFile THEN {g \in Inode : Free(g)} ELSE {final} :
       /\ final' = f
       /\ fd' = [fd EXCEPT ![w] = f]
       /\ content' = [content EXCEPT ![f] = "empty"]
       /\ expired' = expired \ {f}
  /\ collided' = (collided \/ \E v \in Writer : Saving(v))
  /\ UNCHANGED <<turnVars, value, tmp, stat>>

Open(w) ==
  /\ Goto(w, "save", "opened")
  /\ \E f \in IF tmp = NoFile THEN {g \in Inode : Free(g)} ELSE {tmp} :
       /\ tmp' = f
       /\ fd' = [fd EXCEPT ![w] = f]
       /\ content' = [content EXCEPT ![f] = "empty"]
       /\ expired' = expired \ {f}
  /\ collided' = (collided \/ \E v \in Writer : Saving(v))
  /\ UNCHANGED <<turnVars, value, final, stat>>

(* Over another save's longer text a shorter one leaves the rest of it.      *)
Fill(w) ==
  /\ Goto(w, "opened", "filled")
  /\ \E c \in {value[w]} \cup IF content[fd[w]] = "empty" THEN {} ELSE {"torn"} :
       content' = [content EXCEPT ![fd[w]] = c]
  /\ expired' = expired \ {fd[w]}
  /\ UNCHANGED <<turnVars, value, fd, tmp, final, stat, collided>>

(* What the writer goes on to when its save has succeeded ...                *)
Saved(w) ==
  /\ stage' = IF w = Turn /\ stage = "result" THEN "final" ELSE stage
  /\ pc' = [pc EXCEPT ![w] = IF w # Turn THEN "over"
                             ELSE IF stage = "record" THEN "recorded"
                             ELSE IF stage = "result" /\ detached THEN "save"
                             ELSE "over"]
  /\ UNCHANGED <<detached, value, fd, content, expired, stat, collided>>

(* ... and when it has not: a reply that could not be stored makes a         *)
(* detached turn failed, a final state that could not be is only logged.     *)
SaveFails(w) ==
  /\ stage' = IF w = Turn /\ stage = "result" THEN "final" ELSE stage
  /\ value' = IF w = Turn /\ stage = "result" THEN [value EXCEPT ![w] = "failed"] ELSE value
  /\ pc' = [pc EXCEPT ![w] = IF w = Turn /\ stage = "result" /\ detached THEN "save"
                             ELSE IF w = Turn /\ stage = "final" THEN "unsaved"
                             ELSE "over"]
  /\ UNCHANGED <<detached, fd, tmp, final, expired, stat, collided>>

(* The disk is full: the temporary file stays, with part of the text.        *)
WriteFails(w) ==
  /\ pc[w] = "opened"
  /\ content' = [content EXCEPT ![fd[w]] = "torn"]
  /\ SaveFails(w)

Rename(w) ==
  /\ pc[w] = "filled" /\ tmp # NoFile
  /\ final' = tmp
  /\ tmp' = NoFile
  /\ Saved(w)

(* Another save has renamed the temporary file away.                         *)
RenameFails(w) ==
  /\ pc[w] = "filled" /\ tmp = NoFile
  /\ UNCHANGED content
  /\ SaveFails(w)

Save(w) == Open(w) \/ Fill(w) \/ WriteFails(w) \/ Rename(w) \/ RenameFails(w)

-----------------------------------------------------------------------------
(* The turn.                                                                 *)

(* start_detached_send: the task is on record before the turn is spawned.    *)
StartAsIs ==
  /\ BeginSave(Turn, "idle", "submitted")
  /\ detached' = TRUE
  /\ UNCHANGED <<stage, fd, disk, stat, collided>>

StartDetached ==
  /\ BeginSave(Turn, "idle", "working")
  /\ detached' = TRUE
  /\ UNCHANGED <<stage, fd, disk, stat, collided>>

Spawn ==
  /\ Goto(Turn, "recorded", "running")
  /\ UNCHANGED <<turnVars, value, fd, disk, stat, collided>>

StartBlocking ==
  /\ Goto(Turn, "idle", "running")
  /\ UNCHANGED <<turnVars, value, fd, disk, stat, collided>>

(* Reply::Complete: send_task_as stores the result itself.                   *)
ReplyComplete ==
  /\ \E state \in Outcome : BeginSave(Turn, "running", state)
  /\ stage' = "result"
  /\ UNCHANGED <<detached, fd, disk, stat, collided>>

(* Reply::Streaming: the forwarder always closes with completed, and only    *)
(* run_detached_turn makes a task of the stream, to be stored.               *)
ForgetTheStream ==
  /\ detached
  /\ Goto(Turn, "running", "over")
  /\ UNCHANGED <<turnVars, value, fd, disk, stat, collided>>

ReplyStreamed ==
  /\ detached
  /\ BeginSave(Turn, "running", "completed")
  /\ stage' = "final"
  /\ UNCHANGED <<detached, fd, disk, stat, collided>>

ReplyFailed ==
  /\ detached
  /\ BeginSave(Turn, "running", "failed")
  /\ stage' = "final"
  /\ UNCHANGED <<detached, fd, disk, stat, collided>>

(* A blocking send that streams or fails stores nothing.                     *)
ReplyUnstored ==
  /\ ~detached
  /\ Goto(Turn, "running", "over")
  /\ UNCHANGED <<turnVars, value, fd, disk, stat, collided>>

-----------------------------------------------------------------------------
(* cancel_task_as                                                            *)

Stored == IF final = NoFile THEN "none" ELSE content[final]

(* load_owned: the stored state is replaced by canceled ...                  *)
LoadAsIs(k) ==
  /\ Stored \in TaskState
  /\ Goto(k, "idle", "asking")
  /\ value' = [value EXCEPT ![k] = Stored]
  /\ UNCHANGED <<turnVars, fd, disk, stat, collided>>

Load(k) ==
  /\ Stored \in TaskState
  /\ Goto(k, "idle", "asking")
  /\ value' = [value EXCEPT ![k] = "canceled"]
  /\ UNCHANGED <<turnVars, fd, disk, stat, collided>>

(* ... and saved once the agent has been notified, whatever the turn has     *)
(* stored meanwhile.                                                         *)
AgentNotified(k) ==
  /\ Goto(k, "asking", "save")
  /\ UNCHANGED <<turnVars, value, fd, disk, stat, collided>>

(* The conversation is gone, or the agent cannot be reached.                 *)
AgentUnreachable(k) ==
  /\ Goto(k, "asking", "over")
  /\ UNCHANGED <<turnVars, value, fd, disk, stat, collided>>

-----------------------------------------------------------------------------
(* The client hangs up and the future of its request is dropped at an await; *)
(* a spawned turn goes on.                                                   *)
Dropped(w) ==
  /\ pc[w] \in {"save", "filled", "recorded", "running", "asking"}
  /\ w = Turn /\ detached => stage = "record" /\ pc[w] # "running"
  /\ pc' = [pc EXCEPT ![w] = IF w = Turn THEN "dead" ELSE "over"]
  /\ UNCHANGED <<turnVars, value, fd, disk, stat, collided>>

-----------------------------------------------------------------------------
(* The sweeper, the clock and crashes.                                       *)

SweepStat ==
  /\ ~stat
  /\ final \in expired
  /\ stat' = TRUE
  /\ UNCHANGED <<pc, turnVars, value, fd, disk, collided>>

(* remove_file goes by the name, whatever it names by now.                   *)
SweepRemove ==
  /\ stat
  /\ stat' = FALSE
  /\ final' = NoFile
  /\ UNCHANGED <<pc, turnVars, value, fd, tmp, content, expired, collided>>

Expire ==
  /\ final # NoFile
  /\ expired' = expired \cup {final}
  /\ UNCHANGED <<pc, turnVars, value, fd, tmp, final, content, stat, collided>>

(* The gateway dies and comes back: requests under way are gone, and a       *)
(* detached turn is not taken up again.                                      *)
Crash ==
  /\ pc' = [w \in Writer |-> IF pc[w] = "idle" THEN "idle"
                             ELSE IF w = Turn /\ pc[w] \notin {"over", "unsaved"} THEN "dead"
                             ELSE IF w = Turn THEN pc[w]
                             ELSE "over"]
  /\ stat' = FALSE
  /\ UNCHANGED <<turnVars, value, fd, disk, collided>>

-----------------------------------------------------------------------------
TurnStep ==
  \/ StartDetached \/ Spawn \/ StartBlocking
  \/ ReplyComplete \/ ReplyStreamed \/ ReplyFailed \/ ReplyUnstored

CancelStep(k) == Load(k) \/ AgentNotified(k) \/ AgentUnreachable(k)

Next ==
  \/ TurnStep
  \/ \E k \in Cancel : CancelStep(k)
  \/ \E w \in Writer : Save(w) \/ Dropped(w)
  \/ SweepStat \/ SweepRemove \/ Expire \/ Crash

Spec == Init /\ [][Next]_vars

-----------------------------------------------------------------------------
(* Properties                                                                *)

(* Type invariant of the writers and the directory.                          *)
TypeOK ==
  /\ pc \in [Writer -> {"idle", "save", "opened", "filled", "recorded", "running",
                        "asking", "over", "unsaved", "dead"}]
  /\ detached \in BOOLEAN /\ stat \in BOOLEAN /\ collided \in BOOLEAN
  /\ stage \in {"record", "result", "final"}
  /\ value \in [Writer -> TaskState]
  /\ fd \in [Writer -> Inode \cup {NoFile}]
  /\ tmp \in Inode \cup {NoFile} /\ final \in Inode \cup {NoFile}
  /\ content \in [Inode -> TaskState \cup {"empty", "torn"}]
  /\ expired \in SUBSET Inode

(* task_store.rs:78: "a reader will never see a partially written file".  It *)
(* does not hold as it stands: of two saves that overlap, one may rename     *)
(* what the other has only begun to write.                                   *)
NeverPartial == Stored \in TaskState \cup {"none"}

(* It holds over crashes and failed writes in the middle of a save, what     *)
(* they leave in the temporary file and the next save finds there, as long   *)
(* as no two saves of the task overlap.                                      *)
WholeFile == collided \/ NeverPartial

(* convert.rs:347: a task is recorded as working and replaced by the final   *)
(* state: one who has seen its outcome never sees it working again, though   *)
(* a cancel saves a copy it loaded before the outcome was stored.            *)
NeverBackToWorking ==
  [][(Stored \in Outcome) => (Stored' # "working")]_vars

(* A detached task is not left on record as working once its turn is over,   *)
(* unless the gateway crashed, could not write the final state, or lost the  *)
(* client before it could spawn the turn.                                    *)
Settled == pc[Turn] = "over" => Stored # "working"

=============================================================================
