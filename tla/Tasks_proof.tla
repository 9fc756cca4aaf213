------------------------------ MODULE Tasks_proof ------------------------------
(***************************************************************************)
(* TypeOK, WholeFile, NeverBackToWorking and Settled for every number of   *)
(* cancels and of files.                                                   *)
(*                                                                         *)
(* WholeFile: as long as no saves overlap, the one under way has           *)
(* .json.tmp to itself.  The others: the record "working" is the first     *)
(* one, for a cancel has nothing to load before; once it is in place, or   *)
(* was never made, nobody can put it there again.                          *)
(***************************************************************************)
EXTENDS Tasks, TLAPS

(* The saves that do not overlap.                                            *)
SaveInv ==
  /\ tmp # NoFile => tmp # final
  /\ ~collided =>
       /\ \A v, w \in Writer : Saving(v) /\ Saving(w) => v = w
       /\ \A w \in Writer : Saving(w) => tmp # NoFile /\ fd[w] = tmp
       /\ \A w \in Writer : pc[w] = "opened" => content[tmp] = "empty"
       /\ \A w \in Writer : pc[w] = "filled" => content[tmp] = value[w]
       /\ final # NoFile => content[final] \in TaskState

(* What is saved: "working" by the first save of a detached send only.       *)
Recording == stage = "record" /\ pc[Turn] \in {"save", "opened", "filled"}

ValueInv ==
  /\ Recording => detached
  /\ pc[Turn] = "idle" => stage = "record"
  /\ stage # "record" => value[Turn] \in Outcome
  /\ \A k \in Cancel : pc[k] \in {"asking", "save", "opened", "filled"} => value[k] = "canceled"

(* The temporary file is not the first record.                               *)
Clean == tmp # NoFile => content[tmp] # "working"

(* Before there is a record ...                                              *)
Fresh ==
  /\ final = NoFile
  /\ \A k \in Cancel : pc[k] = "idle"
  /\ pc[Turn] \in {"idle", "recorded", "running"} \/ stage # "record" => Clean

(* ... and once there has been one.                                          *)
Late ==
  /\ Clean
  /\ ~Recording /\ pc[Turn] # "idle"
  /\ ~detached => Stored # "working"
  /\ pc[Turn] = "over" => Stored # "working"

IInv == TypeOK /\ SaveInv /\ ValueInv /\ (Fresh \/ Late)

(* No record is no state of a task.                                          *)
LEMMA NothingStored == "none" \notin TaskState /\ "none" \notin Outcome /\ "none" # "working"
BY DEF TaskState, Outcome

(* The steps that leave the directory and its files alone ...                *)
Quiet ==
  \/ StartDetached \/ Spawn \/ StartBlocking
  \/ ReplyComplete \/ ReplyStreamed \/ ReplyFailed \/ ReplyUnstored
  \/ \E k \in Cancel : CancelStep(k)
  \/ \E w \in Writer : Dropped(w)
  \/ Crash

-----------------------------------------------------------------------------
(* TypeOK, step by step.                                                     *)
LEMMA TypeStep == TypeOK /\ [Next]_vars => TypeOK'
<1> SUFFICES ASSUME TypeOK, [Next]_vars PROVE TypeOK'
  OBVIOUS
<1> USE DEF TypeOK
<1>0. Turn \in Writer /\ Cancel \subseteq Writer
  BY DEF Writer
<1>1. CASE StartDetached
  BY <1>0, <1>1 DEF StartDetached, BeginSave, Goto, disk, TaskState
<1>2. CASE Spawn \/ StartBlocking \/ ReplyUnstored
  BY <1>0, <1>2 DEF Spawn, StartBlocking, ReplyUnstored, Goto, disk, turnVars
<1>3. CASE ReplyComplete \/ ReplyStreamed \/ ReplyFailed
  <2>1. PICK state \in Outcome : BeginSave(Turn, "running", state)
    BY <1>3 DEF ReplyComplete, ReplyStreamed, ReplyFailed, Outcome
  <2> QED
    BY <1>0, <1>3, <2>1 DEF ReplyComplete, ReplyStreamed, ReplyFailed, BeginSave, Goto, disk, TaskState
<1>4. ASSUME NEW k \in Cancel, CancelStep(k) PROVE TypeOK'
  BY <1>0, <1>4 DEF CancelStep, Load, AgentNotified, AgentUnreachable, Goto, disk, turnVars,
                    TaskState, Outcome
<1>5. ASSUME NEW w \in Writer, Open(w) PROVE TypeOK'
  BY <1>5 DEF Open, Goto, turnVars
<1>6. ASSUME NEW w \in Writer, Fill(w) PROVE TypeOK'
  BY <1>6 DEF Fill, Goto, turnVars
<1>7. ASSUME NEW w \in Writer, WriteFails(w) \/ RenameFails(w) PROVE TypeOK'
  <2>1. SaveFails(w) /\ content' \in [Inode -> TaskState \cup {"empty", "torn"}]
    BY <1>7 DEF WriteFails, RenameFails
  <2> QED
    BY <2>1 DEF SaveFails, TaskState, Outcome
<1>8. ASSUME NEW w \in Writer, Rename(w) PROVE TypeOK'
  BY <1>8 DEF Rename, Saved
<1>9. ASSUME NEW w \in Writer, Dropped(w) PROVE TypeOK'
  BY <1>9 DEF Dropped, disk, turnVars
<1>10. CASE SweepStat \/ SweepRemove \/ Expire
  BY <1>10 DEF SweepStat, SweepRemove, Expire, disk, turnVars
<1>11. CASE Crash
  BY <1>11 DEF Crash, disk, turnVars
<1>12. CASE UNCHANGED vars
  BY <1>12 DEF vars, disk, turnVars
<1> QED
  BY <1>1, <1>2, <1>3, <1>4, <1>5, <1>6, <1>7, <1>8, <1>9, <1>10, <1>11, <1>12
     DEF Next, TurnStep, Save

(* ... keep who is at a save where it is.                                    *)
LEMMA QuietIs ==
  ASSUME TypeOK, Quiet
  PROVE  /\ UNCHANGED <<fd, disk, collided>>
         /\ \A w \in Writer : pc'[w] \in {"opened", "filled"} =>
              pc'[w] = pc[w] /\ value'[w] = value[w]
<1> USE DEF TypeOK
<1>0. Turn \in Writer /\ Cancel \subseteq Writer
  BY DEF Writer
<1>1. CASE StartDetached \/ ReplyComplete \/ ReplyStreamed \/ ReplyFailed
  <2>1. PICK state, from : BeginSave(Turn, from, state)
    BY <1>1 DEF StartDetached, ReplyComplete, ReplyStreamed, ReplyFailed
  <2>2. UNCHANGED <<fd, disk, collided>>
    BY <1>1 DEF StartDetached, ReplyComplete, ReplyStreamed, ReplyFailed
  <2> QED
    BY <1>0, <2>1, <2>2 DEF BeginSave, Goto
<1>2. CASE Spawn \/ StartBlocking \/ ReplyUnstored
  BY <1>0, <1>2 DEF Spawn, StartBlocking, ReplyUnstored, Goto
<1>3. ASSUME NEW k \in Cancel, CancelStep(k)
      PROVE  /\ UNCHANGED <<fd, disk, collided>>
             /\ \A w \in Writer : pc'[w] \in {"opened", "filled"} =>
                  pc'[w] = pc[w] /\ value'[w] = value[w]
  BY <1>0, <1>3 DEF CancelStep, Load, AgentNotified, AgentUnreachable, Goto
<1>4. ASSUME NEW v \in Writer, Dropped(v)
      PROVE  /\ UNCHANGED <<fd, disk, collided>>
             /\ \A w \in Writer : pc'[w] \in {"opened", "filled"} =>
                  pc'[w] = pc[w] /\ value'[w] = value[w]
  BY <1>4 DEF Dropped
<1>5. CASE Crash
  BY <1>5 DEF Crash
<1> QED
  BY <1>1, <1>2, <1>3, <1>4, <1>5 DEF Quiet

-----------------------------------------------------------------------------
(* SaveInv, step by step.                                                    *)
LEMMA SaveStep == TypeOK /\ SaveInv /\ [Next]_vars => SaveInv'
<1> SUFFICES ASSUME TypeOK, SaveInv, [Next]_vars PROVE SaveInv'
  OBVIOUS
<1> USE DEF TypeOK, SaveInv, Saving
<1>1. CASE Quiet
  BY <1>1, QuietIs DEF disk
<1>2. ASSUME NEW w \in Writer, Open(w) PROVE SaveInv'
  <2>1. PICK f \in IF tmp = NoFile THEN {g \in Inode : Free(g)} ELSE {tmp} :
          /\ tmp' = f
          /\ fd' = [fd EXCEPT ![w] = f]
          /\ content' = [content EXCEPT ![f] = "empty"]
    BY <1>2 DEF Open
  <2>2. /\ f \in Inode /\ f # NoFile /\ f # final
        /\ final' = final
    BY <1>2, <2>1, TasksAssumption DEF Free, Open
  <2>3. CASE collided'
    BY <2>1, <2>2, <2>3
  <2>4. CASE ~collided'
    <3>1. ~collided /\ \A v \in Writer : ~Saving(v)
      BY <1>2, <2>4 DEF Open
    <3>2. pc' = [pc EXCEPT ![w] = "opened"]
      BY <1>2 DEF Open, Goto
    <3>3. \A v \in Writer : pc'[v] \in {"opened", "filled"} => v = w /\ pc'[v] = "opened"
      BY <3>1, <3>2
    <3>4. fd'[w] = tmp' /\ content'[tmp'] = "empty"
      BY <2>1, <2>2
    <3>5. final # NoFile => content'[final] \in TaskState
      BY <2>1, <2>2, <3>1
    <3> QED
      BY <2>1, <2>2, <3>3, <3>4, <3>5
  <2> QED
    BY <2>3, <2>4
<1>3. ASSUME NEW w \in Writer, Fill(w) PROVE SaveInv'
  <2>1. /\ pc[w] = "opened" /\ pc' = [pc EXCEPT ![w] = "filled"]
        /\ UNCHANGED <<value, fd, tmp, final, collided>>
    BY <1>3 DEF Fill, Goto
  <2>2. CASE collided
    BY <2>1, <2>2
  <2>3. CASE ~collided
    <3>1. \A v \in Writer : Saving(v) => v = w
      BY <2>1, <2>3
    <3>2. fd[w] = tmp /\ tmp \in Inode /\ content[tmp] = "empty" /\ tmp # final
      BY <2>1, <2>3
    <3>3. content' = [content EXCEPT ![tmp] = value[w]]
      BY <1>3, <3>2 DEF Fill
    <3>4. final # NoFile => content'[final] \in TaskState
      BY <2>3, <3>2, <3>3
    <3>5. \A v \in Writer : pc'[v] \in {"opened", "filled"} => v = w /\ pc'[v] = "filled"
      BY <2>1, <3>1
    <3>6. content'[tmp] = value[w]
      BY <3>2, <3>3
    <3> QED
      BY <2>1, <3>2, <3>4, <3>5, <3>6
  <2> QED
    BY <2>2, <2>3
<1>4. ASSUME NEW w \in Writer, WriteFails(w) \/ RenameFails(w) PROVE SaveInv'
  <2>1. /\ pc[w] \in {"opened", "filled"}
        /\ UNCHANGED <<fd, tmp, final, collided>>
        /\ \A v \in Writer : pc'[v] \in {"opened", "filled"} =>
             v # w /\ pc'[v] = pc[v] /\ value'[v] = value[v]
    BY <1>4 DEF WriteFails, RenameFails, SaveFails
  <2>2. CASE collided
    BY <2>1, <2>2
  <2>3. CASE ~collided
    <3>1. \A v \in Writer : pc'[v] \notin {"opened", "filled"}
      BY <2>1, <2>3
    <3>2. fd[w] = tmp /\ tmp \in Inode /\ tmp # final
      BY <2>1, <2>3
    <3>3. final # NoFile => content'[final] = content[final]
      BY <1>4, <3>2 DEF WriteFails, RenameFails
    <3> QED
      BY <2>1, <2>3, <3>1, <3>3
  <2> QED
    BY <2>2, <2>3
<1>5. ASSUME NEW w \in Writer, Rename(w) PROVE SaveInv'
  <2>1. /\ pc[w] = "filled" /\ tmp # NoFile /\ tmp' = NoFile /\ final' = tmp
        /\ UNCHANGED <<value, fd, content, collided>>
        /\ \A v \in Writer : pc'[v] \in {"opened", "filled"} => v # w /\ pc'[v] = pc[v]
    BY <1>5 DEF Rename, Saved
  <2>2. CASE collided
    BY <2>1, <2>2
  <2>3. CASE ~collided
    <3>1. \A v \in Writer : pc'[v] \notin {"opened", "filled"}
      BY <2>1, <2>3
    <3>2. content[tmp] \in TaskState
      BY <2>1, <2>3
    <3> QED
      BY <2>1, <3>1, <3>2
  <2> QED
    BY <2>2, <2>3
<1>6. CASE SweepStat \/ SweepRemove \/ Expire
  BY <1>6 DEF SweepStat, SweepRemove, Expire, disk
<1>7. CASE UNCHANGED vars
  BY <1>7 DEF vars, disk
<1> QED
  BY <1>1, <1>2, <1>3, <1>4, <1>5, <1>6, <1>7 DEF Next, TurnStep, Save, Quiet

-----------------------------------------------------------------------------
(* ValueInv, step by step.                                                   *)
LEMMA ValueStep == TypeOK /\ ValueInv /\ [Next]_vars => ValueInv'
<1> SUFFICES ASSUME TypeOK, ValueInv, [Next]_vars PROVE ValueInv'
  OBVIOUS
<1> USE DEF TypeOK, ValueInv, Recording
<1>0. Turn \in Writer /\ Turn \notin Cancel /\ Cancel \subseteq Writer
  BY TasksAssumption DEF Writer
<1>1. CASE StartDetached
  BY <1>0, <1>1 DEF StartDetached, BeginSave, Goto
<1>2. CASE Spawn \/ StartBlocking \/ ReplyUnstored
  BY <1>0, <1>2 DEF Spawn, StartBlocking, ReplyUnstored, Goto, turnVars
<1>3. CASE ReplyComplete \/ ReplyStreamed \/ ReplyFailed
  <2>1. PICK state \in Outcome : BeginSave(Turn, "running", state)
    BY <1>3 DEF ReplyComplete, ReplyStreamed, ReplyFailed, Outcome
  <2>2. stage' # "record" /\ UNCHANGED detached
    BY <1>3 DEF ReplyComplete, ReplyStreamed, ReplyFailed
  <2> QED
    BY <1>0, <2>1, <2>2 DEF BeginSave, Goto
<1>4. ASSUME NEW k \in Cancel, CancelStep(k) PROVE ValueInv'
  BY <1>0, <1>4 DEF CancelStep, Load, AgentNotified, AgentUnreachable, Goto, turnVars
<1>5. ASSUME NEW w \in Writer, Open(w) \/ Fill(w) PROVE ValueInv'
  BY <1>0, <1>5 DEF Open, Fill, Goto, turnVars
<1>6. ASSUME NEW w \in Writer, WriteFails(w) \/ RenameFails(w) PROVE ValueInv'
  <2>1. SaveFails(w) /\ pc[w] \in {"opened", "filled"}
    BY <1>6 DEF WriteFails, RenameFails
  <2>2. CASE w = Turn
    BY <1>0, <2>1, <2>2 DEF SaveFails, Outcome
  <2>3. CASE w # Turn
    BY <1>0, <2>1, <2>3 DEF SaveFails
  <2> QED
    BY <2>2, <2>3
<1>7. ASSUME NEW w \in Writer, Rename(w) PROVE ValueInv'
  BY <1>0, <1>7 DEF Rename, Saved
<1>8. ASSUME NEW w \in Writer, Dropped(w) PROVE ValueInv'
  BY <1>0, <1>8 DEF Dropped, turnVars
<1>9. CASE SweepStat \/ SweepRemove \/ Expire
  BY <1>9 DEF SweepStat, SweepRemove, Expire, turnVars
<1>10. CASE Crash
  BY <1>0, <1>10 DEF Crash, turnVars
<1>11. CASE UNCHANGED vars
  BY <1>11 DEF vars, turnVars
<1> QED
  BY <1>1, <1>2, <1>3, <1>4, <1>5, <1>6, <1>7, <1>8, <1>9, <1>10, <1>11
     DEF Next, TurnStep, Save

-----------------------------------------------------------------------------
(* Once there has been a record, nobody makes it "working" again.            *)
LEMMA LateStep ==
  ASSUME TypeOK, SaveInv, ValueInv, Late, [Next]_vars
  PROVE  Late' /\ (Stored' = "working" => Stored = "working")
<1> USE DEF TypeOK, Late, Clean, Recording, Stored
<1>0. Turn \in Writer /\ Turn \notin Cancel /\ Cancel \subseteq Writer
  BY TasksAssumption DEF Writer
<1>1. \A w \in Writer : Saving(w) => value[w] \in Outcome
  BY <1>0 DEF ValueInv, Saving, Writer, Outcome
<1>2. CASE Quiet
  <2>1. UNCHANGED disk
    BY <1>2, QuietIs
  <2>2. CASE StartDetached
    BY <2>2 DEF StartDetached, BeginSave, Goto
  <2>3. CASE Spawn \/ StartBlocking \/ ReplyUnstored
    BY <1>0, <2>1, <2>3 DEF Spawn, StartBlocking, ReplyUnstored, Goto, disk, turnVars
  <2>4. CASE ReplyComplete \/ ReplyStreamed \/ ReplyFailed
    <3>1. PICK state : BeginSave(Turn, "running", state)
      BY <2>4 DEF ReplyComplete, ReplyStreamed, ReplyFailed
    <3>2. stage' # "record" /\ UNCHANGED detached
      BY <2>4 DEF ReplyComplete, ReplyStreamed, ReplyFailed
    <3> QED
      BY <1>0, <2>1, <3>1, <3>2 DEF BeginSave, Goto, disk
  <2>5. ASSUME NEW k \in Cancel, CancelStep(k)
        PROVE  Late' /\ (Stored' = "working" => Stored = "working")
    <3>1. pc'[Turn] = pc[Turn] /\ UNCHANGED turnVars
      BY <1>0, <2>5 DEF CancelStep, Load, AgentNotified, AgentUnreachable, Goto
    <3> QED
      BY <2>1, <3>1 DEF disk, turnVars
  <2>6. ASSUME NEW w \in Writer, Dropped(w)
        PROVE  Late' /\ (Stored' = "working" => Stored = "working")
    BY <1>0, <2>1, <2>6 DEF Dropped, disk, turnVars
  <2>7. CASE Crash
    BY <1>0, <2>1, <2>7 DEF Crash, disk, turnVars
  <2> QED
    BY <1>2, <2>2, <2>3, <2>4, <2>5, <2>6, <2>7 DEF Quiet
<1>3. ASSUME NEW w \in Writer, Open(w)
      PROVE  Late' /\ (Stored' = "working" => Stored = "working")
  <2>1. PICK f \in Inode : tmp' = f /\ content' = [content EXCEPT ![f] = "empty"]
    BY <1>3 DEF Open
  <2>2. /\ UNCHANGED <<final, turnVars>>
        /\ pc'[Turn] = pc[Turn] \/ (pc[Turn] = "save" /\ pc'[Turn] = "opened")
    BY <1>0, <1>3 DEF Open, Goto
  <2>3. Stored' = "working" => Stored = "working"
    BY <2>1, <2>2
  <2> QED
    BY <2>1, <2>2, <2>3 DEF turnVars
<1>4. ASSUME NEW w \in Writer, Fill(w)
      PROVE  Late' /\ (Stored' = "working" => Stored = "working")
  <2>1. /\ UNCHANGED <<tmp, final, turnVars>>
        /\ pc'[Turn] = pc[Turn] \/ (pc[Turn] = "opened" /\ pc'[Turn] = "filled")
    BY <1>0, <1>4 DEF Fill, Goto
  <2>2. value[w] # "working"
    BY <1>1, <1>4 DEF Fill, Goto, Saving, Outcome
  <2>3. \A f \in Inode : content'[f] = "working" => content[f] = "working"
    BY <1>4, <2>2 DEF Fill
  <2> QED
    BY <2>1, <2>3 DEF turnVars
<1>5. ASSUME NEW w \in Writer, WriteFails(w) \/ RenameFails(w)
      PROVE  Late' /\ (Stored' = "working" => Stored = "working")
  <2>1. SaveFails(w) /\ pc[w] \in {"opened", "filled"}
    BY <1>5 DEF WriteFails, RenameFails
  <2>2. \A f \in Inode : content'[f] = "working" => content[f] = "working"
    BY <1>5 DEF WriteFails, RenameFails
  <2>3. UNCHANGED <<tmp, final, detached>>
    BY <2>1 DEF SaveFails
  <2>4. ~(stage' = "record" /\ pc'[Turn] \in {"save", "opened", "filled"}) /\ pc'[Turn] # "idle"
    BY <1>0, <2>1 DEF SaveFails
  <2>5. pc'[Turn] = "over" => pc[Turn] = "over" \/ ~detached
    BY <1>0, <2>1 DEF SaveFails
  <2> QED
    BY <2>2, <2>3, <2>4, <2>5
<1>6. ASSUME NEW w \in Writer, Rename(w)
      PROVE  Late' /\ (Stored' = "working" => Stored = "working")
  <2>1. tmp # NoFile /\ tmp' = NoFile /\ final' = tmp /\ UNCHANGED <<content, detached>>
    BY <1>6 DEF Rename, Saved
  <2>2. Stored' # "working"
    BY <2>1
  <2>3. ~(stage' = "record" /\ pc'[Turn] \in {"save", "opened", "filled"}) /\ pc'[Turn] # "idle"
    BY <1>0, <1>6 DEF Rename, Saved
  <2> QED
    BY <2>1, <2>2, <2>3
<1>7. CASE SweepStat \/ SweepRemove \/ Expire
  BY <1>7 DEF SweepStat, SweepRemove, Expire, disk, turnVars
<1>8. CASE UNCHANGED vars
  BY <1>8 DEF vars, disk, turnVars
<1> QED
  BY <1>2, <1>3, <1>4, <1>5, <1>6, <1>7, <1>8 DEF Next, TurnStep, Save, Quiet

(* Before there is one, only the turn can make it.                           *)
LEMMA FreshStep ==
  ASSUME TypeOK, ValueInv, Fresh, [Next]_vars
  PROVE  Fresh' \/ Late'
<1> USE DEF TypeOK, Fresh, Clean
<1>0. Turn \in Writer /\ Turn \notin Cancel /\ Cancel \subseteq Writer
      /\ \A w \in Writer : pc[w] # "idle" => w = Turn
  BY TasksAssumption DEF Writer
<1>1. CASE Quiet
  <2>1. UNCHANGED disk
    BY <1>1, QuietIs
  <2>2. CASE StartDetached
    BY <1>0, <2>1, <2>2 DEF StartDetached, BeginSave, Goto, disk, ValueInv
  <2>3. CASE Spawn \/ StartBlocking \/ ReplyUnstored
    <3>1. Clean
      BY <2>3 DEF Spawn, StartBlocking, ReplyUnstored, Goto
    <3> QED
      BY <1>0, <2>1, <2>3, <3>1 DEF Spawn, StartBlocking, ReplyUnstored, Goto, disk, turnVars
  <2>4. CASE ReplyComplete \/ ReplyStreamed \/ ReplyFailed
    <3>1. PICK state : BeginSave(Turn, "running", state)
      BY <2>4 DEF ReplyComplete, ReplyStreamed, ReplyFailed
    <3> QED
      BY <1>0, <2>1, <3>1 DEF BeginSave, Goto, disk
  <2>5. ASSUME NEW k \in Cancel, CancelStep(k) PROVE FALSE
    BY <1>0, <2>5, NothingStored DEF CancelStep, Load, AgentNotified, AgentUnreachable, Goto, Stored
  <2>6. ASSUME NEW w \in Writer, Dropped(w) PROVE Fresh'
    BY <1>0, <2>1, <2>6 DEF Dropped, disk, turnVars
  <2>7. CASE Crash
    BY <1>0, <2>1, <2>7 DEF Crash, disk, turnVars
  <2> QED
    BY <1>1, <2>2, <2>3, <2>4, <2>5, <2>6, <2>7 DEF Quiet
<1>2. ASSUME NEW w \in Writer, Open(w) PROVE Fresh'
  <2>1. PICK f \in Inode : tmp' = f /\ content' = [content EXCEPT ![f] = "empty"]
    BY <1>2 DEF Open
  <2>2. w = Turn /\ final' = final /\ \A k \in Cancel : pc'[k] = pc[k]
    BY <1>0, <1>2 DEF Open, Goto
  <2> QED
    BY <2>1, <2>2
<1>3. ASSUME NEW w \in Writer, Fill(w) PROVE Fresh'
  <2>1. /\ w = Turn /\ UNCHANGED <<tmp, final, stage>> /\ pc'[Turn] = "filled"
        /\ \A k \in Cancel : pc'[k] = pc[k]
    BY <1>0, <1>3 DEF Fill, Goto, turnVars
  <2>2. CASE stage = "record"
    BY <2>1, <2>2
  <2>3. CASE stage # "record"
    <3>1. value[w] # "working"
      BY <2>1, <2>3 DEF ValueInv, Outcome
    <3>2. \A f \in Inode : content'[f] = "working" => content[f] = "working"
      BY <1>3, <3>1 DEF Fill
    <3> QED
      BY <2>1, <2>3, <3>2
  <2> QED
    BY <2>2, <2>3
<1>4. ASSUME NEW w \in Writer, WriteFails(w) \/ RenameFails(w) PROVE Fresh'
  <2>1. SaveFails(w) /\ pc[w] \in {"opened", "filled"} /\ w = Turn
    BY <1>0, <1>4 DEF WriteFails, RenameFails
  <2>2. \A f \in Inode : content'[f] = "working" => content[f] = "working"
    BY <1>4 DEF WriteFails, RenameFails
  <2>3. UNCHANGED <<tmp, final>> /\ (\A k \in Cancel : pc'[k] = pc[k])
        /\ pc'[Turn] \in {"save", "unsaved", "over"} /\ (stage' # "record" => stage # "record")
    BY <1>0, <2>1 DEF SaveFails
  <2> QED
    BY <2>2, <2>3
<1>5. ASSUME NEW w \in Writer, Rename(w) PROVE Late'
  <2>1. /\ w = Turn /\ pc[Turn] = "filled"
        /\ tmp # NoFile /\ tmp' = NoFile /\ final' = tmp /\ UNCHANGED <<content, detached>>
    BY <1>0, <1>5 DEF Rename, Saved
  <2>2. CASE stage = "record"
    <3>1. pc'[Turn] = "recorded" /\ detached
      BY <1>0, <1>5, <2>1, <2>2 DEF Rename, Saved, ValueInv, Recording
    <3> QED
      BY <2>1, <3>1 DEF Late, Recording
  <2>3. CASE stage # "record"
    <3>1. content[tmp] # "working"
      BY <2>1, <2>3
    <3>2. Stored' # "working"
      BY <2>1, <3>1 DEF Stored
    <3>3. stage' # "record" /\ pc'[Turn] # "idle"
      BY <1>0, <1>5, <2>1, <2>3 DEF Rename, Saved
    <3> QED
      BY <2>1, <3>2, <3>3 DEF Late, Recording
  <2> QED
    BY <2>2, <2>3
<1>6. CASE SweepStat \/ SweepRemove \/ Expire
  BY <1>6 DEF SweepStat, SweepRemove, Expire, disk, turnVars
<1>7. CASE UNCHANGED vars
  BY <1>7 DEF vars, disk, turnVars
<1> QED
  BY <1>1, <1>2, <1>3, <1>4, <1>5, <1>6, <1>7 DEF Next, TurnStep, Save, Quiet

-----------------------------------------------------------------------------
(* All of it holds for ever.                                                 *)
LEMMA Inductive == Spec => []IInv
<1>1. Init => IInv
  <2> SUFFICES ASSUME Init PROVE IInv
    OBVIOUS
  <2>0. Turn \in Writer /\ Cancel \subseteq Writer
    BY DEF Writer
  <2>1. TypeOK
    BY DEF Init, TypeOK, TaskState
  <2>2. SaveInv
    BY DEF Init, SaveInv, Saving
  <2>3. ValueInv /\ Fresh
    BY <2>0 DEF Init, ValueInv, Recording, Fresh, Clean
  <2> QED
    BY <2>1, <2>2, <2>3 DEF IInv
<1>2. IInv /\ [Next]_vars => IInv'
  BY TypeStep, SaveStep, ValueStep, FreshStep, LateStep DEF IInv
<1> QED
  BY <1>1, <1>2, PTL DEF Spec

(* The types of the writers and of the directory.                            *)
THEOREM TypeCorrect == Spec => []TypeOK
<1>1. IInv => TypeOK
  BY DEF IInv
<1> QED
  BY <1>1, Inductive, PTL

(* WholeFile: readers see whole records as long as no saves overlap,         *)
(* whichever crashes and failed writes there were.                           *)
THEOREM WholeFileHolds == Spec => []WholeFile
<1>1. IInv => WholeFile
  BY DEF IInv, TypeOK, SaveInv, WholeFile, NeverPartial, Stored
<1> QED
  BY <1>1, Inductive, PTL

(* Settled: who finds the turn over does not find the task working.          *)
THEOREM SettledHolds == Spec => []Settled
<1>1. IInv => Settled
  BY NothingStored DEF IInv, Fresh, Late, Settled, Stored
<1> QED
  BY <1>1, Inductive, PTL

(* NeverBackToWorking: an outcome is not replaced by the record of the start,*)
(* however many cancels save their copies.                                   *)
THEOREM NeverBackToWorkingHolds == Spec => NeverBackToWorking
<1>1. IInv /\ [Next]_vars => [(Stored \in Outcome) => (Stored' # "working")]_vars
  <2> SUFFICES ASSUME IInv, [Next]_vars, Stored \in Outcome
               PROVE  Stored' # "working"
    OBVIOUS
  <2>1. Late
    BY NothingStored DEF IInv, Fresh, Stored
  <2>2. Stored # "working"
    BY DEF Outcome
  <2> QED
    BY <2>1, <2>2, LateStep DEF IInv
<1> QED
  BY <1>1, Inductive, PTL DEF Spec, NeverBackToWorking
================================================================================
