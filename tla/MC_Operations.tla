----------------------------- MODULE MC_Operations -----------------------------
(* An instance of the parts of a gateway that serve its operator: approvals, *)
(* the journal with its health monitor, the log level and the log directory. *)
(* They share no state; a behaviour is one of the part it begins with.       *)
EXTENDS Approvals, Journal, LogLevel, LogFiles, TLC

CONSTANTS a1, a2, g1, c1, c2, p1, p2, p3

Prints1 == "echo" :> "print1" @@ "cat" :> "print2" @@ "cat in dir" :> "print2"

VARIABLE part

vars == <<part, approvalsVars, journalVars, logLevelVars, logFilesVars>>

Of(p) ==
  /\ part = p
  /\ part' = p
  /\ p # "approvals" => UNCHANGED approvalsVars
  /\ p # "journal" => UNCHANGED journalVars
  /\ p # "level" => UNCHANGED logLevelVars
  /\ p # "files" => UNCHANGED logFilesVars

(* A part that is not looked at is in one initial state.  The two agents are *)
(* interchangeable: the first command is for one of them.                    *)
Init ==
  /\ ApprovalsInit /\ JournalInit /\ LogLevelInit /\ LogFilesInit
  /\ part \in {"approvals", "journal", "level", "files"}
  /\ command[c1].agent = a1
  /\ part # "approvals" =>
       command = [c \in Commands |-> [agent |-> a1, status |-> "approved"]]
  /\ part # "level" => installed /\ posted = [p \in Posts |-> "info"]

Next ==
  \/ Of("approvals") /\ ApprovalsNext
  \/ Of("journal") /\ JournalNext
  \/ Of("level") /\ LogLevelNext
  \/ Of("files") /\ LogFilesNext

(* Tasks of the gateway go on, and timers run out.                           *)
Fairness ==
  /\ WF_vars(Of("journal") /\ MonitorStep)
  /\ \A p \in Posts : WF_vars(Of("level") /\ Handle(p))

Spec == Init /\ [][Next]_vars /\ Fairness

(* The type invariants of the parts.                                         *)
TypeOK == ApprovalsTypeOK /\ JournalTypeOK /\ LogLevelTypeOK /\ LogFilesTypeOK
===============================================================================
