------------------------------- MODULE Approvals -------------------------------
(***************************************************************************)
(* The human gate (gatewayd/src/approvals.rs) at the start of a gateway    *)
(* (main.rs) and in the CLI (cli.rs): an agent is served only by a gateway *)
(* that found it approved.  Both work on one SQLite table, each operation  *)
(* on a connection of its own, without transactions: a statement is atomic *)
(* and an action, an operation of two statements is two of them.           *)
(*                                                                         *)
(* An entry of the config is what an agent is; its print is what is        *)
(* approved of it (command, directory or url, not the environment nor the  *)
(* streaming limits).  The operator edits the config between starts.       *)
(***************************************************************************)
EXTENDS Naturals

CONSTANTS
  Agents,      \* the agents the config names
  Entries,     \* what the config may say of an agent
  PrintOf,     \* [Entries -> prints]: agent_fingerprint
  NoPrint,     \* '', the print of a row the CLI has inserted
  Usable,      \* the entries build_registry accepts
  Gateways,    \* processes that start on this database
  Commands     \* invocations of --approve and --reject

Prints == {PrintOf[e] : e \in Entries}

ASSUME ApprovalsAssumption ==
  /\ NoPrint \notin Prints
  /\ Usable \subseteq Entries
  /\ PrintOf \in [Entries -> Prints]
  /\ Agents # {} /\ Entries # {}

VARIABLES
  row,         \* the table: agent_id -> its row, or NoRow
  startPc,     \* where main() of a gateway is
  config,      \* raw_config.agents
  toRegister,  \* the agents of the loop of main() still to come
  agentAt,     \* the agent in hand
  found,       \* register: the row its SELECT returned
  allowed,     \* main(): the ids that may be served; the Registry once up
  cmdPc,       \* where ApprovalStore::set of a command is
  command,     \* its agent and status
  consents,    \* history: <<agent, print>> approved by a command
  wasStanding, \* history: per gateway, the agents approved at some instant of its start
  everStanding \* history: per gateway, those approved at every instant of it

approvalsVars == <<row, startPc, config, toRegister, agentAt, found, allowed,
                   cmdPc, command, consents, wasStanding, everStanding>>

Status == {"approved", "rejected", "pending"}
NoRow == [print |-> NoPrint, status |-> "none", decided |-> FALSE]
RowType == [print : Prints \union {NoPrint}, status : Status, decided : BOOLEAN]
Starting(g) == startPc[g] \in {"loop", "write"}

(* The row r of agent a approves what the config of gateway g says of a.     *)
Approves(r, g, a) == r.status = "approved" /\ r.print = PrintOf[config[g][a]]

ApprovalsInit ==
  /\ row = [a \in Agents |-> NoRow]
  /\ startPc = [g \in Gateways |-> "off"]
  /\ config = [g \in Gateways |-> [a \in Agents |-> CHOOSE e \in Entries : TRUE]]
  /\ toRegister = [g \in Gateways |-> {}]
  /\ agentAt = [g \in Gateways |-> CHOOSE a \in Agents : TRUE]
  /\ found = [g \in Gateways |-> NoRow]
  /\ allowed = [g \in Gateways |-> {}]
  /\ cmdPc = [c \in Commands |-> "ready"]
  /\ command \in [Commands -> [agent : Agents, status : {"approved", "rejected"}]]
  /\ consents = {}
  /\ wasStanding = [g \in Gateways |-> {}]
  /\ everStanding = [g \in Gateways |-> {}]

-----------------------------------------------------------------------------
(* A statement that writes the row of a.                                     *)
Put(a, r) ==
  /\ row' = [row EXCEPT ![a] = r]
  /\ wasStanding' = [g \in Gateways |->
       IF Starting(g) /\ Approves(r, g, a) THEN wasStanding[g] \union {a} ELSE wasStanding[g]]
  /\ everStanding' = [g \in Gateways |->
       IF Starting(g) /\ ~Approves(r, g, a) THEN everStanding[g] \ {a} ELSE everStanding[g]]

NothingPut == UNCHANGED <<row, wasStanding, everStanding>>

(* A gateway starts with a config and opens the store.                       *)
StartGateway(g) ==
  /\ startPc[g] = "off"
  /\ \E c \in [Agents -> Entries] :
       LET standing == {a \in Agents : /\ row[a].status = "approved"
                                       /\ row[a].print = PrintOf[c[a]]}
       IN  /\ config' = [config EXCEPT ![g] = c]
           /\ wasStanding' = [wasStanding EXCEPT ![g] = standing]
           /\ everStanding' = [everStanding EXCEPT ![g] = standing]
  /\ startPc' = [startPc EXCEPT ![g] = "loop"]
  /\ toRegister' = [toRegister EXCEPT ![g] = Agents]
  /\ allowed' = [allowed EXCEPT ![g] = {}]
  /\ UNCHANGED <<row, agentAt, found, cmdPc, command, consents>>

(* register: the SELECT.  The agents come in the order of a HashMap.         *)
Select(g) ==
  /\ startPc[g] = "loop"
  /\ \E a \in toRegister[g] :
       /\ agentAt' = [agentAt EXCEPT ![g] = a]
       /\ found' = [found EXCEPT ![g] = row[a]]
       /\ toRegister' = [toRegister EXCEPT ![g] = @ \ {a}]
  /\ startPc' = [startPc EXCEPT ![g] = "write"]
  /\ NothingPut
  /\ UNCHANGED <<config, allowed, cmdPc, command, consents>>

PrintHere(g) == PrintOf[config[g][agentAt[g]]]
PendingKept(g) == [print |-> PrintHere(g), status |-> "pending", decided |-> found[g].decided]
PendingRow(g) == [print |-> PrintHere(g), status |-> "pending", decided |-> FALSE]

(* What register decided by the row it had read: the statement it executes.  *)
FirstSight(g) == found[g] = NoRow
NeverChanged(g) == FALSE
Changed(g) == ~FirstSight(g) /\ found[g].print # PrintHere(g)

Registered(g) ==
  /\ startPc' = [startPc EXCEPT ![g] = "loop"]
  /\ found' = [found EXCEPT ![g] = NoRow]
  /\ UNCHANGED <<config, toRegister, agentAt, cmdPc, command, consents>>

(* register: no row was there; the INSERT meets the primary key.             *)
RegisterNew(g) ==
  /\ startPc[g] = "write"
  /\ FirstSight(g)
  /\ row[agentAt[g]] = NoRow
  /\ Put(agentAt[g], PendingRow(g))
  /\ Registered(g)
  /\ UNCHANGED allowed

(* register: another print was stored; the UPDATE asks for a new approval.   *)
RegisterChanged(g) ==
  /\ startPc[g] = "write"
  /\ Changed(g)
  /\ Put(agentAt[g], PendingRow(g))
  /\ Registered(g)
  /\ UNCHANGED allowed

AdmitsPending(g) == found[g].status # "rejected"
Admits(g) == found[g].status = "approved"

(* register: the stored print is this one; only last_seen_at is written and  *)
(* the status is the one the SELECT had returned.                            *)
RegisterKnown(g) ==
  /\ startPc[g] = "write"
  /\ ~FirstSight(g)
  /\ ~Changed(g)
  /\ allowed' = [allowed EXCEPT ![g] =
       IF Admits(g) THEN @ \union {agentAt[g]} ELSE @]
  /\ NothingPut
  /\ Registered(g)

Down(g) ==
  /\ startPc' = [startPc EXCEPT ![g] = "off"]
  /\ allowed' = [allowed EXCEPT ![g] = {}]
  /\ toRegister' = [toRegister EXCEPT ![g] = {}]
  /\ found' = [found EXCEPT ![g] = NoRow]
  /\ wasStanding' = [wasStanding EXCEPT ![g] = {}]
  /\ everStanding' = [everStanding EXCEPT ![g] = {}]
  /\ UNCHANGED <<row, config, agentAt, cmdPc, command, consents>>

(* main() returns an error: the primary key was taken between the statements *)
(* of register, or SQLite refuses a statement (busy, disk full).             *)
StartFails(g) == Starting(g) /\ Down(g)

(* build_registry: takes the allowed agents, and refuses the whole config    *)
(* for an entry of one of them that is no good.                              *)
BuildRegistry(g) ==
  /\ startPc[g] = "loop"
  /\ toRegister[g] = {}
  /\ \A a \in allowed[g] : config[g][a] \in Usable
  /\ startPc' = [startPc EXCEPT ![g] = "up"]
  /\ NothingPut
  /\ UNCHANGED <<config, toRegister, agentAt, found, allowed, cmdPc, command, consents>>

(* It stops, or crashes.                                                     *)
StopGateway(g) == startPc[g] = "up" /\ Down(g)

-----------------------------------------------------------------------------
(* run_approvals and ApprovalStore::set: the UPDATE, which is all when a row *)
(* was changed and keeps the print the row has.                              *)
Decide(c, a, print) ==
  /\ Put(a, [print |-> print, status |-> command[c].status, decided |-> TRUE])
  /\ consents' = IF command[c].status = "approved" THEN consents \union {<<a, print>>}
                                                   ELSE consents
  /\ cmdPc' = [cmdPc EXCEPT ![c] = "done"]
  /\ UNCHANGED <<startPc, config, toRegister, agentAt, found, allowed, command>>

SetUpdate(c) ==
  /\ cmdPc[c] = "ready"
  /\ row[command[c].agent] # NoRow
  /\ Decide(c, command[c].agent, row[command[c].agent].print)

Untouched == UNCHANGED <<startPc, config, toRegister, agentAt, found, allowed,
                         command, consents>>

(* No row was changed.                                                       *)
SetMissed(c) ==
  /\ cmdPc[c] = "ready"
  /\ row[command[c].agent] = NoRow
  /\ cmdPc' = [cmdPc EXCEPT ![c] = "insert"]
  /\ NothingPut
  /\ Untouched

(* The INSERT, with an empty print.                                          *)
SetInsert(c) ==
  /\ cmdPc[c] = "insert"
  /\ row[command[c].agent] = NoRow
  /\ Decide(c, command[c].agent, NoPrint)

(* The command fails: the primary key was taken meanwhile, or SQLite refuses.*)
SetFails(c) ==
  /\ cmdPc[c] \in {"ready", "insert"}
  /\ cmdPc' = [cmdPc EXCEPT ![c] = "done"]
  /\ NothingPut
  /\ Untouched

StartStep(g) ==
  \/ StartGateway(g) \/ Select(g) \/ RegisterNew(g) \/ RegisterChanged(g)
  \/ RegisterKnown(g) \/ StartFails(g) \/ BuildRegistry(g) \/ StopGateway(g)

SetStep(c) == SetUpdate(c) \/ SetMissed(c) \/ SetInsert(c) \/ SetFails(c)

ApprovalsNext == (\E g \in Gateways : StartStep(g)) \/ (\E c \in Commands : SetStep(c))

ApprovalsSpec == ApprovalsInit /\ [][ApprovalsNext]_approvalsVars

-----------------------------------------------------------------------------
(* A pending row is an undecided one, and the only kind that is.             *)
ApprovalsTypeOK ==
  /\ row \in [Agents -> RowType \union {NoRow}]
  /\ startPc \in [Gateways -> {"off", "loop", "write", "up"}]
  /\ config \in [Gateways -> [Agents -> Entries]]
  /\ toRegister \in [Gateways -> SUBSET Agents]
  /\ agentAt \in [Gateways -> Agents]
  /\ found \in [Gateways -> RowType \union {NoRow}]
  /\ allowed \in [Gateways -> SUBSET Agents]
  /\ cmdPc \in [Commands -> {"ready", "insert", "done"}]
  /\ command \in [Commands -> [agent : Agents, status : {"approved", "rejected"}]]
  /\ consents \subseteq Agents \X (Prints \union {NoPrint})
  /\ wasStanding \in [Gateways -> SUBSET Agents]
  /\ everStanding \in [Gateways -> SUBSET Agents]
  /\ \A a \in Agents : row[a] \in RowType => (row[a].status = "pending" <=> ~row[a].decided)

(* "You approve the exact thing you run" (approvals.rs:8): whatever becomes  *)
(* of the rows, the config and the commands meanwhile, a gateway admits an   *)
(* agent only if an approval was once given to the print its own config has  *)
(* for it.                                                                   *)
Consent == \A g \in Gateways : \A a \in allowed[g] : <<a, PrintOf[config[g][a]]>> \in consents

(* register reads and writes in two steps, so a gateway may serve an agent   *)
(* rejected while it was starting.  What it does promise: it admits only     *)
(* agents whose row approved this config at some instant of this very start, *)
(* and, once up, every agent whose row did so at every instant.              *)
AdmitsStanding == \A g \in Gateways :
  /\ allowed[g] \subseteq wasStanding[g]
  /\ startPc[g] = "up" => everStanding[g] \subseteq allowed[g]
===============================================================================
