------------------------------- MODULE FrontEnd -------------------------------
(***************************************************************************)
(* The HTTP handlers in front of the ACP agents                            *)
(* (gatewayd/src/transport_http.rs): how concurrent requests share the     *)
(* cache of adapters, whose mutex is held while an agent's process is      *)
(* started, and the agent's stream slots, and what is left of a request    *)
(* whose client hangs up: the server then drops the handler's future at    *)
(* the await it is in, while tasks the handler has spawned go on.          *)
(* What a turn does with its session is the business of Conversations,     *)
(* what becomes of its events that of StreamDelivery, of its record Tasks. *)
(***************************************************************************)
EXTENDS StreamSlots

CONSTANTS
  Req,      \* requests of clients
  NoReq

VARIABLES
  pc,       \* what the handler awaits; "over" when it is answered or dropped
  agent,    \* the agent the request is for
  kind,     \* "send", "detached" (blocking: false), or "other" methods
  job,      \* the task it has spawned: "none", "turn", "relay", "store"
  mutex,    \* the holder of HttpState::adapters
  adapters, \* agents with an adapter in the cache
  procs     \* processes of each agent: the adapters' and those being started

requestVars == <<agent, kind>>
vars == <<pc, requestVars, job, mutex, adapters, procs, free>>

ASSUME FrontEndAssumption == IsFiniteSet(Req) /\ NoReq \notin Req

Init ==
  /\ SlotsInit
  /\ pc = [r \in Req |-> "new"]
  /\ agent \in [Req -> Agent]
  /\ kind \in [Req -> {"send", "detached", "other"}]
  /\ job = [r \in Req |-> "none"]
  /\ mutex = NoReq
  /\ adapters = {}
  /\ procs = [a \in Agent |-> 0]

Goto(r, from, to) == pc[r] = from /\ pc' = [pc EXCEPT ![r] = to]

(* Where a request goes with its adapter                                     *)
Work(r) == IF kind[r] = "detached" THEN "slot" ELSE IF kind[r] = "send" THEN "turn" ELSE "other"

-----------------------------------------------------------------------------
(* get_or_spawn_adapter                                                      *)

(* The token is checked first, the body of a REST request too.               *)
Arrive(r) ==
  /\ \/ Goto(r, "new", "lock") \/ Goto(r, "new", "over")
  /\ UNCHANGED <<requestVars, job, mutex, adapters, procs, free>>

(* The lookup apart from the insertion: the mutex not held in between.       *)
FindOrSpawnUnlocked(r) ==
  /\ mutex = NoReq
  /\ \/ agent[r] \in adapters /\ Goto(r, "lock", Work(r)) /\ UNCHANGED procs
     \/ /\ agent[r] \notin adapters /\ Goto(r, "lock", "spawn")
        /\ procs' = [procs EXCEPT ![agent[r]] = @ + 1]
  /\ UNCHANGED <<requestVars, job, mutex, adapters, free>>

FindOrSpawn(r) ==
  /\ mutex = NoReq
  /\ \/ agent[r] \in adapters /\ Goto(r, "lock", Work(r)) /\ UNCHANGED <<mutex, procs>>
     \/ /\ agent[r] \notin adapters /\ Goto(r, "lock", "spawn")
        /\ mutex' = r
        /\ procs' = [procs EXCEPT ![agent[r]] = @ + 1]
  /\ UNCHANGED <<requestVars, job, adapters, free>>

(* The agent has answered initialize.                                        *)
Spawned(r) ==
  /\ Goto(r, "spawn", Work(r))
  /\ adapters' = adapters \cup {agent[r]}
  /\ mutex' = NoReq
  /\ UNCHANGED <<requestVars, job, procs, free>>

(* It has not, within call_timeout, or the client hangs up: the process is   *)
(* killed with its handle (kill_on_drop).                                    *)
SpawnFails(r) ==
  /\ Goto(r, "spawn", "over")
  /\ procs' = [procs EXCEPT ![agent[r]] = @ - 1]
  /\ mutex' = NoReq
  /\ UNCHANGED <<requestVars, job, adapters, free>>

-----------------------------------------------------------------------------
(* A method without a stream slot (a resubscription needs none), and a send  *)
(* with a whole reply or an error                                            *)
Reply(r) ==
  /\ Goto(r, "other", "over") \/ Goto(r, "turn", "over")
  /\ UNCHANGED <<requestVars, job, mutex, adapters, procs, free>>

(* A streamed reply: the relay runs on its own, the response holds the slot. *)
Stream(r) ==
  /\ Goto(r, "turn", "sse")
  /\ TakeSlot(agent[r])
  /\ job' = [job EXCEPT ![r] = "relay"]
  /\ UNCHANGED <<requestVars, mutex, adapters, procs>>

(* Refused, although the turn has begun; nobody reads what it yields.        *)
Refuse(r) ==
  /\ ~HasSlot(agent[r])
  /\ Goto(r, "turn", "over") \/ Goto(r, "slot", "over")
  /\ UNCHANGED <<requestVars, job, mutex, adapters, procs, free>>

(* The relay has closed its channel, and the response ends.                  *)
ResponseEnds(r) ==
  /\ job[r] = "none"
  /\ Goto(r, "sse", "over")
  /\ ReturnSlot(agent[r])
  /\ UNCHANGED <<requestVars, job, mutex, adapters, procs>>

-----------------------------------------------------------------------------
(* start_detached_send                                                       *)

TakeDetached(r) ==
  /\ Goto(r, "slot", "record")
  /\ TakeSlot(agent[r])
  /\ UNCHANGED <<requestVars, job, mutex, adapters, procs>>

(* The task is on record as working: the job gets the slot.                  *)
Recorded(r) ==
  /\ Goto(r, "record", "over")
  /\ job' = [job EXCEPT ![r] = "turn"]
  /\ UNCHANGED <<requestVars, mutex, adapters, procs, free>>

RecordFailsKeepsSlot(r) ==
  /\ Goto(r, "record", "over")
  /\ UNCHANGED <<requestVars, job, mutex, adapters, procs, free>>

(* Not recorded, or the client hangs up meanwhile                            *)
RecordFails(r) ==
  /\ Goto(r, "record", "over")
  /\ ReturnSlot(agent[r])
  /\ UNCHANGED <<requestVars, job, mutex, adapters, procs>>

GotoJob(r, from, to) == job[r] = from /\ job' = [job EXCEPT ![r] = to]

(* run_detached_turn: a whole reply or an error, or a stream                 *)
JobReply(r) ==
  /\ GotoJob(r, "turn", "store") \/ GotoJob(r, "turn", "relay")
  /\ UNCHANGED <<pc, requestVars, mutex, adapters, procs, free>>

(* If what the client does not read held the relay back                      *)
RelayEndsWithClient(r) ==
  /\ kind[r] = "detached" \/ pc[r] = "sse"
  /\ GotoJob(r, "relay", IF kind[r] = "detached" THEN "store" ELSE "none")
  /\ UNCHANGED <<pc, requestVars, mutex, adapters, procs, free>>

(* The agent's stream ends; the collected task of a detached one is stored.  *)
RelayEnds(r) ==
  /\ GotoJob(r, "relay", IF kind[r] = "detached" THEN "store" ELSE "none")
  /\ UNCHANGED <<pc, requestVars, mutex, adapters, procs, free>>

(* Stored, or not, which is only logged                                      *)
JobStored(r) ==
  /\ GotoJob(r, "store", "none")
  /\ ReturnSlot(agent[r])
  /\ UNCHANGED <<pc, requestVars, mutex, adapters, procs>>

-----------------------------------------------------------------------------
(* The client hangs up: while it starts a process as SpawnFails, while it    *)
(* records as RecordFails, else the handler holds a slot only of a response. *)
HangUp(r) ==
  /\ \/ /\ Goto(r, "lock", "over") \/ Goto(r, "other", "over") \/ Goto(r, "turn", "over")
        /\ UNCHANGED free
     \/ Goto(r, "sse", "over") /\ ReturnSlot(agent[r])
  /\ UNCHANGED <<requestVars, job, mutex, adapters, procs>>

Step(r) ==
  \/ FindOrSpawn(r) \/ Spawned(r) \/ SpawnFails(r) \/ Reply(r) \/ Stream(r) \/ Refuse(r)
  \/ ResponseEnds(r) \/ TakeDetached(r) \/ Recorded(r) \/ RecordFails(r)

JobStep(r) == JobReply(r) \/ RelayEnds(r) \/ JobStored(r)

Next == \E r \in Req : Arrive(r) \/ Step(r) \/ JobStep(r) \/ HangUp(r)

Spec == Init /\ [][Next]_vars

(* Every wait of a handler and of its job is for the mutex, the file system  *)
(* or an agent's answer, chunk or start, which have timeouts.                *)
Fairness == \A r \in Req : WF_vars(Step(r)) /\ WF_vars(JobStep(r))

FairSpec == Spec /\ Fairness
-----------------------------------------------------------------------------
(* Properties                                                                *)

TypeOK ==
  /\ free \in [Agent -> 0 .. StreamLimit]
  /\ pc \in [Req -> {"new", "lock", "spawn", "other", "turn", "sse", "slot", "record", "over"}]
  /\ agent \in [Req -> Agent]
  /\ kind \in [Req -> {"send", "detached", "other"}]
  /\ job \in [Req -> {"none", "turn", "relay", "store"}]
  /\ mutex \in Req \cup {NoReq}
  /\ adapters \subseteq Agent
  /\ procs \in [Agent -> Nat]

(* However many requests find no adapter at once, fail to start the agent or *)
(* hang up while it starts: an agent has one process, in the cache or being  *)
(* started, and none is left behind.                                         *)
OneProcess == \A a \in Agent :
  procs[a] = IF a \in adapters \/ (mutex # NoReq /\ agent[mutex] = a) THEN 1 ELSE 0

(* A response being streamed, a detached send being recorded or run          *)
HoldsSlot(r) ==
  \/ pc[r] \in {"sse", "record"}
  \/ kind[r] = "detached" /\ job[r] # "none"

(* The slots out are those of live holders, over failures to record, handed  *)
(* over permits and clients that hang up; so at most StreamLimit detached    *)
(* turns run, and no slot is ever lost.                                      *)
SlotsAccounted == \A a \in Agent :
  SlotsInUse(a) = Cardinality({r \in Req : agent[r] = a /\ HoldsSlot(r)})

(* A request that is accepted comes to an answer, its job to an end, also    *)
(* behind another agent that does not start, and gives its slot back.        *)
Settles == \A r \in Req :
  pc[r] # "new" ~> pc[r] = "over" /\ job[r] = "none"
===============================================================================
