---------------------------- MODULE FrontEnd_proof ----------------------------
(***************************************************************************)
(* OneProcess and SlotsAccounted for every finite set of requests, every   *)
(* set of agents and every limit.                                          *)
(***************************************************************************)
EXTENDS FrontEnd, FiniteSetTheorems, TLAPS

(* The mutex is held by the one request that starts a process, for an agent  *)
(* without an adapter.                                                       *)
LockInv ==
  /\ \A r \in Req : pc[r] = "spawn" => mutex = r
  /\ mutex # NoReq => pc[mutex] = "spawn" /\ agent[mutex] \notin adapters

(* Only a send gets to a turn and a response of its own, only a detached one *)
(* takes a slot before; its job begins when its handler is over.             *)
JobInv == \A r \in Req :
  /\ pc[r] \in {"turn", "sse"} => kind[r] = "send"
  /\ pc[r] \in {"slot", "record"} => kind[r] = "detached"
  /\ kind[r] = "detached" /\ pc[r] # "over" => job[r] = "none"
  /\ job[r] \in {"turn", "store"} => kind[r] = "detached"

FlowInv == TypeOK /\ LockInv /\ JobInv /\ OneProcess

IInv == FlowInv /\ SlotsAccounted

Holders(a) == {r \in Req : agent[r] = a /\ HoldsSlot(r)}

-----------------------------------------------------------------------------
(* The counting of slots                                                     *)

(* Nobody comes to hold a slot and nobody ceases to.                         *)
LEMMA SlotsStay ==
  ASSUME SlotsAccounted, UNCHANGED <<free, agent>>,
         \A q \in Req : HoldsSlot(q)' <=> HoldsSlot(q)
  PROVE  SlotsAccounted'
<1>1. \A a \in Agent : Holders(a)' = Holders(a)
  BY DEF Holders
<1> QED
  BY <1>1 DEF SlotsAccounted, Holders, SlotsInUse

(* One request takes a slot.                                                 *)
LEMMA SlotTaken ==
  ASSUME IInv, NEW r \in Req, TakeSlot(agent[r]), UNCHANGED agent,
         ~HoldsSlot(r), HoldsSlot(r)',
         \A q \in Req \ {r} : HoldsSlot(q)' <=> HoldsSlot(q)
  PROVE  SlotsAccounted' /\ free' \in [Agent -> 0 .. StreamLimit]
<1>0. /\ agent[r] \in Agent /\ free \in [Agent -> 0 .. StreamLimit] /\ StreamLimit \in Nat
      /\ IsFiniteSet(Req) /\ SlotsAccounted
  BY FrontEndAssumption, StreamSlotsAssumption DEF IInv, FlowInv, TypeOK
<1>1. \A a \in Agent : /\ IsFiniteSet(Holders(a)) /\ Cardinality(Holders(a)) \in Nat
                       /\ StreamLimit - free[a] = Cardinality(Holders(a))
  BY <1>0, FS_Subset, FS_CardinalityType DEF Holders, SlotsAccounted, SlotsInUse
<1>2. \A a \in Agent \ {agent[r]} : Holders(a)' = Holders(a)
  BY DEF Holders
<1>3. Holders(agent[r])' = Holders(agent[r]) \cup {r} /\ r \notin Holders(agent[r])
  BY DEF Holders
<1>4. Cardinality(Holders(agent[r]))' = Cardinality(Holders(agent[r])) + 1
  BY <1>0, <1>1, <1>3, FS_AddElement
<1>5. free' = [free EXCEPT ![agent[r]] = @ - 1] /\ free[agent[r]] > 0
  BY DEF TakeSlot, HasSlot
<1>6. free' \in [Agent -> 0 .. StreamLimit]
  BY <1>0, <1>5
<1>7. \A a \in Agent : StreamLimit - free'[a] = Cardinality(Holders(a)')
  <2> SUFFICES ASSUME NEW a \in Agent PROVE StreamLimit - free'[a] = Cardinality(Holders(a)')
    OBVIOUS
  <2>1. CASE a = agent[r]
    BY <1>0, <1>1, <1>4, <1>5, <2>1
  <2>2. CASE a # agent[r]
    BY <1>0, <1>1, <1>2, <1>5, <2>2
  <2> QED
    BY <2>1, <2>2
<1> QED
  BY <1>6, <1>7 DEF SlotsAccounted, Holders, SlotsInUse

(* One request gives its slot back.                                          *)
LEMMA SlotReturned ==
  ASSUME IInv, NEW r \in Req, ReturnSlot(agent[r]), UNCHANGED agent,
         HoldsSlot(r), ~HoldsSlot(r)',
         \A q \in Req \ {r} : HoldsSlot(q)' <=> HoldsSlot(q)
  PROVE  SlotsAccounted' /\ free' \in [Agent -> 0 .. StreamLimit]
<1>0. /\ agent[r] \in Agent /\ free \in [Agent -> 0 .. StreamLimit] /\ StreamLimit \in Nat
      /\ IsFiniteSet(Req) /\ SlotsAccounted
  BY FrontEndAssumption, StreamSlotsAssumption DEF IInv, FlowInv, TypeOK
<1>1. \A a \in Agent : /\ IsFiniteSet(Holders(a)) /\ Cardinality(Holders(a)) \in Nat
                       /\ StreamLimit - free[a] = Cardinality(Holders(a))
  BY <1>0, FS_Subset, FS_CardinalityType DEF Holders, SlotsAccounted, SlotsInUse
<1>2. \A a \in Agent \ {agent[r]} : Holders(a)' = Holders(a)
  BY DEF Holders
<1>3. Holders(agent[r])' = Holders(agent[r]) \ {r} /\ r \in Holders(agent[r])
  BY DEF Holders
<1>4. Cardinality(Holders(agent[r]))' = Cardinality(Holders(agent[r])) - 1
  BY <1>0, <1>1, <1>3, FS_RemoveElement
<1>5. free' = [free EXCEPT ![agent[r]] = @ + 1]
  BY DEF ReturnSlot
<1>a. Cardinality(Holders(agent[r])) # 0
  BY <1>0, <1>1, <1>3, FS_EmptySet
<1>6. free' \in [Agent -> 0 .. StreamLimit]
  BY <1>0, <1>1, <1>5, <1>a
<1>7. \A a \in Agent : StreamLimit - free'[a] = Cardinality(Holders(a)')
  <2> SUFFICES ASSUME NEW a \in Agent PROVE StreamLimit - free'[a] = Cardinality(Holders(a)')
    OBVIOUS
  <2>1. CASE a = agent[r]
    BY <1>0, <1>1, <1>4, <1>5, <2>1
  <2>2. CASE a # agent[r]
    BY <1>0, <1>1, <1>2, <1>5, <2>2
  <2> QED
    BY <2>1, <2>2
<1> QED
  BY <1>6, <1>7 DEF SlotsAccounted, Holders, SlotsInUse

-----------------------------------------------------------------------------
(* The step                                                                  *)

(* It holds at first ...                                                     *)
LEMMA InitEstablishes == Init => IInv
<1> SUFFICES ASSUME Init PROVE IInv
  OBVIOUS
<1>1. TypeOK /\ LockInv /\ JobInv /\ OneProcess
  BY StreamSlotsAssumption, FrontEndAssumption DEF Init, SlotsInit, TypeOK, LockInv, JobInv, OneProcess
<1>2. \A a \in Agent : Holders(a) = {}
  BY DEF Init, Holders, HoldsSlot
<1>3. \A a \in Agent : StreamLimit - free[a] = 0
  BY StreamSlotsAssumption DEF Init, SlotsInit
<1> QED
  BY <1>1, <1>2, <1>3, FS_EmptySet DEF IInv, FlowInv, SlotsAccounted, Holders, SlotsInUse

(* Types, the mutex, the processes and the jobs; the slots' type is in doubt *)
(* only where one is returned, and follows from the counting there.          *)
LEMMA FlowStep ==
  ASSUME IInv, [Next]_vars, free' \in [Agent -> 0 .. StreamLimit]
  PROVE  FlowInv'
<1> USE FrontEndAssumption, StreamSlotsAssumption DEF IInv, FlowInv, TypeOK, LockInv, JobInv, OneProcess
<1>1. ASSUME NEW r \in Req, Arrive(r) PROVE FlowInv'
  BY <1>1 DEF Arrive, requestVars, Goto
<1>2. ASSUME NEW r \in Req, FindOrSpawn(r) PROVE FlowInv'
  BY <1>2 DEF FindOrSpawn, requestVars, Goto, Work
<1>3. ASSUME NEW r \in Req, Spawned(r) PROVE FlowInv'
  BY <1>3 DEF Spawned, requestVars, Goto, Work
<1>4. ASSUME NEW r \in Req, SpawnFails(r) PROVE FlowInv'
  BY <1>4 DEF SpawnFails, requestVars, Goto
<1>5. ASSUME NEW r \in Req, Reply(r) PROVE FlowInv'
  BY <1>5 DEF Reply, requestVars, Goto
<1>6. ASSUME NEW r \in Req, Stream(r) PROVE FlowInv'
  BY <1>6 DEF Stream, requestVars, Goto
<1>7. ASSUME NEW r \in Req, Refuse(r) PROVE FlowInv'
  BY <1>7 DEF Refuse, requestVars, Goto
<1>8. ASSUME NEW r \in Req, ResponseEnds(r) PROVE FlowInv'
  BY <1>8 DEF ResponseEnds, requestVars, Goto
<1>9. ASSUME NEW r \in Req, TakeDetached(r) PROVE FlowInv'
  BY <1>9 DEF TakeDetached, requestVars, Goto
<1>10. ASSUME NEW r \in Req, Recorded(r) PROVE FlowInv'
  BY <1>10 DEF Recorded, requestVars, Goto
<1>11. ASSUME NEW r \in Req, RecordFails(r) PROVE FlowInv'
  BY <1>11 DEF RecordFails, requestVars, Goto
<1>12. ASSUME NEW r \in Req, JobReply(r) PROVE FlowInv'
  BY <1>12 DEF JobReply, requestVars, GotoJob
<1>13. ASSUME NEW r \in Req, RelayEnds(r) PROVE FlowInv'
  BY <1>13 DEF RelayEnds, requestVars, GotoJob
<1>14. ASSUME NEW r \in Req, JobStored(r) PROVE FlowInv'
  BY <1>14 DEF JobStored, requestVars, GotoJob
<1>15. ASSUME NEW r \in Req, HangUp(r) PROVE FlowInv'
  BY <1>15 DEF HangUp, requestVars, Goto
<1>16. CASE UNCHANGED vars
  BY <1>16 DEF vars, requestVars
<1> QED
  BY <1>1, <1>2, <1>3, <1>4, <1>5, <1>6, <1>7, <1>8, <1>9, <1>10, <1>11, <1>12, <1>13, <1>14, <1>15, <1>16 DEF Next, Step, JobStep

(* The slots                                                                 *)
LEMMA SlotsStep ==
  ASSUME IInv, [Next]_vars
  PROVE  SlotsAccounted' /\ free' \in [Agent -> 0 .. StreamLimit]
<1>0. /\ SlotsAccounted /\ JobInv /\ free \in [Agent -> 0 .. StreamLimit]
      /\ pc \in [Req -> {"new", "lock", "spawn", "other", "turn", "sse", "slot", "record", "over"}]
      /\ job \in [Req -> {"none", "turn", "relay", "store"}]
      /\ kind \in [Req -> {"send", "detached", "other"}]
  BY DEF IInv, FlowInv, TypeOK
<1>1. ASSUME NEW r \in Req, Arrive(r)
     PROVE  SlotsAccounted' /\ free' \in [Agent -> 0 .. StreamLimit]
  <2>1. \A q \in Req : HoldsSlot(q)' <=> HoldsSlot(q)
    BY <1>0, <1>1 DEF Arrive, requestVars, Goto, JobInv, HoldsSlot
  <2> QED
    BY <1>0, <1>1, <2>1, SlotsStay DEF Arrive, requestVars
<1>2. ASSUME NEW r \in Req, FindOrSpawn(r)
     PROVE  SlotsAccounted' /\ free' \in [Agent -> 0 .. StreamLimit]
  <2>1. \A q \in Req : HoldsSlot(q)' <=> HoldsSlot(q)
    BY <1>0, <1>2 DEF FindOrSpawn, requestVars, Goto, Work, JobInv, HoldsSlot
  <2> QED
    BY <1>0, <1>2, <2>1, SlotsStay DEF FindOrSpawn, requestVars
<1>3. ASSUME NEW r \in Req, Spawned(r)
     PROVE  SlotsAccounted' /\ free' \in [Agent -> 0 .. StreamLimit]
  <2>1. \A q \in Req : HoldsSlot(q)' <=> HoldsSlot(q)
    BY <1>0, <1>3 DEF Spawned, requestVars, Goto, Work, JobInv, HoldsSlot
  <2> QED
    BY <1>0, <1>3, <2>1, SlotsStay DEF Spawned, requestVars
<1>4. ASSUME NEW r \in Req, SpawnFails(r)
     PROVE  SlotsAccounted' /\ free' \in [Agent -> 0 .. StreamLimit]
  <2>1. \A q \in Req : HoldsSlot(q)' <=> HoldsSlot(q)
    BY <1>0, <1>4 DEF SpawnFails, requestVars, Goto, JobInv, HoldsSlot
  <2> QED
    BY <1>0, <1>4, <2>1, SlotsStay DEF SpawnFails, requestVars
<1>5. ASSUME NEW r \in Req, Reply(r)
     PROVE  SlotsAccounted' /\ free' \in [Agent -> 0 .. StreamLimit]
  <2>1. \A q \in Req : HoldsSlot(q)' <=> HoldsSlot(q)
    BY <1>0, <1>5 DEF Reply, requestVars, Goto, JobInv, HoldsSlot
  <2> QED
    BY <1>0, <1>5, <2>1, SlotsStay DEF Reply, requestVars
<1>6. ASSUME NEW r \in Req, Stream(r)
     PROVE  SlotsAccounted' /\ free' \in [Agent -> 0 .. StreamLimit]
  <2>1. ~HoldsSlot(r) /\ HoldsSlot(r)'
    BY <1>0, <1>6 DEF Stream, requestVars, Goto, JobInv, HoldsSlot
  <2>2. \A q \in Req \ {r} : HoldsSlot(q)' <=> HoldsSlot(q)
    BY <1>0, <1>6 DEF Stream, requestVars, Goto, HoldsSlot
  <2> QED
    BY <1>6, <2>1, <2>2, SlotTaken DEF Stream, requestVars
<1>7. ASSUME NEW r \in Req, Refuse(r)
     PROVE  SlotsAccounted' /\ free' \in [Agent -> 0 .. StreamLimit]
  <2>1. \A q \in Req : HoldsSlot(q)' <=> HoldsSlot(q)
    BY <1>0, <1>7 DEF Refuse, requestVars, Goto, JobInv, HoldsSlot
  <2> QED
    BY <1>0, <1>7, <2>1, SlotsStay DEF Refuse, requestVars
<1>8. ASSUME NEW r \in Req, ResponseEnds(r)
     PROVE  SlotsAccounted' /\ free' \in [Agent -> 0 .. StreamLimit]
  <2>1. HoldsSlot(r) /\ ~HoldsSlot(r)'
    BY <1>0, <1>8 DEF ResponseEnds, requestVars, Goto, JobInv, HoldsSlot
  <2>2. \A q \in Req \ {r} : HoldsSlot(q)' <=> HoldsSlot(q)
    BY <1>0, <1>8 DEF ResponseEnds, requestVars, Goto, HoldsSlot
  <2> QED
    BY <1>8, <2>1, <2>2, SlotReturned DEF ResponseEnds, requestVars
<1>9. ASSUME NEW r \in Req, TakeDetached(r)
     PROVE  SlotsAccounted' /\ free' \in [Agent -> 0 .. StreamLimit]
  <2>1. ~HoldsSlot(r) /\ HoldsSlot(r)'
    BY <1>0, <1>9 DEF TakeDetached, requestVars, Goto, JobInv, HoldsSlot
  <2>2. \A q \in Req \ {r} : HoldsSlot(q)' <=> HoldsSlot(q)
    BY <1>0, <1>9 DEF TakeDetached, requestVars, Goto, HoldsSlot
  <2> QED
    BY <1>9, <2>1, <2>2, SlotTaken DEF TakeDetached, requestVars
<1>10. ASSUME NEW r \in Req, Recorded(r)
     PROVE  SlotsAccounted' /\ free' \in [Agent -> 0 .. StreamLimit]
  <2>1. \A q \in Req : HoldsSlot(q)' <=> HoldsSlot(q)
    BY <1>0, <1>10 DEF Recorded, requestVars, Goto, JobInv, HoldsSlot
  <2> QED
    BY <1>0, <1>10, <2>1, SlotsStay DEF Recorded, requestVars
<1>11. ASSUME NEW r \in Req, RecordFails(r)
     PROVE  SlotsAccounted' /\ free' \in [Agent -> 0 .. StreamLimit]
  <2>1. HoldsSlot(r) /\ ~HoldsSlot(r)'
    BY <1>0, <1>11 DEF RecordFails, requestVars, Goto, JobInv, HoldsSlot
  <2>2. \A q \in Req \ {r} : HoldsSlot(q)' <=> HoldsSlot(q)
    BY <1>0, <1>11 DEF RecordFails, requestVars, Goto, HoldsSlot
  <2> QED
    BY <1>11, <2>1, <2>2, SlotReturned DEF RecordFails, requestVars
<1>12. ASSUME NEW r \in Req, JobReply(r)
     PROVE  SlotsAccounted' /\ free' \in [Agent -> 0 .. StreamLimit]
  <2>1. \A q \in Req : HoldsSlot(q)' <=> HoldsSlot(q)
    BY <1>0, <1>12 DEF JobReply, requestVars, GotoJob, JobInv, HoldsSlot
  <2> QED
    BY <1>0, <1>12, <2>1, SlotsStay DEF JobReply, requestVars
<1>13. ASSUME NEW r \in Req, RelayEnds(r)
     PROVE  SlotsAccounted' /\ free' \in [Agent -> 0 .. StreamLimit]
  <2>1. \A q \in Req : HoldsSlot(q)' <=> HoldsSlot(q)
    BY <1>0, <1>13 DEF RelayEnds, requestVars, GotoJob, JobInv, HoldsSlot
  <2> QED
    BY <1>0, <1>13, <2>1, SlotsStay DEF RelayEnds, requestVars
<1>14. ASSUME NEW r \in Req, JobStored(r)
     PROVE  SlotsAccounted' /\ free' \in [Agent -> 0 .. StreamLimit]
  <2>1. HoldsSlot(r) /\ ~HoldsSlot(r)'
    BY <1>0, <1>14 DEF JobStored, requestVars, GotoJob, JobInv, HoldsSlot
  <2>2. \A q \in Req \ {r} : HoldsSlot(q)' <=> HoldsSlot(q)
    BY <1>0, <1>14 DEF JobStored, requestVars, GotoJob, HoldsSlot
  <2> QED
    BY <1>14, <2>1, <2>2, SlotReturned DEF JobStored, requestVars
<1>15. ASSUME NEW r \in Req, HangUp(r)
     PROVE  SlotsAccounted' /\ free' \in [Agent -> 0 .. StreamLimit]
  <2>1. CASE Goto(r, "sse", "over") /\ ReturnSlot(agent[r])
    <3>1. HoldsSlot(r) /\ ~HoldsSlot(r)'
      BY <1>0, <1>15, <2>1 DEF HangUp, requestVars, Goto, JobInv, HoldsSlot
    <3>2. \A q \in Req \ {r} : HoldsSlot(q)' <=> HoldsSlot(q)
      BY <1>0, <1>15, <2>1 DEF HangUp, requestVars, Goto, HoldsSlot
    <3> QED
      BY <1>15, <2>1, <3>1, <3>2, SlotReturned DEF HangUp, requestVars
  <2>2. CASE UNCHANGED free /\ pc[r] \in {"lock", "other", "turn"} /\ pc' = [pc EXCEPT ![r] = "over"]
    <3>1. \A q \in Req : HoldsSlot(q)' <=> HoldsSlot(q)
      BY <1>0, <1>15, <2>2 DEF HangUp, requestVars, HoldsSlot
    <3> QED
      BY <1>0, <1>15, <2>2, <3>1, SlotsStay DEF HangUp, requestVars
  <2> QED
    BY <1>15, <2>1, <2>2 DEF HangUp, Goto
<1>16. CASE UNCHANGED vars
  <2>1. \A q \in Req : HoldsSlot(q)' <=> HoldsSlot(q)
    BY <1>16 DEF vars, requestVars, HoldsSlot
  <2> QED
    BY <1>0, <1>16, <2>1, SlotsStay DEF vars, requestVars
<1> QED
  BY <1>1, <1>2, <1>3, <1>4, <1>5, <1>6, <1>7, <1>8, <1>9, <1>10, <1>11, <1>12, <1>13, <1>14, <1>15, <1>16 DEF Next, Step, JobStep

(* ... and for ever.                                                         *)
LEMMA InductiveInvariant == Spec => []IInv
<1>1. IInv /\ [Next]_vars => IInv'
  BY FlowStep, SlotsStep DEF IInv
<1> QED
  BY <1>1, InitEstablishes, PTL DEF Spec

-----------------------------------------------------------------------------
(* Every variable keeps to its type, the slots to 0 .. max_concurrent_streams *)
(* of StreamSlots (Semaphore::try_acquire_owned in gatewayd/src/registry.rs). *)
THEOREM TypeCorrect == Spec => []TypeOK
<1>1. IInv => TypeOK
  BY DEF IInv, FlowInv
<1> QED
  BY <1>1, InductiveInvariant, PTL

(* get_or_spawn_adapter never has two processes of one agent, nor leaves one *)
(* behind, however many requests race, fail or hang up.                      *)
THEOREM OneProcessHolds == Spec => []OneProcess
<1>1. IInv => OneProcess
  BY DEF IInv, FlowInv
<1> QED
  BY <1>1, InductiveInvariant, PTL

(* Every slot that is out has a response, a record being written or a job    *)
(* that will give it back.                                                   *)
THEOREM SlotsAccountedHolds == Spec => []SlotsAccounted
<1>1. IInv => SlotsAccounted
  BY DEF IInv
<1> QED
  BY <1>1, InductiveInvariant, PTL
===============================================================================
