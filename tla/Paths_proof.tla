------------------------------ MODULE Paths_proof ------------------------------
(***************************************************************************)
(* Paced for every set of callers and every backoff, CachedWasProbed for   *)
(* every set of requests, Carried for every set of prompts and every       *)
(* number of hops, RecordWhole for every agent and any number of its       *)
(* updates, and InOrder for any lines and buffers; and the types of all    *)
(* four parts.                                                             *)
(***************************************************************************)
EXTENDS MC_Paths, SequenceTheorems, TLAPS

-----------------------------------------------------------------------------
(* RespawnPacing                                                             *)

(* The caller past the lock, and no other, holds it.                         *)
LockInv == \A c \in Callers : callerPc[c] \in {"locked", "spawning"} <=> holder = c

Due(a) == a.over + (IF a.gave = 0 THEN 0 ELSE Backoff)

(* The last success is not later than spawnedAt, so an attempt that finds    *)
(* the backoff over begins when all before it are due.                       *)
PaceInv ==
  /\ \A i \in 1 .. Len(attempts) :
       /\ attempts[i].over <= instant
       /\ attempts[i].gave # 0 => attempts[i].over <= spawnedAt
       /\ attempts[i].gave <= generation
  /\ \A c \in Callers : callerPc[c] = "spawning" =>
       \A i \in 1 .. Len(attempts) : begunAt >= Due(attempts[i])

PacingInv == PacingTypeOK /\ LockInv /\ PaceInv /\ Paced

(* An attempt that began when all before it were due is added.               *)
LEMMA AttemptAdded ==
  ASSUME PacingInv, NEW gave \in Nat, Over(gave),
         \A i \in 1 .. Len(attempts) : begunAt >= Due(attempts[i]),
         gave # 0 => gave = generation + 1 /\ generation' = gave,
         gave = 0 => generation' = generation
  PROVE  /\ Paced'
         /\ attempts' \in Seq([begun : Nat, over : Nat, gave : Nat])
         /\ Len(attempts') = Len(attempts) + 1
         /\ \A i \in 1 .. Len(attempts) : attempts'[i] = attempts[i]
         /\ attempts'[Len(attempts) + 1] = [begun |-> begunAt, over |-> instant, gave |-> gave]
<1> DEFINE new == [begun |-> begunAt, over |-> instant, gave |-> gave]
           n == Len(attempts)
<1>1. /\ attempts \in Seq([begun : Nat, over : Nat, gave : Nat])
      /\ begunAt \in Nat /\ instant \in Nat /\ generation \in Nat /\ Backoff \in Nat
  BY RespawnAssumption DEF PacingInv, PacingTypeOK
<1>2. new \in [begun : Nat, over : Nat, gave : Nat]
  BY <1>1
<1>3. /\ attempts' \in Seq([begun : Nat, over : Nat, gave : Nat])
      /\ Len(attempts') = n + 1
      /\ \A i \in 1 .. n : attempts'[i] = attempts[i]
      /\ attempts'[n + 1] = new
  BY <1>1, <1>2 DEF Over
<1>4. n \in Nat /\ \A i \in 1 .. n : attempts[i] \in [begun : Nat, over : Nat, gave : Nat]
  <2>1. n \in Nat
    BY <1>1, LenProperties
  <2> QED
    BY <1>1, <2>1, ElementOfSeq
<1>5. \A i \in 1 .. n : attempts[i].gave <= generation
  BY DEF PacingInv, PaceInv
<1>6. \A i, j \in 1 .. Len(attempts') : i < j =>
        /\ attempts'[j].begun >= attempts'[i].over + (IF attempts'[i].gave = 0 THEN 0 ELSE Backoff)
        /\ attempts'[j].gave # 0 => attempts'[i].gave < attempts'[j].gave
  <2> SUFFICES ASSUME NEW i \in 1 .. n + 1, NEW j \in 1 .. n + 1, i < j
               PROVE  /\ attempts'[j].begun >= attempts'[i].over
                           + (IF attempts'[i].gave = 0 THEN 0 ELSE Backoff)
                      /\ attempts'[j].gave # 0 => attempts'[i].gave < attempts'[j].gave
    BY <1>3
  <2>0. n \in Nat /\ i \in Nat /\ j \in Nat
    BY <1>4
  <2>1. i \in 1 .. n /\ attempts'[i] = attempts[i]
    <3>1. i \in 1 .. n
      BY <2>0
    <3> QED
      BY <1>3, <3>1
  <2>2. CASE j = n + 1
    <3>1. attempts'[j] = new /\ new.begun = begunAt /\ new.gave = gave
      BY <1>3, <2>2
    <3>2. begunAt >= attempts[i].over + (IF attempts[i].gave = 0 THEN 0 ELSE Backoff)
      BY <2>1 DEF Due
    <3>3. gave # 0 => attempts[i].gave < gave
      <4>1. PICK m \in Nat : m = attempts[i].gave
        BY <1>4, <2>1
      <4>2. m <= generation /\ generation \in Nat
        BY <1>1, <1>5, <2>1, <4>1
      <4>3. gave # 0 => m < gave
        BY <4>2
      <4> QED
        BY <4>1, <4>3
    <3>4. /\ attempts'[j].begun = begunAt /\ attempts'[j].gave = gave
          /\ attempts'[i].over = attempts[i].over /\ attempts'[i].gave = attempts[i].gave
      BY <2>1, <3>1
    <3> QED
      BY <3>2, <3>3, <3>4
  <2>3. CASE j # n + 1
    <3>1. j \in 1 .. n
      BY <2>0, <2>3
    <3>2. attempts'[j] = attempts[j]
      BY <1>3, <3>1
    <3> QED
      BY <2>1, <3>1, <3>2 DEF PacingInv, Paced
  <2> QED
    BY <2>2, <2>3
<1>7. \E i \in 1 .. Len(attempts') : attempts'[i].gave = generation'
  <2>1. CASE gave # 0
    BY <1>3, <1>4, <2>1
  <2>2. CASE gave = 0
    <3>1. PICK i \in 1 .. n : attempts[i].gave = generation
      BY DEF PacingInv, Paced
    <3>2. i \in 1 .. n + 1 /\ attempts'[i] = attempts[i] /\ generation' = generation
      BY <1>3, <1>4, <2>2
    <3>3. attempts'[i].gave = generation'
      BY <3>1, <3>2
    <3> QED
      BY <1>3, <3>2, <3>3
  <2> QED
    BY <2>1, <2>2
<1> QED
  BY <1>3, <1>6, <1>7 DEF Paced

(* PacingInv, step by step.                                                  *)
LEMMA PacingStep ==
  ASSUME PacingInv, [PacingNext]_pacingVars
  PROVE  PacingInv'
<1>0. /\ attempts \in Seq([begun : Nat, over : Nat, gave : Nat])
      /\ Len(attempts) \in Nat
      /\ begunAt \in 0 .. instant /\ spawnedAt \in 0 .. instant
      /\ instant \in Nat /\ generation \in Nat /\ Backoff \in Nat
      /\ callerPc \in [Callers -> {"idle", "waiting", "locked", "spawning"}]
      /\ Nobody \notin Callers
  BY RespawnAssumption, LenProperties DEF PacingInv, PacingTypeOK
<1>1. \A i \in 1 .. Len(attempts) : attempts[i] \in [begun : Nat, over : Nat, gave : Nat]
  BY <1>0, ElementOfSeq
<1>2. CASE UNCHANGED pacingVars
  BY <1>2 DEF PacingInv, PacingTypeOK, LockInv, PaceInv, Paced, Due, pacingVars
<1>3. ASSUME UNCHANGED <<attempts, generation, begunAt, spawnedAt, instant>>, PacingTypeOK',
             LockInv', \A c \in Callers : callerPc'[c] = "spawning" => callerPc[c] = "spawning"
      PROVE  PacingInv'
  BY <1>3 DEF PacingInv, PaceInv, Paced, Due
<1>4. ASSUME NEW c \in Callers, Call(c) \/ Lock(c) \/ FoundAlive(c) \/ TooSoon(c) \/ CallerDropped(c)
      PROVE  PacingInv'
  <2>1. PacingTypeOK' /\ LockInv'
    BY <1>0, <1>4 DEF PacingInv, PacingTypeOK, LockInv, Call, Lock, FoundAlive, TooSoon,
       CallerDropped, Unlock, At, Goto
  <2>2. \A d \in Callers : callerPc'[d] = "spawning" => callerPc[d] = "spawning"
    BY <1>0, <1>4 DEF Call, Lock, FoundAlive, TooSoon, CallerDropped, Unlock, At, Goto
  <2> QED
    BY <1>3, <1>4, <2>1, <2>2 DEF Call, Lock, FoundAlive, TooSoon, CallerDropped
<1>5. CASE ProcessDies
  BY <1>3, <1>5 DEF PacingInv, PacingTypeOK, LockInv, ProcessDies
<1>6. CASE PassTime
  <2>1. PacingTypeOK' /\ LockInv'
    BY <1>0, <1>6 DEF PacingInv, PacingTypeOK, LockInv, PassTime
  <2>2. instant' \in Nat /\ instant <= instant'
        /\ UNCHANGED <<attempts, generation, begunAt, spawnedAt, callerPc>>
    BY <1>0, <1>6 DEF PassTime
  <2>3. ASSUME NEW i \in 1 .. Len(attempts) PROVE attempts[i].over <= instant'
    <3>1. attempts[i].over \in Nat /\ attempts[i].over <= instant
      BY <1>1 DEF PacingInv, PaceInv
    <3> QED
      BY <1>0, <2>2, <3>1
  <2>4. PaceInv'
    BY <2>2, <2>3 DEF PacingInv, PaceInv, Due
  <2> QED
    BY <1>6, <2>1, <2>4 DEF PacingInv, Paced, PassTime
<1>7. ASSUME NEW c \in Callers, BeginSpawn(c)
      PROVE  PacingInv'
  <2>1. PacingTypeOK' /\ LockInv'
    BY <1>0, <1>7 DEF PacingInv, PacingTypeOK, LockInv, BeginSpawn, KeepsLock, At, Goto
  <2>2. \A i \in 1 .. Len(attempts) : instant >= Due(attempts[i])
    <3> SUFFICES ASSUME NEW i \in 1 .. Len(attempts) PROVE instant >= Due(attempts[i])
      OBVIOUS
    <3>1. attempts[i].over <= instant /\ (attempts[i].gave # 0 => attempts[i].over <= spawnedAt)
      BY DEF PacingInv, PaceInv
    <3>2. instant - spawnedAt >= Backoff
      BY <1>7 DEF BeginSpawn, SinceSpawn
    <3>3. PICK o \in Nat : o = attempts[i].over
      BY <1>1
    <3>4. spawnedAt \in Nat /\ instant \in Nat /\ Backoff \in Nat
      BY <1>0
    <3>5. Due(attempts[i]) = o + (IF attempts[i].gave = 0 THEN 0 ELSE Backoff)
      BY <3>3 DEF Due
    <3>6. o <= instant /\ (attempts[i].gave # 0 => o <= spawnedAt)
      BY <3>1, <3>3
    <3> QED
      BY <3>2, <3>4, <3>5, <3>6
  <2>3. PaceInv'
    BY <1>0, <1>7, <2>2 DEF PacingInv, PaceInv, BeginSpawn, Due
  <2> QED
    BY <1>7, <2>1, <2>3 DEF PacingInv, Paced, BeginSpawn
<1>8. ASSUME NEW c \in Callers, NEW gave \in Nat, At(c, "spawning"), Over(gave), Unlock(c),
             gave # 0 => gave = generation + 1 /\ generation' = gave /\ spawnedAt' = instant,
             gave = 0 => generation' = generation /\ spawnedAt' = spawnedAt,
             alive' \in BOOLEAN, UNCHANGED <<instant, begunAt>>
      PROVE  PacingInv'
  <2>1. \A i \in 1 .. Len(attempts) : begunAt >= Due(attempts[i])
    BY <1>8 DEF PacingInv, PaceInv, At
  <2>2. /\ Paced'
        /\ attempts' \in Seq([begun : Nat, over : Nat, gave : Nat])
        /\ Len(attempts') = Len(attempts) + 1
        /\ \A i \in 1 .. Len(attempts) : attempts'[i] = attempts[i]
        /\ attempts'[Len(attempts) + 1] = [begun |-> begunAt, over |-> instant, gave |-> gave]
    BY <1>8, <2>1, AttemptAdded
  <2>3. generation' \in Nat /\ generation <= generation' /\ spawnedAt' \in 0 .. instant
        /\ spawnedAt <= spawnedAt'
    BY <1>0, <1>8
  <2>4. PacingTypeOK' /\ LockInv'
    BY <1>0, <1>8, <2>2, <2>3 DEF PacingInv, PacingTypeOK, LockInv, Unlock, At, Goto
  <2>5. \A d \in Callers : callerPc'[d] # "spawning"
    BY <1>0, <1>8 DEF PacingInv, LockInv, Unlock, At, Goto
  <2>6. \A i \in 1 .. Len(attempts') :
          /\ attempts'[i].over <= instant'
          /\ attempts'[i].gave # 0 => attempts'[i].over <= spawnedAt'
          /\ attempts'[i].gave <= generation'
    <3> SUFFICES ASSUME NEW i \in 1 .. Len(attempts) + 1
                 PROVE  /\ attempts'[i].over <= instant'
                        /\ attempts'[i].gave # 0 => attempts'[i].over <= spawnedAt'
                        /\ attempts'[i].gave <= generation'
      BY <2>2
    <3>1. CASE i = Len(attempts) + 1
      BY <1>0, <1>8, <2>2, <3>1
    <3>2. CASE i # Len(attempts) + 1
      <4>1. i \in 1 .. Len(attempts)
        BY <1>0, <3>2
      <4>2. attempts'[i] = attempts[i] /\ attempts[i] \in [begun : Nat, over : Nat, gave : Nat]
        BY <1>1, <2>2, <4>1
      <4>3. /\ attempts[i].over <= instant
            /\ attempts[i].gave # 0 => attempts[i].over <= spawnedAt
            /\ attempts[i].gave <= generation
        BY <4>1 DEF PacingInv, PaceInv
      <4>4. PICK a \in [begun : Nat, over : Nat, gave : Nat] : a = attempts[i]
        BY <4>2
      <4>5. a.over <= instant /\ (a.gave # 0 => a.over <= spawnedAt) /\ a.gave <= generation
        BY <4>3, <4>4
      <4>6. instant' = instant /\ a.over <= instant /\ (a.gave # 0 => a.over <= spawnedAt')
            /\ a.gave <= generation'
        BY <1>0, <1>8, <2>3, <4>5
      <4> QED
        BY <4>2, <4>4, <4>6
    <3> QED
      BY <3>1, <3>2
  <2> QED
    BY <2>2, <2>4, <2>5, <2>6 DEF PacingInv, PaceInv
<1>9. ASSUME NEW c \in Callers, Handshaken(c)
      PROVE  PacingInv'
  <2>1. generation + 1 \in Nat /\ generation + 1 # 0
    BY <1>0
  <2> QED
    BY <1>8, <1>9, <2>1 DEF Handshaken
<1>10. ASSUME NEW c \in Callers, SpawnFails(c)
       PROVE  PacingInv'
  BY <1>8, <1>10 DEF SpawnFails, PacingInv, PacingTypeOK
<1> QED
  BY <1>2, <1>4, <1>5, <1>6, <1>7, <1>9, <1>10 DEF PacingNext, Healthy

(* PacingInv holds for ever.                                                 *)
LEMMA PacingInductive == PacingSpec => []PacingInv
<1>1. PacingInit => PacingInv
  <2> SUFFICES ASSUME PacingInit PROVE PacingInv
    OBVIOUS
  <2> DEFINE first == [begun |-> 0, over |-> 0, gave |-> 1]
  <2>1. attempts = <<first>> /\ Len(attempts) = 1 /\ attempts[1] = first
    BY DEF PacingInit
  <2>2. attempts \in Seq([begun : Nat, over : Nat, gave : Nat])
    BY <2>1
  <2>3. PacingTypeOK
    BY <2>2 DEF PacingInit, PacingTypeOK
  <2>4. LockInv
    BY RespawnAssumption DEF PacingInit, LockInv
  <2>5. PaceInv /\ Paced
    BY <2>1 DEF PacingInit, PaceInv, Paced
  <2> QED
    BY <2>3, <2>4, <2>5 DEF PacingInv
<1>2. PacingInv /\ [PacingNext]_pacingVars => PacingInv'
  BY PacingStep
<1> QED
  BY <1>1, <1>2, PTL DEF PacingSpec

(* Paced of every behaviour of the supervisor's lock and clock: attempts to  *)
(* replace a dead agent never overlap, each success is a new generation, and *)
(* the next attempt begins the backoff after it at the earliest.             *)
THEOREM AttemptsPaced == PacingSpec => []Paced
<1>1. PacingInv => Paced
  BY DEF PacingInv
<1> QED
  BY <1>1, PacingInductive, PTL

-----------------------------------------------------------------------------
(* DialectCache                                                              *)

(* What a probe under way has been told so far: the answer it waits for or   *)
(* has in hand, and, at the second method, what was said to the first.  The  *)
(* history keeps both when the probe is over.                                *)
ProbeInv == \A r \in Requests :
  /\ proxyPc[r] \in Probing => r \in fresh
  /\ proxyPc[r] = "probeSdk" => told[r]["Sdk"] = answer[r]
  /\ proxyPc[r] = "probeSpec" => told[r]["Sdk"] = "notFound" /\ told[r]["Spec"] = answer[r]
  /\ proxyPc[r] \in {"start", "probeSdk"} => told[r]["Spec"] = "none"
  /\ proxyPc[r] = "start" => told[r]["Sdk"] = "none"
  /\ proxyPc[r] \in {"start", "proxy"} => answer[r] = "none"

ProxyInv == ProxyTypeOK /\ ProbeInv /\ CachedWasProbed

(* A step of r that leaves the table alone: ProbeInv has to be shown of r.   *)
LEMMA TableStays ==
  ASSUME ProxyInv, ProxyTypeOK', NEW r \in Requests,
         UNCHANGED <<cache, told>>, fresh \subseteq fresh',
         \A q \in Requests \ {r} : proxyPc'[q] = proxyPc[q] /\ answer'[q] = answer[q],
         /\ proxyPc'[r] \in Probing => r \in fresh'
         /\ proxyPc'[r] = "probeSdk" => told[r]["Sdk"] = answer'[r]
         /\ proxyPc'[r] = "probeSpec" => told[r]["Sdk"] = "notFound" /\ told[r]["Spec"] = answer'[r]
         /\ proxyPc'[r] \in {"start", "probeSdk"} => told[r]["Spec"] = "none"
         /\ proxyPc'[r] = "start" => told[r]["Sdk"] = "none"
         /\ proxyPc'[r] \in {"start", "proxy"} => answer'[r] = "none"
  PROVE  ProxyInv'
<1>1. ProbeInv'
  BY DEF ProxyInv, ProbeInv
<1>2. CachedWasProbed'
  BY DEF ProxyInv, CachedWasProbed
<1> QED
  BY <1>1, <1>2 DEF ProxyInv

(* The types, step by step.                                                  *)
LEMMA ProxyTypeStep ==
  ASSUME ProxyTypeOK, NEW r \in Requests,
         \/ RefuseProxy(r) \/ AdmitCached(r) \/ AdmitToProbe(r) \/ AgentAnswersCall(r)
         \/ ProxyStep(r) \/ BodyFails(r) \/ ClientLeaves(r)
  PROVE  ProxyTypeOK'
<1>1. CASE RefuseProxy(r) \/ AdmitCached(r) \/ AdmitToProbe(r) \/ BodyFails(r) \/ SendOn(r)
  BY <1>1 DEF ProxyTypeOK, RefuseProxy, AdmitCached, AdmitToProbe, BodyFails, SendOn, ProxyTo,
     Probing
<1>2. CASE AgentAnswersCall(r)
  <2>1. PICK json \in Json :
          /\ answer' = [answer EXCEPT ![r] = json]
          /\ told' = CASE proxyPc[r] = "probeSdk" -> [told EXCEPT ![r]["Sdk"] = json]
                       [] proxyPc[r] = "probeSpec" -> [told EXCEPT ![r]["Spec"] = json]
                       [] OTHER -> told
    BY <1>2 DEF AgentAnswersCall
  <2>2. told' \in [Requests -> [Dialect -> Json \union {"none"}]]
    <3>1. CASE proxyPc[r] = "probeSdk"
      BY <2>1, <3>1 DEF ProxyTypeOK, Dialect
    <3>2. CASE proxyPc[r] = "probeSpec"
      BY <2>1, <3>2 DEF ProxyTypeOK, Dialect
    <3>3. CASE proxyPc[r] \notin {"probeSdk", "probeSpec"}
      BY <2>1, <3>3 DEF ProxyTypeOK
    <3> QED
      BY <3>1, <3>2, <3>3
  <2> QED
    BY <1>2, <2>1, <2>2 DEF AgentAnswersCall, ProxyTypeOK
<1>3. CASE Understood(r) \/ NotUnderstood(r) \/ ProbeFails(r)
  BY <1>3 DEF ProxyTypeOK, Understood, NotUnderstood, ProbeFails, ProxiesAnyway, ProxyTo, Took,
     Candidate, Dialect, Probing
<1>4. CASE PassOnJson(r) \/ PassOnStream(r) \/ UpstreamFails(r) \/ ClientLeaves(r)
  BY <1>4 DEF ProxyTypeOK, PassOnJson, PassOnStream, UpstreamFails, ClientLeaves, Invalidate,
     ProxyTo, Took, Probing
<1> QED
  BY <1>1, <1>2, <1>3, <1>4 DEF ProxyStep, ProbeStep

(* ProxyInv, step by step.                                                   *)
LEMMA ProxyInvStep ==
  ASSUME ProxyInv, [ProxyNext]_proxyVars
  PROVE  ProxyInv'
<1> USE DEF ProxyInv
<1>1. CASE UNCHANGED proxyVars
  BY <1>1 DEF ProxyTypeOK, ProbeInv, CachedWasProbed, proxyVars
<1>2. ASSUME NEW r \in Requests,
             \/ RefuseProxy(r) \/ AdmitCached(r) \/ AdmitToProbe(r) \/ BodyFails(r)
             \/ SendOn(r)
      PROVE  ProxyInv'
  <2>1. ProxyTypeOK'
    BY <1>2, ProxyTypeStep DEF ProxyStep
  <2>2. UNCHANGED <<cache, answer, told>> /\ fresh \subseteq fresh'
    BY <1>2 DEF RefuseProxy, AdmitCached, AdmitToProbe, BodyFails, SendOn
  <2>3. \A q \in Requests \ {r} : proxyPc'[q] = proxyPc[q]
    BY <1>2 DEF ProxyTypeOK, RefuseProxy, AdmitCached, AdmitToProbe, BodyFails, SendOn, ProxyTo
  <2>4. \/ proxyPc'[r] \in {"over", "noBody", "sent"}
        \/ proxyPc[r] = "start" /\ proxyPc'[r] = "proxy"
        \/ proxyPc[r] = "start" /\ proxyPc'[r] = "probeSdk" /\ r \in fresh'
    BY <1>2 DEF ProxyTypeOK, RefuseProxy, AdmitCached, AdmitToProbe, BodyFails, SendOn, ProxyTo
  <2> QED
    BY <2>1, <2>2, <2>3, <2>4, TableStays DEF ProbeInv, Probing
<1>3. ASSUME NEW r \in Requests, AgentAnswersCall(r)
      PROVE  ProxyInv'
  <2>1. PICK json \in Json :
          /\ answer' = [answer EXCEPT ![r] = json]
          /\ told' = CASE proxyPc[r] = "probeSdk" -> [told EXCEPT ![r]["Sdk"] = json]
                       [] proxyPc[r] = "probeSpec" -> [told EXCEPT ![r]["Spec"] = json]
                       [] OTHER -> told
    BY <1>3 DEF AgentAnswersCall
  <2>2. /\ answer[r] = "none" /\ proxyPc[r] \in {"probeSdk", "probeSpec", "sent"}
        /\ UNCHANGED <<cache, proxyPc, fresh>>
    BY <1>3 DEF AgentAnswersCall, Probing
  <2>3. answer'[r] = json /\ \A q \in Requests \ {r} : answer'[q] = answer[q] /\ told'[q] = told[q]
    BY <2>1 DEF ProxyTypeOK
  <2>4. /\ proxyPc[r] = "probeSdk" => told'[r]["Sdk"] = json /\ told'[r]["Spec"] = told[r]["Spec"]
        /\ proxyPc[r] = "probeSpec" => told'[r]["Spec"] = json /\ told'[r]["Sdk"] = told[r]["Sdk"]
        /\ proxyPc[r] = "sent" => told' = told
    BY <2>1 DEF ProxyTypeOK, Dialect
  <2>5. ProbeInv'
    BY <2>2, <2>3, <2>4 DEF ProbeInv, Probing
  <2>6. \A d \in Dialect : told[r][d] # "none" => told'[r][d] = told[r][d]
    BY <2>2, <2>4 DEF ProbeInv, Dialect
  <2>7. CachedWasProbed'
    <3> SUFFICES ASSUME cache # "none" PROVE CachedWasProbed'
      BY <2>2 DEF CachedWasProbed
    <3>1. PICK q \in fresh : told[q][cache] = "other" /\ (cache = "Spec" => told[q]["Sdk"] = "notFound")
      BY DEF CachedWasProbed
    <3>2. q \in Requests /\ cache \in Dialect /\ "Sdk" \in Dialect
      BY <3>1 DEF ProxyTypeOK, Dialect
    <3>3. told'[q][cache] = told[q][cache] /\ (cache = "Spec" => told'[q]["Sdk"] = told[q]["Sdk"])
      BY <2>3, <2>6, <3>1, <3>2
    <3> QED
      BY <2>2, <3>1, <3>3 DEF CachedWasProbed
  <2> QED
    BY <1>3, <2>5, <2>7, ProxyTypeStep
<1>4. ASSUME NEW r \in Requests, Understood(r)
      PROVE  ProxyInv'
  <2>1. /\ proxyPc[r] \in Probing /\ answer[r] = "other" /\ cache' = Candidate(r)
        /\ UNCHANGED <<told, fresh>>
    BY <1>4 DEF Understood
  <2>2. /\ proxyPc' = [proxyPc EXCEPT ![r] = "proxy"]
        /\ answer' = [answer EXCEPT ![r] = "none"]
    BY <1>4 DEF Understood, ProxyTo, Took
  <2>3. ProbeInv'
    BY <2>1, <2>2 DEF ProxyTypeOK, ProbeInv
  <2>4. /\ r \in fresh /\ told[r][Candidate(r)] = "other"
        /\ Candidate(r) = "Spec" => told[r]["Sdk"] = "notFound"
    BY <2>1 DEF ProbeInv, Candidate, Probing
  <2>5. CachedWasProbed'
    BY <2>1, <2>4 DEF CachedWasProbed
  <2> QED
    BY <1>4, <2>3, <2>5, ProxyTypeStep DEF ProxyStep, ProbeStep
<1>5. ASSUME NEW r \in Requests,
             \/ NotUnderstood(r) \/ ProbeFails(r) \/ PassOnStream(r) \/ UpstreamFails(r)
             \/ ClientLeaves(r) \/ (PassOnJson(r) /\ UNCHANGED <<cache, fresh>>)
      PROVE  ProxyInv'
  <2>1. ProxyTypeOK'
    BY <1>5, ProxyTypeStep DEF ProxyStep, ProbeStep
  <2>2. UNCHANGED <<cache, told, fresh>>
    BY <1>5 DEF NotUnderstood, ProbeFails, PassOnStream, UpstreamFails, ClientLeaves, PassOnJson
  <2>3. answer' = [answer EXCEPT ![r] = "none"]
    BY <1>5 DEF NotUnderstood, ProbeFails, PassOnStream, UpstreamFails, ClientLeaves, PassOnJson, Took
  <2>4. \A q \in Requests \ {r} : proxyPc'[q] = proxyPc[q] /\ answer'[q] = answer[q]
    BY <1>5, <2>3 DEF ProxyTypeOK, NotUnderstood, ProbeFails, PassOnStream, UpstreamFails,
       ClientLeaves, PassOnJson, ProxyTo, ProxiesAnyway
  <2>5. \/ proxyPc'[r] \in {"proxy", "over", "left"}
        \/ proxyPc[r] = "probeSdk" /\ answer[r] = "notFound" /\ proxyPc'[r] = "probeSpec"
    BY <1>5 DEF ProxyTypeOK, NotUnderstood, ProbeFails, PassOnStream, UpstreamFails,
       ClientLeaves, PassOnJson, ProxyTo, ProxiesAnyway
  <2>6. answer'[r] = "none"
    BY <2>3 DEF ProxyTypeOK
  <2> QED
    BY <2>1, <2>2, <2>4, <2>5, <2>6, TableStays DEF ProbeInv, Probing
<1>6. ASSUME NEW r \in Requests, PassOnJson(r), ~UNCHANGED <<cache, fresh>>
      PROVE  ProxyInv'
  <2>1. /\ proxyPc[r] = "sent" /\ cache' = "none" /\ told' = told
        /\ fresh' = {q \in Requests : proxyPc[q] \in Probing}
        /\ proxyPc' = [proxyPc EXCEPT ![r] = "over"]
        /\ answer' = [answer EXCEPT ![r] = "none"]
    BY <1>6 DEF PassOnJson, Invalidate, ProxyTo, Took
  <2>2. ProbeInv'
    BY <2>1 DEF ProxyTypeOK, ProbeInv, Probing
  <2>3. CachedWasProbed'
    BY <2>1 DEF CachedWasProbed
  <2> QED
    BY <1>6, <2>2, <2>3, ProxyTypeStep DEF ProxyStep
<1> QED
  BY <1>1, <1>2, <1>3, <1>4, <1>5, <1>6 DEF ProxyNext, ProxyStep, ProbeStep

(* ProxyInv holds for ever.                                                  *)
LEMMA ProxyInductive == ProxySpec => []ProxyInv
<1>1. ProxyInit => ProxyInv
  BY DEF ProxyInit, ProxyInv, ProxyTypeOK, ProbeInv, CachedWasProbed, Dialect, Probing
<1>2. ProxyInv /\ [ProxyNext]_proxyVars => ProxyInv'
  BY ProxyInvStep
<1> QED
  BY <1>1, <1>2, PTL DEF ProxySpec

(* CachedWasProbed for any number of requests and an agent that answers      *)
(* anything: however probes overlap, fail and are dropped, the cached        *)
(* dialect is what one of them found in full, and one not over at the last   *)
(* invalidation.                                                             *)
THEOREM CacheIsOfAProbe == ProxySpec => []CachedWasProbed
<1>1. ProxyInv => CachedWasProbed
  BY DEF ProxyInv
<1> QED
  BY <1>1, ProxyInductive, PTL

-----------------------------------------------------------------------------
(* Translation                                                               *)

(* What becomes of a file part, by its MIME type.                            *)
LEMMA FileOnce ==
  ASSUME NEW d \in Data, NEW m \in Mime
  PROVE  /\ m \in ImageMime => FileToBlock(FileOf(d, m)) =
              [kind |-> "image", data |-> d, mime |-> m, uri |-> None]
         /\ m \in AudioMime => FileToBlock(FileOf(d, m)) =
              [kind |-> "audio", data |-> d, mime |-> m, uri |-> None]
         /\ m \notin ImageMime \union AudioMime => FileToBlock(FileOf(d, m)) =
              [kind |-> "resourceBlob", data |-> d, mime |-> m, uri |-> NoUri]
<1>1. FileBytes(FileOf(d, m)) = d /\ FileMime(FileOf(d, m)) = m /\ FileOf(d, m).uri = None
  BY ContentAssumption DEF FileBytes, FileMime, FileOf
<1>2. ~(m \in ImageMime /\ m \in AudioMime)
  BY ContentAssumption
<1> QED
  BY <1>1, <1>2 DEF FileToBlock

(* The block a file comes to is one that comes to the same file again.       *)
LEMMA ThroughOnce ==
  ASSUME NEW b \in ContentBlock
  PROVE  /\ Through(b) \in ContentBlock
         /\ Through(Through(b)) = Through(b)
         /\ Through(b).data = b.data
         /\ b.kind = "text" => Through(b) = b
         /\ b.kind = "image" /\ b.mime \in ImageMime => Through(b).kind = "image"
         /\ b.kind = "audio" /\ b.mime \in AudioMime => Through(b) = b
<1>1. CASE b.kind \in {"text", "resourceText", "resourceLink"}
  <2>1. Through(b) = TextOf(b.data) /\ b.data \in Data
    BY <1>1 DEF Through, ContentBlockToPart, PartToContentBlock, TextOf, ContentBlock, Block
  <2>2. Through(Through(b)) = TextOf(b.data)
    BY <2>1 DEF Through, ContentBlockToPart, PartToContentBlock, TextOf
  <2>3. TextOf(b.data) \in ContentBlock /\ (b.kind = "text" => b = TextOf(b.data))
    BY <1>1, <2>1 DEF TextOf, ContentBlock, Block
  <2> QED
    BY <1>1, <2>1, <2>2, <2>3 DEF TextOf
<1>2. CASE b.kind \in {"image", "audio", "resourceBlob"}
  <2> DEFINE m == IF b.mime = None THEN OctetStream ELSE b.mime
  <2>1. b.data \in Data /\ b.data # None /\ m \in Mime /\ m # None
    BY <1>2, ContentAssumption DEF ContentBlock, Block, Mime
  <2>2. Through(b) = FileToBlock(FileOf(b.data, m))
    <3>1. Through(b) = FileToBlock(FileOf(b.data, b.mime))
      BY <1>2 DEF Through, ContentBlockToPart, PartToContentBlock, FileOf
    <3>2. /\ FileBytes(FileOf(b.data, b.mime)) = FileBytes(FileOf(b.data, m))
          /\ FileMime(FileOf(b.data, b.mime)) = FileMime(FileOf(b.data, m))
          /\ FileOf(b.data, b.mime).uri = FileOf(b.data, m).uri
      BY <2>1 DEF FileBytes, FileMime, FileOf
    <3> QED
      BY <3>1, <3>2 DEF FileToBlock
  <2>3. \A c : c.kind \in {"image", "audio", "resourceBlob"} /\ c.data = b.data /\ c.mime = m
          => Through(c) = FileToBlock(FileOf(b.data, m))
    BY DEF Through, ContentBlockToPart, PartToContentBlock, FileOf
  <2>4. CASE m \in ImageMime
    <3>1. Through(b) = [kind |-> "image", data |-> b.data, mime |-> m, uri |-> None]
      BY <2>1, <2>2, <2>4, FileOnce
    <3>2. Through(Through(b)) = Through(b)
      BY <2>2, <2>3, <3>1
    <3>3. b.kind = "audio" => b.mime \notin AudioMime
      BY <2>4, <2>1, ContentAssumption
    <3> QED
      BY <1>2, <2>1, <3>1, <3>2, <3>3 DEF ContentBlock, Block
  <2>5. CASE m \in AudioMime
    <3>1. m \notin ImageMime
      BY <2>5, ContentAssumption
    <3>2. Through(b) = [kind |-> "audio", data |-> b.data, mime |-> m, uri |-> None]
      BY <2>1, <2>2, <2>5, FileOnce
    <3>3. Through(Through(b)) = Through(b)
      BY <2>2, <2>3, <3>2
    <3>4. b.kind = "audio" /\ b.mime \in AudioMime => Through(b) = b
      BY <2>1, <3>2, ContentAssumption DEF ContentBlock, Block, Mime
    <3>5. b.kind = "image" => b.mime \notin ImageMime
      BY <2>1, <3>1, ContentAssumption DEF ContentBlock, Block
    <3> QED
      BY <1>2, <2>1, <3>2, <3>3, <3>4, <3>5 DEF ContentBlock, Block
  <2>6. CASE m \notin ImageMime \union AudioMime
    <3>1. Through(b) = [kind |-> "resourceBlob", data |-> b.data, mime |-> m, uri |-> NoUri]
      BY <2>1, <2>2, <2>6, FileOnce
    <3>2. Through(Through(b)) = Through(b)
      BY <2>2, <2>3, <3>1
    <3>3. b.mime \notin ImageMime \union AudioMime
      BY <2>1, <2>6, ContentAssumption DEF Mime
    <3> QED
      BY <1>2, <2>1, <3>1, <3>2, <3>3, ContentAssumption DEF ContentBlock, Block
  <2> QED
    BY <2>4, <2>5, <2>6
<1> QED
  BY <1>1, <1>2 DEF ContentBlock, Block

(* What the first hop makes of a block all after it leave as it is.  Of the  *)
(* reason, whole replies keep what there is a state for; the first stream or *)
(* reply before the end decides what becomes of it.                          *)
ReasonAfter(reason) == IF reason \in {"refusal", "cancelled"} THEN reason ELSE "end_turn"

CarriedInv ==
  /\ original \in Carriage
  /\ hops \in Nat /\ ways \subseteq Way /\ (hops = 0 <=> ways = {})
  /\ carried = [block |-> carried.block, reason |-> carried.reason]
  /\ carried.block = IF hops = 0 THEN original.block ELSE Through(original.block)
  /\ carried.reason = IF "working" \in ways THEN "error"
                      ELSE IF "streamed" \in ways THEN "unsaid"
                      ELSE IF hops = 0 THEN original.reason
                      ELSE ReasonAfter(original.reason)

(* What is carried has its payload and its kind, and is told of as it ended. *)
LEMMA CarriedInvImplies == CarriedInv => Carried
<1> SUFFICES ASSUME CarriedInv PROVE Carried
  OBVIOUS
<1>1. original.block \in ContentBlock /\ original.reason \in StopReason
  BY TranslationAssumption DEF CarriedInv, Carriage
<1>2. /\ \A r \in {"refusal", "cancelled"} :
           carried.reason = r <=> original.reason = r /\ ways \subseteq {"whole"}
      /\ carried.reason = "error" <=> "working" \in ways
  BY <1>1 DEF CarriedInv, ReasonAfter, StopReason, Way
<1>3. CASE hops = 0
  BY <1>1, <1>2, <1>3 DEF CarriedInv, Carried
<1>4. CASE hops # 0
  <2>1. carried.block = Through(original.block)
    BY <1>4 DEF CarriedInv
  <2> QED
    BY <1>1, <1>2, <2>1, ThroughOnce DEF Carried
<1> QED
  BY <1>3, <1>4

(* CarriedInv, step by step.                                                 *)
LEMMA CarriedInvStep ==
  ASSUME CarriedInv, [TranslationNext]_translationVars
  PROVE  CarriedInv'
<1>1. CASE UNCHANGED path
  BY <1>1 DEF path, CarriedInv, Carriage
<1>2. CASE Hop
  <2>1. original.block \in ContentBlock /\ original.reason \in StopReason
    BY TranslationAssumption DEF CarriedInv, Carriage
  <2>2. PICK way \in Way :
          /\ way = "whole" => carried.reason \in StopReason
          /\ carried' = [block |-> Through(carried.block),
                         reason |-> ReasonThrough(way, carried.reason)]
          /\ ways' = ways \union {way}
    BY <1>2 DEF Hop
  <2>3. original' = original /\ hops' = hops + 1 /\ hops' \in Nat /\ hops' # 0
    BY <1>2 DEF Hop, CarriedInv
  <2>4. carried'.block = Through(original.block)
    <3>1. carried.block \in {original.block, Through(original.block)}
      BY DEF CarriedInv
    <3> QED
      BY <2>1, <2>2, <3>1, ThroughOnce
  <2>5. carried'.reason = ReasonThrough(way, carried.reason)
    BY <2>2
  <2>6. CASE way = "whole"
    <3>1. ways \subseteq {"whole"} /\ carried.reason \in {original.reason, ReasonAfter(original.reason)}
      BY <2>2, <2>6 DEF CarriedInv, Way, StopReason
    <3>2. carried'.reason = ReasonAfter(original.reason)
      BY <2>1, <2>5, <2>6, <3>1
         DEF ReasonThrough, TaskStateToStopReason, StopReasonToTaskState, ReasonAfter, StopReason
    <3> QED
      BY <2>2, <2>3, <2>4, <2>6, <3>1, <3>2 DEF CarriedInv, Way
  <2>7. CASE way = "working"
    <3>1. carried'.reason = "error"
      BY <2>5, <2>7 DEF ReasonThrough, TaskStateToStopReason
    <3> QED
      BY <2>2, <2>3, <2>4, <2>7, <3>1 DEF CarriedInv, Way
  <2>8. CASE way = "streamed"
    <3>1. carried'.reason = IF carried.reason = "error" THEN "error" ELSE "unsaid"
      BY <2>5, <2>8 DEF ReasonThrough, TaskStateToStopReason
    <3>2. carried.reason = "error" <=> "working" \in ways
      BY <2>1 DEF CarriedInv, ReasonAfter, StopReason
    <3> QED
      BY <2>2, <2>3, <2>4, <2>8, <3>1, <3>2 DEF CarriedInv, Way
  <2> QED
    BY <2>6, <2>7, <2>8 DEF Way
<1>3. AnswerStep => UNCHANGED path
  BY DEF AnswerStep, AgentUpdates, AgentEnds, TranslateUpdate, SendTerminal, Gather, Store
<1> QED
  BY <1>1, <1>2, <1>3 DEF TranslationNext, translationVars

(* CarriedInv holds for ever.                                                *)
LEMMA CarriedInductive == TranslationSpec => []CarriedInv
<1>1. TranslationInit => CarriedInv
  BY DEF TranslationInit, CarriedInv, Carriage
<1>2. CarriedInv /\ [TranslationNext]_translationVars => CarriedInv'
  BY CarriedInvStep
<1> QED
  BY <1>1, <1>2, PTL DEF TranslationSpec

(* Carried for every prompt, any number of pairs of gateways and every way   *)
(* the replies take: the first pair makes of a block what all after it leave *)
(* as it is, and no reply makes up a refusal or a cancellation.              *)
THEOREM PromptCarried == TranslationSpec => []Carried
  BY CarriedInductive, CarriedInvImplies, PTL
-----------------------------------------------------------------------------
(* The answer                                                                *)

(* The event of an update that has one, and the events there are.            *)
EventOf(u) == [final |-> FALSE, parts |-> <<ContentBlockToPart(u.content)>>, state |-> "working"]
Events == {EventOf(u) : u \in Says} \union {Terminal}

(* The first n of the queue are the events of the updates s after the g-th   *)
(* and up to the t-th, in order: of says which update each is of.            *)
Queued(queue, n, s, g, t) == \E of \in [1 .. n -> g + 1 .. t] :
  /\ \A i, j \in 1 .. n : i < j => of[i] < of[j]
  /\ \A k \in g + 1 .. t : s[k].type # "usage" <=> \E i \in 1 .. n : of[i] = k
  /\ \A i \in 1 .. n : queue[i] = EventOf(s[of[i]])

(* Updates translated so far, and events that are not the last.              *)
Done == Len(said) - Len(updates)
Chunks == IF translated /\ events # <<>> THEN Len(events) - 1 ELSE Len(events)

AnswerTypes ==
  /\ said \in Seq(Says) /\ updates \in Seq(Says) /\ events \in Seq(Events) /\ text \in Seq(Data)
  /\ agentDone \in BOOLEAN /\ translated \in BOOLEAN

(* The texts gathered are those of the first updates, the queue has the      *)
(* events of the next, and the rest is still to be translated; the final     *)
(* event is the last.                                                        *)
AnswerInv ==
  /\ AnswerTypes
  /\ Done \in 0 .. Len(said)
  /\ \A i \in 1 .. Len(updates) : updates[i] = said[Done + i]
  /\ \E g \in 0 .. Done : AreTextsOf(text, said, g) /\ Queued(events, Chunks, said, g, Done)
  /\ translated => agentDone /\ updates = <<>>
  /\ finalState = IF ~translated \/ events # <<>> THEN "none" ELSE "completed"
  /\ translated /\ events # <<>> => events[Len(events)] = Terminal
  /\ record # NoRecord =>
       translated /\ events = <<>> /\ record = [state |-> "completed", text |-> text]

(* TextsOf a message with no part ...                                        *)
LEMMA TextsOfNone == TextsOf(<<>>) = <<>>
<1> DEFINE F(f) == [n \in 0 .. Len(<<>>) |->
             IF n = 0 THEN <<>>
             ELSE IF <<>>[n].kind = "text" THEN Append(f[n - 1], <<>>[n].data)
             ELSE f[n - 1]]
           upTo == CHOOSE f : f = F(f)
           g == [n \in 0 .. 0 |-> <<>>]
<1>1. TextsOf(<<>>) = upTo[Len(<<>>)]
  BY DEF TextsOf
<1>2. g = F(g)
  OBVIOUS
<1>3. upTo = F(upTo)
  BY <1>2
<1>4. upTo[0] = <<>>
  BY <1>3
<1> QED
  BY <1>1, <1>4

(* ... and with one.                                                         *)
LEMMA TextsOfOne ==
  ASSUME NEW p
  PROVE  TextsOf(<<p>>) = IF p.kind = "text" THEN <<p.data>> ELSE <<>>
<1> DEFINE F(f) == [n \in 0 .. Len(<<p>>) |->
             IF n = 0 THEN <<>>
             ELSE IF <<p>>[n].kind = "text" THEN Append(f[n - 1], <<p>>[n].data)
             ELSE f[n - 1]]
           upTo == CHOOSE f : f = F(f)
           g == [n \in 0 .. 1 |-> IF n = 0 THEN <<>>
                                  ELSE IF p.kind = "text" THEN Append(<<>>, p.data) ELSE <<>>]
<1>1. TextsOf(<<p>>) = upTo[Len(<<p>>)]
  BY DEF TextsOf
<1>2. g = F(g)
  OBVIOUS
<1>3. upTo = F(upTo)
  BY <1>2
<1> HIDE DEF upTo
<1>4. upTo[0] = <<>> /\ upTo[1] = IF p.kind = "text" THEN Append(upTo[0], p.data) ELSE upTo[0]
  BY <1>3
<1>5. Append(<<>>, p.data) = <<p.data>>
  OBVIOUS
<1> QED
  BY <1>1, <1>4, <1>5

(* Later updates do not matter to either.                                    *)
LEMMA FirstOnly ==
  ASSUME NEW r, NEW s, NEW t \in Nat, NEW g \in 0 .. t, \A k \in 1 .. t : r[k] = s[k]
  PROVE  /\ \A texts : AreTextsOf(texts, s, g) => AreTextsOf(texts, r, g)
         /\ \A q : \A n \in Nat : Queued(q, n, s, g, t) => Queued(q, n, r, g, t)
<1>1. ASSUME NEW texts, AreTextsOf(texts, s, g)
      PROVE  AreTextsOf(texts, r, g)
  <2> DEFINE n == Len(texts)
  <2>1. PICK from \in [1 .. n -> 1 .. g] :
          /\ \A i, j \in 1 .. n : i < j => from[i] < from[j]
          /\ \A k \in 1 .. g : IsText(s[k]) <=> \E i \in 1 .. n : from[i] = k
          /\ \A i \in 1 .. n : texts[i] = ContentBlockToPart(s[from[i]].content).data
    BY <1>1 DEF AreTextsOf
  <2>2. \A k \in 1 .. g : r[k] = s[k]
    OBVIOUS
  <2>3. \A k \in 1 .. g : IsText(r[k]) <=> \E i \in 1 .. n : from[i] = k
    BY <2>1, <2>2
  <2>4. \A i \in 1 .. n : texts[i] = ContentBlockToPart(r[from[i]].content).data
    <3>1. ASSUME NEW i \in 1 .. n
          PROVE  texts[i] = ContentBlockToPart(r[from[i]].content).data
      <4>1. r[from[i]] = s[from[i]]
        BY <2>2
      <4> QED
        BY <2>1, <4>1
    <3> QED
      BY <3>1
  <2> QED
    BY <2>1, <2>3, <2>4 DEF AreTextsOf
<1>2. ASSUME NEW q, NEW n \in Nat, Queued(q, n, s, g, t)
      PROVE  Queued(q, n, r, g, t)
  <2>1. PICK of \in [1 .. n -> g + 1 .. t] :
          /\ \A i, j \in 1 .. n : i < j => of[i] < of[j]
          /\ \A k \in g + 1 .. t : s[k].type # "usage" <=> \E i \in 1 .. n : of[i] = k
          /\ \A i \in 1 .. n : q[i] = EventOf(s[of[i]])
    BY <1>2 DEF Queued
  <2>2. \A k \in g + 1 .. t : r[k] = s[k]
    OBVIOUS
  <2>3. \A k \in g + 1 .. t : r[k].type # "usage" <=> \E i \in 1 .. n : of[i] = k
    BY <2>1, <2>2
  <2>4. \A i \in 1 .. n : q[i] = EventOf(r[of[i]])
    <3>1. ASSUME NEW i \in 1 .. n
          PROVE  q[i] = EventOf(r[of[i]])
      <4>1. r[of[i]] = s[of[i]]
        BY <2>2
      <4> QED
        BY <2>1, <4>1
    <3> QED
      BY <3>1
  <2> QED
    BY <2>1, <2>3, <2>4 DEF Queued
<1> QED
  BY <1>1, <1>2

(* What follows in the queue does not matter to its first n.                 *)
LEMMA QueueOnly ==
  ASSUME NEW q, NEW r, NEW n \in Nat, \A i \in 1 .. n : r[i] = q[i],
         NEW s, NEW g \in Nat, NEW t \in Nat, Queued(q, n, s, g, t)
  PROVE  Queued(r, n, s, g, t)
<1>1. PICK of \in [1 .. n -> g + 1 .. t] :
        /\ \A i, j \in 1 .. n : i < j => of[i] < of[j]
        /\ \A k \in g + 1 .. t : s[k].type # "usage" <=> \E i \in 1 .. n : of[i] = k
        /\ \A i \in 1 .. n : q[i] = EventOf(s[of[i]])
  BY DEF Queued
<1>2. \A i \in 1 .. n : r[i] = EventOf(s[of[i]])
  BY <1>1
<1> QED
  BY <1>1, <1>2 DEF Queued

(* Nothing is nobody's text and nobody's event.                              *)
LEMMA NoneYet ==
  ASSUME NEW s
  PROVE  AreTextsOf(<<>>, s, 0) /\ Queued(<<>>, 0, s, 0, 0)
<1>1. PICK none : none = <<>>
  OBVIOUS
<1>2. none \in [1 .. 0 -> 1 .. 0] /\ none \in [1 .. 0 -> 0 + 1 .. 0]
  BY <1>1
<1>3. Len(<<>>) = 0 /\ \A k : k \notin 1 .. 0 /\ k \notin 0 + 1 .. 0
  OBVIOUS
<1>4. AreTextsOf(<<>>, s, 0)
  BY <1>2, <1>3 DEF AreTextsOf
<1>5. Queued(<<>>, 0, s, 0, 0)
  BY <1>2, <1>3 DEF Queued
<1> QED
  BY <1>4, <1>5

(* Updates that are no texts add none, ...                                   *)
LEMMA TextsStay ==
  ASSUME NEW texts, NEW s, NEW g \in Nat, NEW h \in Nat, g <= h, AreTextsOf(texts, s, g),
         \A k \in g + 1 .. h : ~IsText(s[k])
  PROVE  AreTextsOf(texts, s, h)
<1> DEFINE n == Len(texts)
<1>1. PICK from \in [1 .. n -> 1 .. g] :
        /\ \A i, j \in 1 .. n : i < j => from[i] < from[j]
        /\ \A k \in 1 .. g : IsText(s[k]) <=> \E i \in 1 .. n : from[i] = k
        /\ \A i \in 1 .. n : texts[i] = ContentBlockToPart(s[from[i]].content).data
  BY DEF AreTextsOf
<1>2. from \in [1 .. n -> 1 .. h]
  OBVIOUS
<1>3. ASSUME NEW k \in 1 .. h
      PROVE  IsText(s[k]) <=> \E i \in 1 .. n : from[i] = k
  <2>1. CASE k \in 1 .. g
    BY <1>1, <2>1
  <2>2. CASE k \in g + 1 .. h
    BY <2>2
  <2> QED
    BY <2>1, <2>2
<1> QED
  BY <1>1, <1>2, <1>3 DEF AreTextsOf

(* ... and one that is a text adds it at the end.                            *)
LEMMA TextsGrow ==
  ASSUME NEW texts \in Seq(Data), NEW s, NEW g \in Nat, NEW h \in Nat, g < h, AreTextsOf(texts, s, g),
         \A k \in g + 1 .. h - 1 : ~IsText(s[k]), IsText(s[h]),
         NEW d, d = ContentBlockToPart(s[h].content).data
  PROVE  AreTextsOf(texts \o <<d>>, s, h)
<1> DEFINE n == Len(texts)
           more == texts \o <<d>>
<1>1. PICK from \in [1 .. n -> 1 .. g] :
        /\ \A i, j \in 1 .. n : i < j => from[i] < from[j]
        /\ \A k \in 1 .. g : IsText(s[k]) <=> \E i \in 1 .. n : from[i] = k
        /\ \A i \in 1 .. n : texts[i] = ContentBlockToPart(s[from[i]].content).data
  BY DEF AreTextsOf
<1>2. n \in Nat /\ Len(more) = n + 1 /\ more[n + 1] = d /\ \A i \in 1 .. n : more[i] = texts[i]
  OBVIOUS
<1> HIDE DEF n, more
<1> DEFINE to == [i \in 1 .. n + 1 |-> IF i = n + 1 THEN h ELSE from[i]]
<1>3. to \in [1 .. n + 1 -> 1 .. h] /\ to[n + 1] = h /\ \A i \in 1 .. n : to[i] = from[i]
  BY <1>2
<1>4. \A i \in 1 .. n + 1 : i \in 1 .. n \/ i = n + 1
  BY <1>2
<1> HIDE DEF to
<1>5. \A i \in 1 .. n : to[i] \in 1 .. g
  BY <1>3
<1>6. \A i, j \in 1 .. n + 1 : i < j => to[i] < to[j]
  <2>1. \A i, j \in 1 .. n : i < j => to[i] < to[j]
    BY <1>1, <1>3
  <2>2. \A i \in 1 .. n : to[i] < to[n + 1]
    BY <1>3, <1>5
  <2> QED
    BY <1>2, <1>4, <2>1, <2>2
<1>7. ASSUME NEW k \in 1 .. h
      PROVE  IsText(s[k]) <=> \E i \in 1 .. n + 1 : to[i] = k
  <2>1. CASE k <= g
    <3>1. IsText(s[k]) <=> \E i \in 1 .. n : from[i] = k
      BY <1>1, <2>1
    <3>2. to[n + 1] # k
      BY <1>3, <2>1
    <3> QED
      BY <1>2, <1>3, <1>4, <3>1, <3>2
  <2>2. CASE k = h
    BY <1>2, <1>3, <2>2
  <2>3. CASE g < k /\ k < h
    <3>1. ~IsText(s[k])
      BY <2>3
    <3>2. \A i \in 1 .. n + 1 : to[i] # k
      BY <1>3, <1>4, <1>5, <2>3
    <3> QED
      BY <3>1, <3>2
  <2> QED
    BY <2>1, <2>2, <2>3
<1>8. \A i \in 1 .. n + 1 : more[i] = ContentBlockToPart(s[to[i]].content).data
  BY <1>1, <1>2, <1>3, <1>4
<1>9. AreTextsOf(more, s, h)
  <2>1. PICK m : m = n + 1
    OBVIOUS
  <2>2. m = Len(more)
    BY <1>2, <2>1
  <2>3. /\ to \in [1 .. m -> 1 .. h]
        /\ \A i, j \in 1 .. m : i < j => to[i] < to[j]
    BY <1>3, <1>6, <2>1
  <2>4. \A k \in 1 .. h : IsText(s[k]) <=> \E i \in 1 .. m : to[i] = k
    BY <1>7, <2>1
  <2>5. \A i \in 1 .. m : more[i] = ContentBlockToPart(s[to[i]].content).data
    BY <1>8, <2>1
  <2>6. /\ to \in [1 .. Len(more) -> 1 .. h]
        /\ \A i, j \in 1 .. Len(more) : i < j => to[i] < to[j]
        /\ \A k \in 1 .. h : IsText(s[k]) <=> \E i \in 1 .. Len(more) : to[i] = k
        /\ \A i \in 1 .. Len(more) : more[i] = ContentBlockToPart(s[to[i]].content).data
    BY <2>2, <2>3, <2>4, <2>5
  <2> QED
    BY <2>6 DEF AreTextsOf
<1> QED
  BY <1>9 DEF more

(* An update is translated: its event, if it has one, is the last.           *)
LEMMA QueueGrows ==
  ASSUME NEW q \in Seq(Events), NEW s, NEW g \in Nat, NEW t \in Nat, g <= t,
         Queued(q, Len(q), s, g, t), NEW u, u = s[t + 1]
  PROVE  Queued(q \o ToEvents(u), Len(q \o ToEvents(u)), s, g, t + 1)
<1> DEFINE n == Len(q)
           more == q \o ToEvents(u)
<1>1. PICK of \in [1 .. n -> g + 1 .. t] :
        /\ \A i, j \in 1 .. n : i < j => of[i] < of[j]
        /\ \A k \in g + 1 .. t : s[k].type # "usage" <=> \E i \in 1 .. n : of[i] = k
        /\ \A i \in 1 .. n : q[i] = EventOf(s[of[i]])
  BY DEF Queued
<1>2. n \in Nat
  OBVIOUS
<1>3. CASE u.type = "usage"
  <2>1. more = q /\ Len(more) = n
    BY <1>3 DEF ToEvents
  <2>2. of \in [1 .. n -> g + 1 .. t + 1]
    OBVIOUS
  <2> HIDE DEF n, more
  <2>3. ASSUME NEW k \in g + 1 .. t + 1
        PROVE  s[k].type # "usage" <=> \E i \in 1 .. n : of[i] = k
    <3>1. CASE k = t + 1
      BY <1>3, <3>1
    <3>2. CASE k # t + 1
      <4>1. k \in g + 1 .. t
        BY <3>2
      <4> QED
        BY <1>1, <4>1
    <3> QED
      BY <3>1, <3>2
  <2>4. Queued(q, n, s, g, t + 1)
    BY <1>1, <2>2, <2>3 DEF Queued
  <2>5. Queued(more, Len(more), s, g, t + 1)
    BY <2>1, <2>4
  <2> QED
    BY <2>5 DEF more
<1>4. CASE u.type # "usage"
  <2>1. more = q \o <<EventOf(u)>>
    BY <1>4 DEF ToEvents, EventOf
  <2>2. /\ Len(more) = n + 1 /\ more[n + 1] = EventOf(u)
        /\ \A i \in 1 .. n : more[i] = q[i]
    BY <2>1
  <2> HIDE DEF n, more
  <2> DEFINE to == [i \in 1 .. n + 1 |-> IF i = n + 1 THEN t + 1 ELSE of[i]]
  <2>3. to \in [1 .. n + 1 -> g + 1 .. t + 1] /\ to[n + 1] = t + 1 /\ \A i \in 1 .. n : to[i] = of[i]
    BY <1>2
  <2>4. \A i \in 1 .. n + 1 : i \in 1 .. n \/ i = n + 1
    BY <1>2
  <2> HIDE DEF to
  <2>5. \A i \in 1 .. n : to[i] \in g + 1 .. t
    BY <2>3
  <2>6. ASSUME NEW i \in 1 .. n + 1, NEW j \in 1 .. n + 1, i < j
        PROVE  to[i] < to[j]
    <3>1. i \in 1 .. n
      BY <1>2, <2>6
    <3>2. CASE j \in 1 .. n
      BY <1>1, <2>3, <2>6, <3>1, <3>2
    <3>3. CASE j = n + 1
      BY <2>3, <2>5, <3>1, <3>3
    <3> QED
      BY <2>4, <3>2, <3>3
  <2>7. ASSUME NEW k \in g + 1 .. t + 1
        PROVE  s[k].type # "usage" <=> \E i \in 1 .. n + 1 : to[i] = k
    <3>1. CASE k = t + 1
      BY <1>2, <1>4, <2>3, <3>1
    <3>2. CASE k # t + 1
      <4>1. k \in g + 1 .. t /\ to[n + 1] # k
        BY <2>3, <3>2
      <4>2. s[k].type # "usage" <=> \E i \in 1 .. n : of[i] = k
        BY <1>1, <4>1
      <4>3. (\E i \in 1 .. n : of[i] = k) <=> (\E i \in 1 .. n + 1 : to[i] = k)
        BY <1>2, <2>3, <2>4, <4>1
      <4> QED
        BY <4>2, <4>3
    <3> QED
      BY <3>1, <3>2
  <2>8. \A i \in 1 .. n + 1 : more[i] = EventOf(s[to[i]])
    BY <1>1, <2>2, <2>3, <2>4
  <2>9. Queued(more, n + 1, s, g, t + 1)
    BY <2>3, <2>6, <2>7, <2>8 DEF Queued
  <2>10. Queued(more, Len(more), s, g, t + 1)
    BY <2>2, <2>9
  <2> QED
    BY <2>10 DEF more
<1> QED
  BY <1>3, <1>4

(* The head of the queue is of the next update that has an event; what is    *)
(* left is of the updates after that.                                        *)
LEMMA QueueShrinks ==
  ASSUME NEW q \in Seq(Events), NEW n \in Nat, n > 0, n <= Len(q), NEW s,
         NEW g \in Nat, NEW t \in Nat, Queued(q, n, s, g, t)
  PROVE  \E h \in g + 1 .. t : /\ s[h].type # "usage" /\ Head(q) = EventOf(s[h])
                               /\ \A k \in g + 1 .. h - 1 : s[k].type = "usage"
                               /\ Queued(Tail(q), n - 1, s, h, t)
<1>1. PICK of \in [1 .. n -> g + 1 .. t] :
        /\ \A i, j \in 1 .. n : i < j => of[i] < of[j]
        /\ \A k \in g + 1 .. t : s[k].type # "usage" <=> \E i \in 1 .. n : of[i] = k
        /\ \A i \in 1 .. n : q[i] = EventOf(s[of[i]])
  BY DEF Queued
<1>2. PICK h \in g + 1 .. t : h = of[1]
  OBVIOUS
<1>3. /\ Head(q) = q[1] /\ 1 \in 1 .. n
      /\ \A i \in 1 .. n - 1 : Tail(q)[i] = q[i + 1] /\ i + 1 \in 1 .. n
  OBVIOUS
<1>4. s[h].type # "usage" /\ Head(q) = EventOf(s[h])
  BY <1>1, <1>2, <1>3
<1>5. \A i \in 1 .. n : i # 1 => h < of[i]
  BY <1>1, <1>2, <1>3
<1>6. \A k \in g + 1 .. h - 1 : s[k].type = "usage"
  BY <1>1, <1>2, <1>5
<1>7. Queued(Tail(q), n - 1, s, h, t)
  <2> DEFINE to == [i \in 1 .. n - 1 |-> of[i + 1]]
  <2>1. \A i \in 1 .. n - 1 : to[i] = of[i + 1] /\ to[i] \in h + 1 .. t
    BY <1>3, <1>5
  <2>2. to \in [1 .. n - 1 -> h + 1 .. t]
    BY <2>1
  <2> HIDE DEF to
  <2>3. \A i, j \in 1 .. n - 1 : i < j => to[i] < to[j]
    BY <1>1, <1>3, <2>1
  <2>4. ASSUME NEW k \in h + 1 .. t
        PROVE  s[k].type # "usage" <=> \E i \in 1 .. n - 1 : to[i] = k
    <3>1. s[k].type # "usage" <=> \E i \in 1 .. n : of[i] = k
      BY <1>1
    <3>2. ASSUME NEW i \in 1 .. n, of[i] = k
          PROVE  \E j \in 1 .. n - 1 : to[j] = k
      <4>1. i # 1
        BY <1>2, <3>2
      <4>2. i - 1 \in 1 .. n - 1 /\ (i - 1) + 1 = i
        BY <4>1
      <4> QED
        BY <2>1, <3>2, <4>2
    <3> QED
      BY <1>3, <2>1, <3>1, <3>2
  <2>5. \A i \in 1 .. n - 1 : Tail(q)[i] = EventOf(s[to[i]])
    BY <1>1, <1>3, <2>1
  <2> QED
    BY <2>2, <2>3, <2>4, <2>5 DEF Queued
<1> QED
  BY <1>4, <1>6, <1>7

(* AnswerInv, step by step.                                                  *)
LEMMA AnswerStepInv ==
  ASSUME AnswerInv, AnswerStep
  PROVE  AnswerInv'
<1>1. /\ said \in Seq(Says) /\ updates \in Seq(Says) /\ events \in Seq(Events) /\ text \in Seq(Data)
      /\ Len(said) \in Nat /\ Len(updates) \in Nat /\ Len(events) \in Nat
      /\ Done \in 0 .. Len(said)
      /\ \A i \in 1 .. Len(updates) : updates[i] = said[Done + i]
  BY DEF AnswerInv, AnswerTypes
<1>2. PICK g \in 0 .. Done : AreTextsOf(text, said, g) /\ Queued(events, Chunks, said, g, Done)
  BY DEF AnswerInv
<1>3. CASE AgentUpdates
  <2>1. PICK u \in Says : said' = Append(said, u) /\ updates' = Append(updates, u)
    BY <1>3 DEF AgentUpdates
  <2>2. /\ ~agentDone
        /\ UNCHANGED <<path, agentDone, events, translated, text, finalState, record>>
    BY <1>3 DEF AgentUpdates
  <2>3. /\ said' \in Seq(Says) /\ Len(said') = Len(said) + 1 /\ said'[Len(said) + 1] = u
        /\ \A i \in 1 .. Len(said) : said'[i] = said[i]
        /\ updates' \in Seq(Says) /\ Len(updates') = Len(updates) + 1
        /\ updates'[Len(updates) + 1] = u
        /\ \A i \in 1 .. Len(updates) : updates'[i] = updates[i]
    BY <1>1, <2>1
  <2>4. Done' = Done /\ Chunks' = Chunks
    BY <1>1, <2>2, <2>3 DEF Done, Chunks
  <2>5. ASSUME NEW i \in 1 .. Len(updates')
        PROVE  updates'[i] = said'[Done' + i]
    <3>1. CASE i \in 1 .. Len(updates)
      <4>1. Done + i \in 1 .. Len(said)
        BY <1>1, <3>1 DEF Done
      <4> QED
        BY <1>1, <2>3, <2>4, <3>1, <4>1
    <3>2. CASE i = Len(updates) + 1
      <4>1. Done + i = Len(said) + 1
        BY <1>1, <3>2 DEF Done
      <4> QED
        BY <2>3, <2>4, <3>2, <4>1
    <3> QED
      BY <1>1, <2>3, <3>1, <3>2
  <2>6. \A k \in 1 .. Done : said'[k] = said[k]
    BY <1>1, <2>3
  <2>7. AreTextsOf(text', said', g) /\ Queued(events, Chunks, said', g, Done)
    <3>1. PICK s : s = said'
      OBVIOUS
    <3>2. g \in Nat /\ \A k \in 1 .. Done : s[k] = said[k]
      BY <1>1, <2>6, <3>1
    <3>3. PICK n \in Nat : n = Chunks
      BY <2>2 DEF Chunks, AnswerInv, AnswerTypes
    <3>4. PICK d \in Nat : d = Done
      BY <1>1
    <3>5. AreTextsOf(text, s, g) /\ Queued(events, n, s, g, d)
      BY <1>2, <3>2, <3>3, <3>4, FirstOnly
    <3> QED
      BY <2>2, <3>1, <3>3, <3>4, <3>5
  <2>8. Queued(events', Chunks', said', g, Done')
    BY <2>2, <2>4, <2>7
  <2> QED
    BY <1>1, <1>2, <2>2, <2>3, <2>4, <2>5, <2>7, <2>8 DEF AnswerInv, AnswerTypes
<1>4. CASE AgentEnds
  <2>1. /\ agentDone' = TRUE
        /\ UNCHANGED <<path, said, updates, events, translated, text, finalState, record>>
    BY <1>4 DEF AgentEnds
  <2>2. Done' = Done /\ Chunks' = Chunks
    BY <2>1 DEF Done, Chunks
  <2>3. AreTextsOf(text', said', g) /\ Queued(events', Chunks', said', g, Done')
    BY <1>2, <2>1, <2>2
  <2> QED
    BY <1>1, <2>1, <2>2, <2>3 DEF AnswerInv, AnswerTypes
<1>5. CASE TranslateUpdate
  <2>1. /\ updates # <<>>
        /\ events' = events \o ToEvents(Head(updates)) /\ updates' = Tail(updates)
        /\ UNCHANGED <<path, agentDone, said, translated, text, finalState, record>>
    BY <1>5 DEF TranslateUpdate
  <2>2. ~translated /\ Chunks = Len(events)
    BY <2>1 DEF AnswerInv, AnswerTypes, Chunks
  <2>3. /\ Len(updates) > 0 /\ Head(updates) = updates[1] /\ updates' \in Seq(Says)
        /\ Len(updates') = Len(updates) - 1
        /\ \A i \in 1 .. Len(updates') : updates'[i] = updates[i + 1]
    BY <1>1, <2>1
  <2>4. Done' = Done + 1 /\ Done + 1 \in 0 .. Len(said) /\ Done \in Nat
    BY <1>1, <2>1, <2>3 DEF Done
  <2>5. PICK u \in Says : u = Head(updates)
    BY <1>1, <2>1
  <2>6. u = said[Done + 1]
    <3>1. 1 \in 1 .. Len(updates)
      BY <1>1, <2>3
    <3>2. updates[1] = said[Done + 1]
      BY <1>1, <3>1
    <3> QED
      BY <2>3, <2>5, <3>2
  <2>7. \A i \in 1 .. Len(updates') : updates'[i] = said'[Done' + i]
    <3>1. ASSUME NEW i \in 1 .. Len(updates')
          PROVE  updates'[i] = said'[Done' + i]
      <4>1. i \in Nat /\ i + 1 \in 1 .. Len(updates)
        BY <1>1, <2>3
      <4>2. Done + (i + 1) = Done' + i
        BY <2>4, <4>1
      <4>3. updates[i + 1] = said[Done + (i + 1)]
        BY <1>1, <4>1
      <4>4. updates'[i] = updates[i + 1] /\ said' = said
        BY <2>1, <2>3
      <4> QED
        BY <4>2, <4>3, <4>4
    <3> QED
      BY <3>1
  <2>8. events' \in Seq(Events)
    <3>1. ToEvents(u) \in Seq(Events)
      <4>1. CASE u.type = "usage"
        BY <4>1 DEF ToEvents
      <4>2. CASE u.type # "usage"
        <5>1. ToEvents(u) = <<EventOf(u)>> /\ EventOf(u) \in Events
          BY <4>2 DEF ToEvents, EventOf, Events
        <5> QED
          BY <5>1
      <4> QED
        BY <4>1, <4>2
    <3> QED
      BY <1>1, <2>1, <2>5, <3>1
  <2>9. PICK d \in Nat : d = Done
    BY <2>4
  <2>10. Queued(events', Len(events'), said, g, d + 1)
    <3>1. Queued(events, Len(events), said, g, d) /\ g \in Nat /\ g <= d
      BY <1>2, <2>2, <2>9
    <3>2. Queued(events \o ToEvents(u), Len(events \o ToEvents(u)), said, g, d + 1)
      BY <1>1, <2>6, <2>9, <3>1, QueueGrows
    <3> QED
      BY <2>1, <2>5, <3>2
  <2>11. Chunks' = Len(events')
    BY <2>1, <2>2 DEF Chunks
  <2>12. AreTextsOf(text', said', g) /\ g \in 0 .. Done'
    BY <1>2, <2>1, <2>4
  <2>13. finalState = "none" /\ record = NoRecord
    BY <2>2 DEF AnswerInv
  <2>14. AnswerTypes'
    BY <1>1, <2>1, <2>3, <2>8 DEF AnswerInv, AnswerTypes
  <2>15. \E k \in 0 .. Done' : AreTextsOf(text', said', k) /\ Queued(events', Chunks', said', k, Done')
    BY <2>1, <2>4, <2>9, <2>10, <2>11, <2>12
  <2> QED
    BY <2>1, <2>2, <2>4, <2>7, <2>13, <2>14, <2>15 DEF AnswerInv
<1>6. CASE SendTerminal
  <2>1. /\ agentDone /\ updates = <<>> /\ ~translated
        /\ events' = Append(events, Terminal) /\ translated' = TRUE
        /\ UNCHANGED <<path, agentDone, said, updates, text, finalState, record>>
    BY <1>6 DEF SendTerminal
  <2>2. /\ events' \in Seq(Events) /\ Len(events') = Len(events) + 1
        /\ events'[Len(events')] = Terminal /\ events' # <<>>
        /\ \A i \in 1 .. Len(events) : events'[i] = events[i]
    BY <1>1, <2>1 DEF Events
  <2>3. Chunks = Len(events) /\ Chunks' = Len(events) /\ Done' = Done
    BY <1>1, <2>1, <2>2 DEF Chunks, Done
  <2>4. Queued(events', Chunks', said', g, Done')
    <3>1. PICK n \in Nat : n = Len(events)
      BY <1>1
    <3>2. PICK d \in Nat : d = Done
      BY <1>1
    <3>3. Queued(events, n, said, g, d) /\ \A i \in 1 .. n : events'[i] = events[i]
      BY <1>2, <2>2, <2>3, <3>1, <3>2
    <3>4. PICK q : q = events'
      OBVIOUS
    <3>5. Queued(q, n, said, g, d)
      BY <1>2, <3>2, <3>3, <3>4, QueueOnly
    <3> QED
      BY <2>1, <2>3, <3>1, <3>2, <3>4, <3>5
  <2>5. AreTextsOf(text', said', g)
    BY <1>2, <2>1
  <2>6. finalState = "none" /\ record = NoRecord
    BY <2>1 DEF AnswerInv
  <2> QED
    BY <1>1, <2>1, <2>2, <2>3, <2>4, <2>5, <2>6 DEF AnswerInv, AnswerTypes
<1>7. CASE Gather
  <2>1. /\ events # <<>>
        /\ text' = text \o TextsOf(Head(events).parts)
        /\ finalState' = IF Head(events).final THEN Head(events).state ELSE finalState
        /\ events' = Tail(events)
        /\ UNCHANGED <<path, agentDone, said, updates, translated, record>>
    BY <1>7 DEF Gather, PushStr
  <2>2. /\ Len(events) > 0 /\ Head(events) = events[1]
        /\ events' \in Seq(Events) /\ Len(events') = Len(events) - 1
        /\ \A i \in 1 .. Len(events') : events'[i] = events[i + 1]
        /\ (events' = <<>>) <=> (Len(events) = 1)
    <3>1. Len(events) > 0 /\ Head(events) = events[1]
      BY <1>1, <2>1
    <3>2. /\ events' \in Seq(Events) /\ Len(events') = Len(events) - 1
          /\ \A i \in 1 .. Len(events') : events'[i] = events[i + 1]
      BY <1>1, <2>1
    <3>3. (events' = <<>>) <=> (Len(events') = 0)
      BY <3>2
    <3> QED
      BY <1>1, <3>1, <3>2, <3>3
  <2>3. finalState = "none" /\ record = NoRecord /\ Done' = Done /\ Done \in Nat
    BY <1>1, <2>1 DEF AnswerInv, Done
  <2>4. CASE Chunks = 0
    <3>1. translated /\ Len(events) = 1
      BY <1>1, <2>2, <2>4 DEF Chunks, AnswerInv, AnswerTypes
    <3>2. Head(events) = Terminal
      BY <2>1, <2>2, <3>1 DEF AnswerInv
    <3>3. text' = text /\ finalState' = "completed" /\ events' = <<>>
      <4>1. Terminal.parts = <<>> /\ Terminal.final /\ Terminal.state = "completed"
        BY DEF Terminal
      <4>2. text' = text \o <<>> /\ finalState' = "completed"
        BY <2>1, <3>2, <4>1, TextsOfNone
      <4>3. text \o <<>> = text
        BY <1>1
      <4> QED
        BY <2>2, <3>1, <4>2, <4>3
    <3>4. Chunks' = Chunks
      BY <2>4, <3>3 DEF Chunks
    <3>5. Queued(events', Chunks', said', g, Done')
      <4>1. PICK d \in Nat : d = Done
        BY <2>3
      <4>2. Queued(events, 0, said, g, d)
        BY <1>2, <2>4, <4>1
      <4>3. PICK q : q = events'
        OBVIOUS
      <4>4. Queued(q, 0, said, g, d)
        BY <1>2, <4>1, <4>2, QueueOnly
      <4> QED
        BY <2>1, <2>3, <2>4, <3>4, <4>1, <4>3, <4>4
    <3>6. AreTextsOf(text', said', g)
      BY <1>2, <2>1, <3>3
    <3> QED
      BY <1>1, <2>1, <2>2, <2>3, <3>1, <3>3, <3>4, <3>5, <3>6 DEF AnswerInv, AnswerTypes
  <2>5. CASE Chunks # 0
    <3>1. Chunks \in Nat /\ Chunks > 0 /\ Chunks <= Len(events)
      BY <1>1, <2>2, <2>5 DEF Chunks
    <3>2. PICK n \in Nat : n = Chunks
      BY <3>1
    <3>3. PICK d \in Nat : d = Done
      BY <2>3
    <3>4. \E h \in g + 1 .. d : /\ said[h].type # "usage" /\ Head(events) = EventOf(said[h])
                                /\ \A k \in g + 1 .. h - 1 : said[k].type = "usage"
                                /\ Queued(Tail(events), n - 1, said, h, d)
      <4>1. n > 0 /\ n <= Len(events) /\ g \in Nat
        BY <1>2, <2>3, <3>1, <3>2
      <4>2. Queued(events, n, said, g, d)
        BY <1>2, <3>2, <3>3
      <4>3. PICK q \in Seq(Events) : q = events
        BY <1>1
      <4>4. PICK s : s = said
        OBVIOUS
      <4>5. Queued(q, n, s, g, d) /\ n <= Len(q)
        BY <4>1, <4>2, <4>3, <4>4
      <4>6. \E h \in g + 1 .. d : /\ s[h].type # "usage" /\ Head(q) = EventOf(s[h])
                                  /\ \A k \in g + 1 .. h - 1 : s[k].type = "usage"
                                  /\ Queued(Tail(q), n - 1, s, h, d)
        BY <4>1, <4>5, QueueShrinks
      <4> QED
        BY <4>3, <4>4, <4>6
    <3>5. PICK h \in g + 1 .. d : /\ said[h].type # "usage" /\ Head(events) = EventOf(said[h])
                                  /\ \A k \in g + 1 .. h - 1 : said[k].type = "usage"
                                  /\ Queued(Tail(events), n - 1, said, h, d)
      BY <3>4
    <3>6. PICK p : p = ContentBlockToPart(said[h].content)
      OBVIOUS
    <3>7. /\ TextsOf(Head(events).parts) = IF p.kind = "text" THEN <<p.data>> ELSE <<>>
          /\ finalState' = "none"
      BY <2>1, <2>3, <3>5, <3>6, TextsOfOne DEF EventOf
    <3>8. h \in Nat /\ g \in Nat /\ g < h /\ h \in 1 .. Len(said)
      BY <1>1, <3>3
    <3>9. p.data \in Data
      <4>1. said[h] \in SessionUpdate
        BY <1>1, <3>8, TranslationAssumption
      <4>2. said[h].content \in ContentBlock
        BY <4>1 DEF SessionUpdate, ContentBlock, Block, TextOf
      <4>3. said[h].content.data \in Data
        BY <4>2 DEF ContentBlock, Block
      <4> QED
        BY <3>6, <4>3 DEF ContentBlockToPart, FileOf, TextOf
    <3>10. \A k \in g + 1 .. h - 1 : ~IsText(said[k])
      BY <3>5 DEF IsText
    <3>11. AreTextsOf(text', said, h) /\ text' \in Seq(Data)
      <4>1. CASE p.kind = "text"
        <5>1. text' = text \o <<p.data>> /\ IsText(said[h])
          BY <2>1, <3>5, <3>6, <3>7, <4>1 DEF IsText
        <5>2. AreTextsOf(text \o <<p.data>>, said, h)
          BY <1>1, <1>2, <3>6, <3>8, <3>10, <5>1, TextsGrow
        <5> QED
          BY <1>1, <3>9, <5>1, <5>2
      <4>2. CASE p.kind # "text"
        <5>1. text' = text /\ ~IsText(said[h])
          BY <1>1, <2>1, <3>6, <3>7, <4>2 DEF IsText
        <5>2. \A k \in g + 1 .. h : ~IsText(said[k])
          BY <3>8, <3>10, <5>1
        <5>3. AreTextsOf(text, said, h)
          BY <1>2, <3>8, <5>2, TextsStay
        <5> QED
          BY <1>1, <5>1, <5>3
      <4> QED
        BY <4>1, <4>2
    <3>12. AreTextsOf(text', said', h)
      BY <2>1, <3>11
    <3>13. /\ translated => Len(events) > 1
           /\ Chunks' = n - 1
      <4>1. translated => Len(events) > 1
        BY <1>1, <2>1, <2>2, <3>1 DEF Chunks
      <4>2. CASE translated
        <5>1. events' # <<>> /\ n = Len(events) - 1
          BY <1>1, <2>1, <2>2, <3>2, <4>1, <4>2 DEF Chunks
        <5>2. Chunks' = Len(events') - 1
          BY <2>1, <4>2, <5>1 DEF Chunks
        <5> QED
          BY <1>1, <2>2, <4>1, <5>1, <5>2
      <4>3. CASE ~translated
        <5>1. n = Len(events) /\ Chunks' = Len(events')
          BY <2>1, <3>2, <4>3 DEF Chunks
        <5> QED
          BY <1>1, <2>2, <4>1, <5>1
      <4> QED
        BY <4>1, <4>2, <4>3
    <3>14. \E k \in 0 .. Done' : AreTextsOf(text', said', k) /\ Queued(events', Chunks', said', k, Done')
      <4>1. h \in 0 .. Done'
        BY <2>3, <3>3
      <4> QED
        BY <2>1, <2>3, <3>3, <3>5, <3>12, <3>13, <4>1
    <3>15. translated' => events' # <<>> /\ events'[Len(events')] = Terminal
      <4>1. translated => Len(events') \in 1 .. Len(events') /\ Len(events') + 1 = Len(events)
        BY <1>1, <2>2, <3>13
      <4> QED
        BY <2>1, <2>2, <4>1 DEF AnswerInv
    <3>16. AnswerTypes'
      BY <1>1, <2>1, <2>2, <3>11 DEF AnswerInv, AnswerTypes
    <3> QED
      BY <1>1, <2>1, <2>3, <3>7, <3>14, <3>15, <3>16 DEF AnswerInv, AnswerTypes
  <2> QED
    BY <2>4, <2>5
<1>8. CASE Store
  <2>1. /\ translated /\ events = <<>>
        /\ record' = IF finalState = "none" THEN [state |-> "failed", text |-> <<>>]
                                            ELSE [state |-> finalState, text |-> text]
        /\ UNCHANGED <<path, agentDone, said, updates, events, translated, text, finalState>>
    BY <1>8 DEF Store
  <2>2. finalState = "completed"
    BY <2>1 DEF AnswerInv, AnswerTypes
  <2>3. Done' = Done /\ Chunks' = Chunks
    BY <2>1 DEF Done, Chunks
  <2>4. AreTextsOf(text', said', g) /\ Queued(events', Chunks', said', g, Done')
    BY <1>2, <2>1, <2>3
  <2> QED
    BY <1>1, <2>1, <2>2, <2>3, <2>4 DEF AnswerInv, AnswerTypes
<1> QED
  BY <1>3, <1>4, <1>5, <1>6, <1>7, <1>8 DEF AnswerStep

(* AnswerInv holds for ever.                                                 *)
LEMMA AnswerInductive == TranslationSpec => []AnswerInv
<1>1. TranslationInit => AnswerInv
  <2> SUFFICES ASSUME TranslationInit PROVE AnswerInv
    OBVIOUS
  <2>1. /\ said = <<>> /\ updates = <<>> /\ events = <<>> /\ text = <<>>
        /\ agentDone = FALSE /\ translated = FALSE /\ finalState = "none" /\ record = NoRecord
    BY DEF TranslationInit
  <2>2. Len(<<>>) = 0 /\ Done = 0 /\ Chunks = 0
    BY <2>1 DEF Done, Chunks
  <2>3. AreTextsOf(text, said, 0) /\ Queued(events, Chunks, said, 0, Done)
    BY <2>1, <2>2, NoneYet
  <2>4. AnswerTypes
    <3>1. <<>> \in Seq(Says) /\ <<>> \in Seq(Events) /\ <<>> \in Seq(Data)
      OBVIOUS
    <3> QED
      BY <2>1, <3>1 DEF AnswerTypes
  <2> QED
    BY <2>1, <2>2, <2>3, <2>4 DEF AnswerInv
<1>2. AnswerInv /\ [TranslationNext]_translationVars => AnswerInv'
  <2> SUFFICES ASSUME AnswerInv, UNCHANGED answerVars
               PROVE  AnswerInv'
    BY AnswerStepInv DEF TranslationNext, translationVars, Hop
  <2>1. Done' = Done /\ Chunks' = Chunks
    BY DEF answerVars, Done, Chunks
  <2>2. AnswerTypes'
    BY <2>1 DEF AnswerInv, AnswerTypes, answerVars
  <2>3. /\ \A i \in 1 .. Len(updates') : updates'[i] = said'[Done' + i]
        /\ \E g \in 0 .. Done' : AreTextsOf(text', said', g) /\ Queued(events', Chunks', said', g, Done')
    BY <2>1 DEF AnswerInv, answerVars
  <2>4. UNCHANGED <<agentDone, said, updates, events, translated, text, finalState, record>>
    BY DEF answerVars
  <2>5. Done' \in 0 .. Len(said')
    BY <2>1, <2>4 DEF AnswerInv
  <2>6. /\ translated' => agentDone' /\ updates' = <<>>
        /\ finalState' = IF ~translated' \/ events' # <<>> THEN "none" ELSE "completed"
        /\ translated' /\ events' # <<>> => events'[Len(events')] = Terminal
    BY <2>4 DEF AnswerInv
  <2>7. record' # NoRecord =>
             translated' /\ events' = <<>> /\ record' = [state |-> "completed", text |-> text']
    BY <2>4 DEF AnswerInv
  <2> QED
    BY <2>2, <2>3, <2>5, <2>6, <2>7 DEF AnswerInv
<1> QED
  BY <1>1, <1>2, PTL DEF TranslationSpec

(* RecordWhole for every turn: a record has every text of the agent, each    *)
(* once and in order, whatever is gathered while the rest is said.           *)
THEOREM RecordIsWhole == TranslationSpec => []RecordWhole
<1>1. AnswerInv => RecordWhole
  <2> SUFFICES ASSUME AnswerInv, record # NoRecord PROVE RecordWhole
    BY DEF RecordWhole
  <2>1. /\ translated /\ agentDone /\ updates = <<>> /\ events = <<>>
        /\ record = [state |-> "completed", text |-> text]
    BY DEF AnswerInv
  <2>2. Done = Len(said) /\ Chunks = 0 /\ Len(said) \in Nat
    <3>1. said \in Seq(Says) /\ Len(updates) = 0
      BY <2>1 DEF AnswerInv, AnswerTypes
    <3> QED
      BY <2>1, <3>1 DEF Done, Chunks
  <2>3. PICK g \in 0 .. Len(said) : AreTextsOf(text, said, g) /\ Queued(events, 0, said, g, Len(said))
    BY <2>2 DEF AnswerInv
  <2>4. \A k \in g + 1 .. Len(said) : ~IsText(said[k])
    BY <2>3 DEF Queued, IsText
  <2>5. AreTextsOf(text, said, Len(said))
    BY <2>2, <2>3, <2>4, TextsStay
  <2> QED
    BY <2>1, <2>5 DEF RecordWhole
<1> QED
  BY <1>1, AnswerInductive, PTL


-----------------------------------------------------------------------------
(* StdioPassthrough                                                          *)

(* The numbers after n, one by one.                                          *)
From(n, s) == s \in Seq(Nat) /\ \A i \in 1 .. Len(s) : s[i] = n + i

(* One direction, from its reader back to its sender: what was read, what is *)
(* in the next pipe, in the loop's hand and in the first pipe, together all  *)
(* that was sent.                                                            *)
Flow(got, pipe, held, queue, sent) ==
  /\ From(0, got)
  /\ From(Len(got), pipe)
  /\ From(Len(got) + Len(pipe), held)
  /\ From(Len(got) + Len(pipe) + Len(held), queue)
  /\ sent = Len(got) + Len(pipe) + Len(held) + Len(queue)

CopyInv ==
  /\ Flow(agentGot, stdin, inHeld, socketIn, clientSent)
  /\ Flow(clientGot, socketOut, outHeld, stdout, agentSaid)
  /\ link = "agent" => outHeld = <<>> /\ stdout = <<>> /\ ~agentAlive

(* Consecutive numbers: one more at the end, ...                             *)
LEMMA FromAppend ==
  ASSUME NEW n \in Nat, NEW s, From(n, s)
  PROVE  From(n, Append(s, n + Len(s) + 1)) /\ Len(Append(s, n + Len(s) + 1)) = Len(s) + 1
<1> DEFINE t == Append(s, n + Len(s) + 1)
<1>1. s \in Seq(Nat) /\ Len(s) \in Nat
  BY DEF From
<1>2. t \in Seq(Nat) /\ Len(t) = Len(s) + 1 /\ t[Len(s) + 1] = n + Len(s) + 1
      /\ \A i \in 1 .. Len(s) : t[i] = s[i]
  BY <1>1
<1> HIDE DEF t
<1>3. ASSUME NEW i \in 1 .. Len(t)
      PROVE  t[i] = n + i
  <2>1. i \in 1 .. Len(s) \/ i = Len(s) + 1
    BY <1>1, <1>2
  <2>2. \A j \in 1 .. Len(s) : s[j] = n + j
    BY DEF From
  <2> QED
    BY <1>1, <1>2, <2>1, <2>2
<1> QED
  BY <1>2, <1>3 DEF From, t

(* ... one less at the front, ...                                            *)
LEMMA FromTail ==
  ASSUME NEW n \in Nat, NEW s, From(n, s), s # <<>>
  PROVE  /\ Head(s) = n + 1 /\ From(n + 1, Tail(s)) /\ Len(s) = Len(Tail(s)) + 1
         /\ From(n, <<Head(s)>>)
<1>1. s \in Seq(Nat) /\ Len(s) \in Nat /\ Len(s) > 0
  BY EmptySeq DEF From
<1>2. Head(s) = s[1] /\ s[1] = n + 1
  BY <1>1 DEF From
<1>3. /\ Tail(s) \in Seq(Nat) /\ Len(Tail(s)) = Len(s) - 1
      /\ \A i \in 1 .. Len(Tail(s)) : Tail(s)[i] = s[i + 1]
  BY <1>1
<1>4. From(n + 1, Tail(s))
  BY <1>1, <1>3 DEF From
<1>5. From(n, <<n + 1>>)
  BY DEF From
<1> QED
  BY <1>1, <1>2, <1>3, <1>4, <1>5

(* ... and two pieces that meet.                                             *)
LEMMA FromConcat ==
  ASSUME NEW n \in Nat, NEW s, NEW t, From(n, s), From(n + Len(s), t)
  PROVE  From(n, s \o t) /\ Len(s \o t) = Len(s) + Len(t)
<1>1. s \in Seq(Nat) /\ t \in Seq(Nat) /\ Len(s) \in Nat /\ Len(t) \in Nat
  BY DEF From
<1> DEFINE c == s \o t
<1>2. /\ c \in Seq(Nat) /\ Len(c) = Len(s) + Len(t)
      /\ \A i \in 1 .. Len(c) : c[i] = IF i <= Len(s) THEN s[i] ELSE t[i - Len(s)]
  BY <1>1
<1> HIDE DEF c
<1>3. ASSUME NEW i \in 1 .. Len(c)
      PROVE  c[i] = n + i
  <2>1. \A j \in 1 .. Len(s) : s[j] = n + j
    BY DEF From
  <2>2. \A j \in 1 .. Len(t) : t[j] = (n + Len(s)) + j
    BY DEF From
  <2>3. CASE i <= Len(s)
    <3>1. i \in 1 .. Len(s)
      BY <1>1, <1>2, <2>3
    <3>2. c[i] = s[i]
      BY <1>2, <2>3
    <3> QED
      BY <2>1, <3>1, <3>2
  <2>4. CASE i > Len(s)
    <3>1. i - Len(s) \in 1 .. Len(t)
      BY <1>1, <1>2, <2>4
    <3>2. c[i] = t[i - Len(s)]
      BY <1>1, <1>2, <2>4
    <3>3. t[i - Len(s)] = (n + Len(s)) + (i - Len(s))
      BY <2>2, <3>1
    <3> QED
      BY <1>1, <1>2, <3>2, <3>3
  <2> QED
    BY <1>1, <1>2, <2>3, <2>4
<1> QED
  BY <1>2, <1>3 DEF From, c

(* What the steps of a copied direction do to it.                            *)
LEMMA FlowSteps ==
  ASSUME NEW got, NEW pipe, NEW held, NEW queue, NEW sent,
         Flow(got, pipe, held, queue, sent)
  PROVE  /\ sent \in Nat
         /\ Flow(got, pipe, held, Append(queue, sent + 1), sent + 1)
         /\ held = <<>> /\ queue # <<>> => Flow(got, pipe, <<Head(queue)>>, Tail(queue), sent)
         /\ Flow(got, pipe \o held, <<>>, queue, sent)
         /\ pipe # <<>> => Flow(Append(got, Head(pipe)), Tail(pipe), held, queue, sent)
<1> USE DEF Flow
<1>1. Len(got) \in Nat /\ Len(pipe) \in Nat /\ Len(held) \in Nat /\ Len(queue) \in Nat
  BY DEF From
<1>2. sent \in Nat
  BY <1>1
<1>3. Flow(got, pipe, held, Append(queue, sent + 1), sent + 1)
  BY <1>1, FromAppend
<1>4. ASSUME held = <<>>, queue # <<>>
      PROVE  Flow(got, pipe, <<Head(queue)>>, Tail(queue), sent)
  <2>1. Len(held) = 0 /\ Len(<<Head(queue)>>) = 1
    BY <1>4
  <2> DEFINE n == Len(got) + Len(pipe)
  <2>2. n \in Nat /\ From(n, queue) /\ n + Len(held) = n
    BY <1>1, <2>1
  <2>3. From(n, <<Head(queue)>>) /\ From(n + 1, Tail(queue)) /\ Len(queue) = Len(Tail(queue)) + 1
    BY <1>4, <2>2, FromTail
  <2>4. Len(Tail(queue)) \in Nat
    BY <2>3 DEF From
  <2> DEFINE taken == <<Head(queue)>>
             rest == Tail(queue)
  <2>5. /\ Len(taken) = 1 /\ From(n, taken)
        /\ From(n + 1, rest) /\ Len(queue) = Len(rest) + 1 /\ Len(rest) \in Nat
    BY <2>1, <2>3, <2>4
  <2> HIDE DEF taken, rest
  <2>6. sent = Len(got) + Len(pipe) + Len(taken) + Len(rest)
    BY <1>1, <2>1, <2>5
  <2>7. From(Len(got) + Len(pipe), taken) /\ From(Len(got) + Len(pipe) + Len(taken), rest)
    BY <2>5
  <2>8. Flow(got, pipe, taken, rest, sent)
    BY <2>6, <2>7
  <2> QED
    BY <2>8 DEF taken, rest
<1>5. Flow(got, pipe \o held, <<>>, queue, sent)
  <2>1. From(Len(got), pipe \o held) /\ Len(pipe \o held) = Len(pipe) + Len(held)
    BY <1>1, FromConcat
  <2>2. \A n \in Nat : From(n, <<>>) /\ Len(<<>>) = 0
    BY DEF From
  <2> QED
    BY <1>1, <2>1, <2>2
<1>6. ASSUME pipe # <<>>
      PROVE  Flow(Append(got, Head(pipe)), Tail(pipe), held, queue, sent)
  <2>1. /\ Head(pipe) = Len(got) + 1 /\ From(Len(got) + 1, Tail(pipe))
        /\ Len(pipe) = Len(Tail(pipe)) + 1
    BY <1>1, <1>6, FromTail
  <2>2. From(0, Append(got, 0 + Len(got) + 1)) /\ Len(Append(got, 0 + Len(got) + 1)) = Len(got) + 1
    BY <1>1, FromAppend
  <2>3. Len(Tail(pipe)) \in Nat /\ 0 + Len(got) + 1 = Head(pipe)
    BY <1>1, <2>1 DEF From
  <2> DEFINE read == Append(got, Head(pipe))
             rest == Tail(pipe)
  <2>4. /\ From(0, read) /\ Len(read) = Len(got) + 1
        /\ From(Len(got) + 1, rest) /\ Len(pipe) = Len(rest) + 1 /\ Len(rest) \in Nat
    BY <2>1, <2>2, <2>3
  <2> HIDE DEF read, rest
  <2>5. Len(read) + Len(rest) = Len(got) + Len(pipe)
    BY <1>1, <2>4
  <2>6. Flow(read, rest, held, queue, sent)
    BY <1>1, <2>4, <2>5
  <2> QED
    BY <2>6 DEF read, rest
<1> QED
  BY <1>2, <1>3, <1>4, <1>5, <1>6

(* CopyInv, step by step.                                                    *)
LEMMA CopyStep ==
  ASSUME CopyInv, [CopyNext]_copyVars
  PROVE  CopyInv'
<1>0. /\ Flow(agentGot, stdin, inHeld, socketIn, clientSent)
      /\ Flow(clientGot, socketOut, outHeld, stdout, agentSaid)
  BY DEF CopyInv
<1> DEFINE InFlow == Flow(agentGot, stdin, inHeld, socketIn, clientSent)
           OutFlow == Flow(clientGot, socketOut, outHeld, stdout, agentSaid)
<1>1. ASSUME UNCHANGED <<clientGot, outLoop, agentSaid, agentAlive, link>>, InFlow'
      PROVE  CopyInv'
  BY <1>0, <1>1 DEF outLoop, CopyInv
<1>2. ASSUME UNCHANGED <<agentGot, inLoop, clientSent>>, OutFlow',
             link' = "agent" => outHeld' = <<>> /\ stdout' = <<>> /\ ~agentAlive'
      PROVE  CopyInv'
  BY <1>0, <1>2 DEF inLoop, CopyInv
<1>3. CASE ClientSends
  BY <1>0, <1>1, <1>3, FlowSteps DEF ClientSends, agentSide
<1>4. CASE ReadSocket
  BY <1>0, <1>1, <1>4, FlowSteps DEF ReadSocket, agentSide, clientSide
<1>5. CASE WriteStdin
  BY <1>0, <1>1, <1>5, FlowSteps DEF WriteStdin, agentSide, clientSide
<1>6. CASE AgentReads
  BY <1>0, <1>1, <1>6, FlowSteps DEF AgentReads, clientSide
<1>7. CASE AgentSpeaks
  BY <1>0, <1>2, <1>7, FlowSteps DEF AgentSpeaks, clientSide, CopyInv
<1>8. CASE ReadStdout
  BY <1>0, <1>2, <1>8, FlowSteps DEF ReadStdout, agentSide, clientSide
<1>9. CASE WriteSocket
  BY <1>0, <1>2, <1>9, FlowSteps DEF WriteSocket, agentSide, clientSide
<1>10. CASE ClientReads
  BY <1>0, <1>2, <1>10, FlowSteps DEF ClientReads, agentSide, CopyInv
<1>11. CASE ClientCloses \/ AgentExits
  BY <1>0, <1>2, <1>11 DEF ClientCloses, AgentExits, inLoop, outLoop, agentSide, clientSide, CopyInv
<1>12. CASE ClientGone \/ AgentGone \/ WriteToDead \/ LoopFails
  BY <1>0, <1>2, <1>12 DEF ClientGone, AgentGone, WriteToDead, LoopFails, Ends, inLoop, outLoop,
     agentSide, clientSide
<1>13. CASE UNCHANGED copyVars
  BY <1>0, <1>2, <1>13 DEF copyVars, inLoop, CopyInv
<1> QED
  BY <1>3, <1>4, <1>5, <1>6, <1>7, <1>8, <1>9, <1>10, <1>11, <1>12, <1>13 DEF CopyNext, Copy

(* CopyInv holds for ever.                                                   *)
LEMMA CopyInductive == CopySpec => []CopyInv
<1>1. CopyInit => CopyInv
  BY DEF CopyInit, CopyInv, Flow, From
<1>2. CopyInv /\ [CopyNext]_copyVars => CopyInv'
  BY CopyStep
<1> QED
  BY <1>1, <1>2, PTL DEF CopySpec

(* InOrder wherever a connection of any length is cut: the lines are those   *)
(* sent, in order, and all of them when it ended because the agent was done. *)
THEOREM CopiedInOrder == CopySpec => []InOrder
<1>1. ASSUME NEW got, NEW pipe, NEW held, NEW queue, NEW sent, Flow(got, pipe, held, queue, sent)
      PROVE  /\ Counts(got \o pipe \o held)
             /\ held = <<>> /\ queue = <<>> => Len(got \o pipe) = sent
  <2>1. Len(got) \in Nat /\ Len(pipe) \in Nat
    BY <1>1 DEF Flow, From
  <2>2. From(0, got \o pipe) /\ Len(got \o pipe) = Len(got) + Len(pipe)
    <3>1. From(0, got) /\ From(0 + Len(got), pipe)
      BY <1>1, <2>1 DEF Flow
    <3> QED
      BY <3>1, FromConcat
  <2>3. From(0, (got \o pipe) \o held)
    <3>1. From(0 + Len(got \o pipe), held)
      BY <1>1, <2>1, <2>2 DEF Flow
    <3> QED
      BY <2>2, <3>1, FromConcat
  <2>4. Counts(got \o pipe \o held)
    BY <2>3 DEF From, Counts
  <2>5. held = <<>> /\ queue = <<>> => Len(got \o pipe) = sent
    BY <1>1, <2>1, <2>2 DEF Flow
  <2> QED
    BY <2>4, <2>5
<1>2. CopyInv => InOrder
  BY <1>1 DEF CopyInv, InOrder
<1> QED
  BY <1>2, CopyInductive, PTL

(* The rest of what the two ends and the loops may be.                       *)
CopyShape ==
  /\ clientOpen \in BOOLEAN /\ agentAlive \in BOOLEAN
  /\ link \in {"open", "client", "agent", "error"}
  /\ Len(inHeld) <= 1 /\ Len(outHeld) <= 1

(* The types of a copied connection: a loop holds one line at the most.      *)
LEMMA CopyTypeCorrect == CopySpec => []CopyTypeOK
<1>1. CopyInit => CopyShape
  BY DEF CopyInit, CopyShape
<1>2. CopyShape /\ [CopyNext]_copyVars => CopyShape'
  <2> SUFFICES ASSUME CopyShape, [CopyNext]_copyVars PROVE CopyShape'
    OBVIOUS
  <2> USE DEF CopyShape, clientSide, agentSide, inLoop, outLoop
  <2>1. CASE UNCHANGED copyVars
    BY <2>1 DEF copyVars
  <2>2. CASE ClientSends \/ ClientCloses \/ ClientReads \/ AgentReads \/ AgentSpeaks \/ AgentExits
    BY <2>2 DEF ClientSends, ClientCloses, ClientReads, AgentReads, AgentSpeaks, AgentExits
  <2>3. ASSUME NEW held, NEW next, Len(held) <= 1,
               next = held \/ next = <<>> \/ \E line : next = <<line>>
        PROVE  Len(next) <= 1
    <3>1. CASE next = <<>>
      BY <3>1
    <3>2. ASSUME NEW line, next = <<line>>
          PROVE  Len(next) <= 1
      BY <3>2
    <3> QED
      BY <2>3, <3>1, <3>2
  <2>4. CASE ReadSocket \/ WriteStdin \/ ReadStdout \/ WriteSocket
    <3>1. /\ inHeld' = inHeld \/ inHeld' = <<>> \/ \E line : inHeld' = <<line>>
          /\ outHeld' = outHeld \/ outHeld' = <<>> \/ \E line : outHeld' = <<line>>
      BY <2>4, Zenon DEF ReadSocket, WriteStdin, ReadStdout, WriteSocket
    <3>2. UNCHANGED <<clientOpen, agentAlive, link>>
      BY <2>4 DEF ReadSocket, WriteStdin, ReadStdout, WriteSocket
    <3>3. Len(inHeld') <= 1 /\ Len(outHeld') <= 1
      BY <2>3, <3>1
    <3> QED
      BY <3>2, <3>3
  <2>5. CASE ClientGone \/ AgentGone \/ WriteToDead \/ LoopFails
    BY <2>5 DEF ClientGone, AgentGone, WriteToDead, LoopFails, Ends
  <2> QED
    BY <2>1, <2>2, <2>4, <2>5 DEF CopyNext, Copy
<1>3. CopyInv /\ CopyShape => CopyTypeOK
  <2> SUFFICES ASSUME CopyInv, CopyShape PROVE CopyTypeOK
    OBVIOUS
  <2>1. /\ agentGot \in Seq(Nat) /\ stdin \in Seq(Nat) /\ inHeld \in Seq(Nat) /\ socketIn \in Seq(Nat)
        /\ clientGot \in Seq(Nat) /\ socketOut \in Seq(Nat) /\ outHeld \in Seq(Nat)
        /\ stdout \in Seq(Nat)
    BY DEF CopyInv, Flow, From
  <2>2. clientSent \in Nat /\ agentSaid \in Nat
    BY FlowSteps DEF CopyInv
  <2> QED
    BY <2>1, <2>2 DEF CopyShape, CopyTypeOK
<1> QED
  BY <1>1, <1>2, <1>3, CopyInductive, PTL DEF CopySpec

-----------------------------------------------------------------------------
(* The parts together                                                        *)

(* The types of a turn's content, from what is known of the prompt and of    *)
(* the answer.                                                               *)
LEMMA TranslationTypeCorrect == TranslationSpec => []TranslationTypeOK
<1>1. TranslationInit => hops <= MaxHops
  BY TranslationAssumption DEF TranslationInit
<1>2. CarriedInv /\ hops <= MaxHops /\ [TranslationNext]_translationVars => (hops <= MaxHops)'
  <2> SUFFICES ASSUME CarriedInv, hops <= MaxHops, [TranslationNext]_translationVars
               PROVE  hops' <= MaxHops
    OBVIOUS
  <2>1. CASE Hop
    BY <2>1, TranslationAssumption DEF Hop, CarriedInv
  <2>2. AnswerStep \/ UNCHANGED translationVars => UNCHANGED hops
    BY DEF AnswerStep, AgentUpdates, AgentEnds, TranslateUpdate, SendTerminal, Gather, Store,
       translationVars, path
  <2> QED
    BY <2>1, <2>2 DEF TranslationNext
<1>3. CarriedInv /\ hops <= MaxHops /\ AnswerInv => TranslationTypeOK
  <2> SUFFICES ASSUME CarriedInv, hops <= MaxHops, AnswerInv PROVE TranslationTypeOK
    OBVIOUS
  <2>1. original \in Carriage /\ hops \in 0 .. MaxHops /\ ways \subseteq Way
    BY TranslationAssumption DEF CarriedInv
  <2>2. carried \in [block : ContentBlock, reason : StopReason \union {"unsaid", "error"}]
    <3>1. original.block \in ContentBlock /\ original.reason \in StopReason
          /\ original = [block |-> original.block, reason |-> original.reason]
      BY <2>1, TranslationAssumption DEF Carriage
    <3>2. Through(original.block) \in ContentBlock
      BY <3>1, ThroughOnce
    <3>3. carried.reason \in StopReason \union {"unsaid", "error"}
      BY <3>1 DEF CarriedInv, ReasonAfter, StopReason
    <3> QED
      BY <3>1, <3>2, <3>3 DEF CarriedInv
  <2>3. /\ said \in Seq(Says) /\ updates \in Seq(Says) /\ text \in Seq(Data)
        /\ agentDone \in BOOLEAN /\ translated \in BOOLEAN
    BY DEF AnswerInv, AnswerTypes
  <2>4. finalState \in {"none", "completed"}
    BY DEF AnswerInv
  <2>5. record = NoRecord \/ record = [state |-> "completed", text |-> text]
    BY DEF AnswerInv
  <2>6. record \in [state : TaskState \union {"none"}, text : Seq(Data)]
    <3>1. <<>> \in Seq(Data)
      OBVIOUS
    <3>2. \A state \in TaskState \union {"none"}, whole \in Seq(Data) :
            [state |-> state, text |-> whole] \in [state : TaskState \union {"none"}, text : Seq(Data)]
      OBVIOUS
    <3>3. "completed" \in TaskState
      BY DEF TaskState
    <3> HIDE DEF TaskState
    <3> QED
      BY <2>3, <2>5, <3>1, <3>2, <3>3 DEF NoRecord
  <2> QED
    BY <2>1, <2>2, <2>3, <2>4, <2>6 DEF TranslationTypeOK, TaskState
<1> QED
  BY <1>1, <1>2, <1>3, CarriedInductive, AnswerInductive, PTL DEF TranslationSpec

(* The parts run side by side as each does alone.                            *)
LEMMA Parts == Spec => CopySpec /\ ProxySpec /\ PacingSpec /\ TranslationSpec
<1>1. Init => CopyInit /\ ProxyInit /\ PacingInit /\ TranslationInit
  BY DEF Init
<1>2. [Next]_vars => /\ [CopyNext]_copyVars /\ [ProxyNext]_proxyVars
                     /\ [PacingNext]_pacingVars /\ [TranslationNext]_translationVars
  <2>1. UNCHANGED vars => /\ UNCHANGED copyVars /\ UNCHANGED proxyVars
                          /\ UNCHANGED pacingVars /\ UNCHANGED translationVars
    BY DEF vars
  <2>2. UNCHANGED path /\ UNCHANGED answerVars => UNCHANGED translationVars
    BY DEF translationVars
  <2>3. Next => /\ CopyNext \/ UNCHANGED copyVars
                /\ ProxyNext \/ UNCHANGED proxyVars
                /\ PacingNext \/ UNCHANGED pacingVars
                /\ TranslationNext \/ UNCHANGED translationVars
    BY <2>2 DEF Next, Of, TranslationNext
  <2> QED
    BY <2>1, <2>3
<1> QED
  BY <1>1, <1>2, PTL DEF Spec, CopySpec, ProxySpec, PacingSpec, TranslationSpec

(* TypeOK: the types of the two passthroughs, of the supervisor's lock and   *)
(* clock, and of the content of a turn.                                      *)
THEOREM PathsTypeCorrect == Spec => []TypeOK
<1>1. PacingInv => PacingTypeOK
  BY DEF PacingInv
<1>2. ProxyInv => ProxyTypeOK
  BY DEF ProxyInv
<1>3. CopyTypeOK /\ ProxyTypeOK /\ PacingTypeOK /\ TranslationTypeOK => TypeOK
  BY DEF TypeOK
<1> QED
  BY <1>1, <1>2, <1>3, Parts, CopyTypeCorrect, ProxyInductive, PacingInductive,
     TranslationTypeCorrect, PTL

(* The safety properties of the parts, of all of them side by side.          *)
COROLLARY PathsSafe == Spec => [](InOrder /\ CachedWasProbed /\ Paced /\ Carried /\ RecordWhole)
BY Parts, CopiedInOrder, CacheIsOfAProbe, AttemptsPaced, PromptCarried, RecordIsWhole, PTL
===============================================================================
