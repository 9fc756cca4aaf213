----------------------------- MODULE RespawnPacing -----------------------------
(***************************************************************************)
(* SupervisedStdioAgent::healthy (core/src/supervisor.rs) in time: every   *)
(* operation on the agent comes here first, takes the lock, looks whether  *)
(* the process lives and replaces it when it does not.  Spawn and          *)
(* handshake are awaited under the lock; a caller may be dropped there,    *)
(* by a client that hangs up, and the new process is dropped with it.      *)
(* Conversations models what the conversations make of a new generation;   *)
(* this module the pace of the attempts.                                   *)
(***************************************************************************)
EXTENDS Naturals, Sequences

CONSTANTS
  Callers,
  Nobody,
  Backoff,     \* respawn_backoff in ticks
  MaxInstant,  \* bound of the model: the clock
  MaxAttempts  \* bound of the model: spawns

ASSUME RespawnAssumption ==
  /\ Nobody \notin Callers
  /\ {Backoff, MaxInstant, MaxAttempts} \subseteq Nat

VARIABLES
  instant,     \* the monotonic clock
  alive,       \* whether current.agent lives
  spawnedAt,   \* current.spawned_at
  generation,  \* current.generation, and the copy outside the lock
  holder,      \* who holds the lock of current
  callerPc,    \* where healthy of a caller is
  begunAt,     \* when the attempt under way began
  attempts     \* history: the attempts that are over, and the generation each gave

pacingVars == <<instant, alive, spawnedAt, generation, holder, callerPc, begunAt, attempts>>

PacingInit ==
  /\ instant = 0
  /\ alive = TRUE
  /\ spawnedAt = 0
  /\ generation = 1
  /\ holder = Nobody
  /\ callerPc = [c \in Callers |-> "idle"]
  /\ begunAt = 0
  /\ attempts = <<[begun |-> 0, over |-> 0, gave |-> 1]>>

At(c, where) == callerPc[c] = where
Goto(c, where) == callerPc' = [callerPc EXCEPT ![c] = where]

Call(c) ==
  /\ At(c, "idle")
  /\ Goto(c, "waiting")
  /\ UNCHANGED <<instant, alive, spawnedAt, generation, holder, begunAt, attempts>>

Lock(c) ==
  /\ At(c, "waiting")
  /\ holder = Nobody
  /\ holder' = c
  /\ Goto(c, "locked")
  /\ UNCHANGED <<instant, alive, spawnedAt, generation, begunAt, attempts>>

Unlock(c) == holder' = Nobody /\ Goto(c, "idle")

FoundAlive(c) ==
  /\ At(c, "locked")
  /\ alive
  /\ Unlock(c)
  /\ UNCHANGED <<instant, alive, spawnedAt, generation, begunAt, attempts>>

SinceSpawn == instant - spawnedAt

TooSoon(c) ==
  /\ At(c, "locked")
  /\ ~alive
  /\ SinceSpawn < Backoff
  /\ Unlock(c)
  /\ UNCHANGED <<instant, alive, spawnedAt, generation, begunAt, attempts>>

(* The guard of the lock lives through spawn and handshake.                  *)
ReleasesLock == holder' = Nobody
KeepsLock == UNCHANGED holder

BeginSpawn(c) ==
  /\ At(c, "locked")
  /\ ~alive
  /\ SinceSpawn >= Backoff
  /\ Len(attempts) < MaxAttempts
  /\ begunAt' = instant
  /\ Goto(c, "spawning")
  /\ KeepsLock
  /\ UNCHANGED <<instant, alive, spawnedAt, generation, attempts>>

Over(gave) == attempts' = Append(attempts, [begun |-> begunAt, over |-> instant, gave |-> gave])

Handshaken(c) ==
  /\ At(c, "spawning")
  /\ alive' = TRUE
  /\ generation' = generation + 1
  /\ spawnedAt' = instant
  /\ Over(generation + 1)
  /\ Unlock(c)
  /\ UNCHANGED <<instant, begunAt>>

(* The process does not start, or does not answer initialize in time; or the *)
(* caller is dropped where it awaits that.                                   *)
SpawnFails(c) ==
  /\ At(c, "spawning")
  /\ Over(0)
  /\ Unlock(c)
  /\ UNCHANGED <<instant, alive, spawnedAt, generation, begunAt>>

(* The caller is dropped where it waits for the lock.                        *)
CallerDropped(c) ==
  /\ At(c, "waiting")
  /\ Goto(c, "idle")
  /\ UNCHANGED <<instant, alive, spawnedAt, generation, holder, begunAt, attempts>>

ProcessDies ==
  /\ alive
  /\ alive' = FALSE
  /\ UNCHANGED <<instant, spawnedAt, generation, holder, callerPc, begunAt, attempts>>

PassTime ==
  /\ instant < MaxInstant
  /\ instant' = instant + 1
  /\ UNCHANGED <<alive, spawnedAt, generation, holder, callerPc, begunAt, attempts>>

Healthy(c) ==
  FoundAlive(c) \/ TooSoon(c) \/ BeginSpawn(c) \/ Handshaken(c) \/ SpawnFails(c)

PacingNext ==
  \/ \E c \in Callers : Call(c) \/ Lock(c) \/ Healthy(c) \/ CallerDropped(c)
  \/ ProcessDies
  \/ PassTime

PacingSpec == PacingInit /\ [][PacingNext]_pacingVars

-----------------------------------------------------------------------------
PacingTypeOK ==
  /\ instant \in Nat /\ generation \in Nat
  /\ alive \in BOOLEAN
  /\ spawnedAt \in 0 .. instant
  /\ begunAt \in 0 .. instant
  /\ holder \in Callers \union {Nobody}
  /\ callerPc \in [Callers -> {"idle", "waiting", "locked", "spawning"}]
  /\ attempts \in Seq([begun : Nat, over : Nat, gave : Nat])

(* However many callers find the agent dead at once, are dropped or fail:    *)
(* two attempts never overlap, after one that succeeded the next is Backoff  *)
(* later (supervisor.rs:87), and each success is a new generation, the last  *)
(* one the current.  An attempt that failed is followed at once by the next. *)
Paced ==
  /\ \A i, j \in 1 .. Len(attempts) : i < j =>
       /\ attempts[j].begun >= attempts[i].over + (IF attempts[i].gave = 0 THEN 0 ELSE Backoff)
       /\ attempts[j].gave # 0 => attempts[i].gave < attempts[j].gave
  /\ \E i \in 1 .. Len(attempts) : attempts[i].gave = generation
===============================================================================
