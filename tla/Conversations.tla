---------------------------- MODULE Conversations ----------------------------
(***************************************************************************)
(* Direction 4 of the gateway: an A2A client talks to a stdio ACP agent    *)
(* through AcpAsA2a<SupervisedStdioAgent> (core/src/convert.rs).  Each     *)
(* A2A contextId is one conversation with an ACP session of its own; a     *)
(* TurnLease (core/src/lease.rs) lets one prompt at a time into a session; *)
(* the supervisor (core/src/supervisor.rs) replaces a dead agent process   *)
(* and numbers the processes with a generation.                            *)
(*                                                                         *)
(* A Call is one request slot of the HTTP server: it sends into its        *)
(* context for its client, returns, and may send again.  The actions of a  *)
(* call are the stretches of send_task_as and cancel_task_as between two   *)
(* awaits; those of different calls, of the agent process and of the clock *)
(* interleave freely.                                                      *)
(***************************************************************************)
EXTENDS Naturals, FiniteSets

CONSTANTS
  Call,           \* concurrent requests (tokio tasks of the HTTP server)
  Context,        \* A2A contextIds
  Owner,          \* clients, told apart by the HMAC of their token
  ContextOf,      \* the contextId a call sends into
  OwnerOf,        \* the client a call sends for
  SessionId,      \* session ids the agent hands out
  Lock,           \* identities of the Arc<Mutex<()>> of the lease table
  NoCall, NoLock, NoSession, NoEntry, Unissued,
  MaxSessions,    \* MAX_SESSIONS_PER_AGENT (256 in the code)
  MaxGeneration,  \* bound of the model: respawns stop at this generation
  IdsRestart      \* TRUE: a new process hands out old session ids again

VARIABLES
  sessions,       \* AcpAsA2a.sessions: contextId -> SessionEntry
  sessionsMutex,  \* the call that holds the tokio mutex around it
  leases,         \* TurnLease.locks: session id -> lock
  holder,         \* the call whose TurnGuard owns a lock
  pc,             \* where a call is in send_task_as or cancel_task_as
  sid,            \* its local variable `session`
  seen,           \* its local variable `generation` in ensure_session
  lock,           \* the Arc it cloned out of the lease table
  proc,           \* generation of the process its prompt was written to
  generation,     \* SupervisedStdioAgent.generation
  alive,          \* whether the current agent process runs
  origin          \* what the agent knows of a session: for whom and in which
                  \* process it was created

callVars  == <<pc, sid, seen, lock, proc>>
agentVars == <<generation, alive, origin>>
leaseVars == <<leases, holder>>
vars == <<sessions, sessionsMutex, leaseVars, callVars, agentVars>>

Entry  == [sid : SessionId, owner : Owner, generation : Nat, idle : BOOLEAN]
Origin == [context : Context, owner : Owner, generation : Nat]

ASSUME ConversationsAssumption ==
  /\ ContextOf \in [Call -> Context]
  /\ OwnerOf \in [Call -> Owner]
  /\ NoCall \notin Call
  /\ NoLock \notin Lock
  /\ NoSession \notin SessionId
  /\ NoEntry \notin Entry
  /\ Unissued \notin Origin
  /\ MaxSessions \in Nat
  /\ MaxGeneration \in Nat
  /\ IdsRestart \in BOOLEAN

Init ==
  /\ sessions = [c \in Context |-> NoEntry]
  /\ sessionsMutex = NoCall
  /\ leases = [s \in SessionId |-> NoLock]
  /\ holder = [l \in Lock |-> NoCall]
  /\ pc = [r \in Call |-> "idle"]
  /\ sid = [r \in Call |-> NoSession]
  /\ seen = [r \in Call |-> 0]
  /\ lock = [r \in Call |-> NoLock]
  /\ proc = [r \in Call |-> 0]
  /\ generation = 1
  /\ alive = TRUE
  /\ origin = [s \in SessionId |-> Unissued]

-----------------------------------------------------------------------------
(* SupervisedStdioAgent::healthy, run before every call to the agent: a live *)
(* process is used as it is, a dead one is replaced and the generation       *)
(* counted up, unless the backoff, the spawn or the handshake prevents it.   *)

UseProcess ==
  /\ alive
  /\ UNCHANGED <<alive, generation>>

Respawn ==
  /\ ~alive
  /\ generation < MaxGeneration
  /\ alive' = TRUE
  /\ generation' = generation + 1

Healthy == UseProcess \/ Respawn

Unhealthy ==
  /\ ~alive
  /\ UNCHANGED <<alive, generation>>

(* Call r returns to the transport: its locals go out of scope.              *)
Return(r) ==
  /\ pc' = [pc EXCEPT ![r] = "idle"]
  /\ sid' = [sid EXCEPT ![r] = NoSession]
  /\ seen' = [seen EXCEPT ![r] = 0]
  /\ lock' = [lock EXCEPT ![r] = NoLock]
  /\ proc' = [proc EXCEPT ![r] = 0]

(* ensure_session returns session s: the sessions mutex is released and the  *)
(* call goes on to the lease.                                                *)
HandOut(r, s) ==
  /\ pc' = [pc EXCEPT ![r] = "acquire"]
  /\ sid' = [sid EXCEPT ![r] = s]
  /\ seen' = [seen EXCEPT ![r] = 0]
  /\ sessionsMutex' = NoCall
  /\ UNCHANGED <<lock, proc>>

-----------------------------------------------------------------------------
(* ensure_session, which holds the sessions mutex from its first line to its *)
(* return, across the awaits on the agent.                                   *)

(* TurnLease::forget for every session of S: the entries go, whoever holds a *)
(* clone of the lock.                                                        *)
Forget(S) == [s \in SessionId |-> IF s \in S THEN NoLock ELSE leases[s]]

Expired == {c \in Context : sessions[c] # NoEntry /\ sessions[c].idle}

(* The mutex is taken, expired entries and their leases are dropped.         *)
BeginSend(r) ==
  /\ pc[r] = "idle"
  /\ sessionsMutex = NoCall
  /\ sessionsMutex' = r
  /\ pc' = [pc EXCEPT ![r] = "ready"]
  /\ sessions' = [c \in Context |-> IF c \in Expired THEN NoEntry ELSE sessions[c]]
  /\ leases' = Forget({sessions[c].sid : c \in Expired})
  /\ UNCHANGED <<holder, sid, seen, lock, proc, agentVars>>

(* inner.ensure_ready()                                                      *)
EnsureReady(r) ==
  /\ pc[r] = "ready"
  /\ Healthy
  /\ pc' = [pc EXCEPT ![r] = "decide"]
  /\ UNCHANGED <<sessions, sessionsMutex, leaseVars, sid, seen, lock, proc, origin>>

NotReady(r) ==
  /\ pc[r] = "ready"
  /\ Unhealthy
  /\ sessionsMutex' = NoCall
  /\ Return(r)
  /\ UNCHANGED <<sessions, leaseVars, origin>>

Conversation(r) == sessions[ContextOf[r]]

OwnedByAnyone(r) == Conversation(r) # NoEntry

Owned(r) == Conversation(r) # NoEntry /\ Conversation(r).owner = OwnerOf[r]

NeverStale(r) == FALSE

Stale(r) == Conversation(r).generation # generation

Live == {c \in Context : sessions[c] # NoEntry}

HasRoomForOneTooMany == Cardinality(Live) <= MaxSessions

HasRoom == Cardinality(Live) < MaxSessions

(* The generation is read now.  The entry belongs to another client ...      *)
RejectForeign(r) ==
  /\ pc[r] = "decide"
  /\ Conversation(r) # NoEntry
  /\ ~Owned(r)
  /\ sessionsMutex' = NoCall
  /\ Return(r)
  /\ UNCHANGED <<sessions, leaseVars, agentVars>>

(* ... or to a process of another generation: Err(ContextLost) ...           *)
ReportLost(r) ==
  /\ pc[r] = "decide"
  /\ Owned(r)
  /\ Stale(r)
  /\ sessions' = [sessions EXCEPT ![ContextOf[r]] = NoEntry]
  /\ leases' = Forget({Conversation(r).sid})
  /\ sessionsMutex' = NoCall
  /\ Return(r)
  /\ UNCHANGED <<holder, agentVars>>

(* ... or it is good ...                                                     *)
ReuseSession(r) ==
  /\ pc[r] = "decide"
  /\ Owned(r)
  /\ ~Stale(r)
  /\ sessions' = [sessions EXCEPT ![ContextOf[r]].idle = FALSE]
  /\ HandOut(r, Conversation(r).sid)
  /\ UNCHANGED <<leaseVars, agentVars>>

(* ... or there is none: within the cap a new one is asked for.              *)
RejectFull(r) ==
  /\ pc[r] = "decide"
  /\ Conversation(r) = NoEntry
  /\ ~HasRoom
  /\ sessionsMutex' = NoCall
  /\ Return(r)
  /\ UNCHANGED <<sessions, leaseVars, agentVars>>

StartNew(r) ==
  /\ pc[r] = "decide"
  /\ Conversation(r) = NoEntry
  /\ HasRoom
  /\ pc' = [pc EXCEPT ![r] = "new"]
  /\ seen' = [seen EXCEPT ![r] = generation]
  /\ UNCHANGED <<sessions, sessionsMutex, leaseVars, sid, lock, proc, agentVars>>

(* inner.new_session: healthy() once more, then session/new.  The entry is   *)
(* stamped with the generation read before.                                  *)
MayIssue(s) ==
  origin[s] # Unissued => IdsRestart /\ origin[s].generation # generation'

NewSession(r) ==
  /\ pc[r] = "new"
  /\ Healthy
  /\ \E s \in SessionId :
       /\ MayIssue(s)
       /\ origin' = [origin EXCEPT ![s] = [context |-> ContextOf[r], owner |-> OwnerOf[r],
                                           generation |-> generation']]
       /\ sessions' = [sessions EXCEPT ![ContextOf[r]] =
                         [sid |-> s, owner |-> OwnerOf[r], generation |-> seen[r], idle |-> FALSE]]
       /\ HandOut(r, s)
  /\ UNCHANGED leaseVars

NewSessionFails(r) ==
  /\ pc[r] = "new"
  /\ Healthy \/ Unhealthy
  /\ sessionsMutex' = NoCall
  /\ Return(r)
  /\ UNCHANGED <<sessions, leaseVars, origin>>

-----------------------------------------------------------------------------
(* TurnLease::acquire                                                        *)

Unreferenced(l) ==
  /\ \A s \in SessionId : leases[s] # l
  /\ \A r \in Call : lock[r] # l

AlwaysNewLock(s, l) == Unreferenced(l)

(* locks.entry(session).or_insert_with(..): l is the lock of session s.      *)
LockFor(s, l) == IF leases[s] = NoLock THEN Unreferenced(l) ELSE leases[s] = l

Acquire(r) ==
  /\ pc[r] = "acquire"
  /\ \E l \in Lock :
       /\ LockFor(sid[r], l)
       /\ leases' = [leases EXCEPT ![sid[r]] = l]
       /\ lock' = [lock EXCEPT ![r] = l]
  /\ pc' = [pc EXCEPT ![r] = "wait"]
  /\ UNCHANGED <<sessions, sessionsMutex, holder, sid, seen, proc, agentVars>>

Locked(r) ==
  /\ pc[r] = "wait"
  /\ holder[lock[r]] = NoCall
  /\ holder' = [holder EXCEPT ![lock[r]] = r]
  /\ pc' = [pc EXCEPT ![r] = "prompt"]
  /\ UNCHANGED <<sessions, sessionsMutex, leases, sid, seen, lock, proc, agentVars>>

WaitsForever(r) == FALSE

LeaseTimeout(r) ==
  /\ pc[r] = "wait"
  /\ holder[lock[r]] # NoCall
  /\ Return(r)
  /\ UNCHANGED <<sessions, sessionsMutex, leaseVars, agentVars>>

-----------------------------------------------------------------------------
(* The turn: prompt_streaming runs healthy() and writes session/prompt to    *)
(* whatever process that returns.  The guard is dropped when send_task_as    *)
(* returns, which for a streamed reply is after the first chunk.             *)

DropGuard(r) == holder' = [holder EXCEPT ![lock[r]] = NoCall]

Prompt(r) ==
  /\ pc[r] = "prompt"
  /\ Healthy
  /\ pc' = [pc EXCEPT ![r] = "turn"]
  /\ proc' = [proc EXCEPT ![r] = generation']
  /\ UNCHANGED <<sessions, sessionsMutex, leaseVars, sid, seen, lock, origin>>

(* No message in the task, or no healthy process.                            *)
PromptFails(r) ==
  /\ pc[r] = "prompt"
  /\ DropGuard(r)
  /\ Return(r)
  /\ UNCHANGED <<sessions, sessionsMutex, leases, agentVars>>

(* A complete reply, an error of the agent, the first-chunk timeout, the end *)
(* of the process, or a client that hung up: its handler is dropped at the   *)
(* await, and the guard with it, as in PromptFails and NewSessionFails.      *)
EndTurn(r) ==
  /\ pc[r] = "turn"
  /\ DropGuard(r)
  /\ Return(r)
  /\ UNCHANGED <<sessions, sessionsMutex, leases, agentVars>>

(* Whether process p knows the session of call r at all.                     *)
Knows(p, r) == origin[sid[r]] # Unissued /\ origin[sid[r]].generation = p

Stream(r) ==
  /\ pc[r] = "turn"
  /\ alive
  /\ proc[r] = generation
  /\ Knows(proc[r], r)
  /\ DropGuard(r)
  /\ pc' = [pc EXCEPT ![r] = "streaming"]
  /\ lock' = [lock EXCEPT ![r] = NoLock]
  /\ UNCHANGED <<sessions, sessionsMutex, leases, sid, seen, proc, agentVars>>

EndStream(r) ==
  /\ pc[r] = "streaming"
  /\ Return(r)
  /\ UNCHANGED <<sessions, sessionsMutex, leaseVars, agentVars>>

-----------------------------------------------------------------------------
(* cancel_task_as: lookup_session checks the owner but no generation, then   *)
(* inner.cancel runs healthy() and notifies.                                 *)

LookupForCancel(r) ==
  /\ pc[r] = "idle"
  /\ sessionsMutex = NoCall
  /\ Owned(r)
  /\ pc' = [pc EXCEPT ![r] = "cancel"]
  /\ sid' = [sid EXCEPT ![r] = Conversation(r).sid]
  /\ UNCHANGED <<sessions, sessionsMutex, leaseVars, seen, lock, proc, agentVars>>

Cancel(r) ==
  /\ pc[r] = "cancel"
  /\ Healthy \/ Unhealthy
  /\ Return(r)
  /\ UNCHANGED <<sessions, sessionsMutex, leaseVars, origin>>

-----------------------------------------------------------------------------
(* The environment.                                                          *)

Crash ==
  /\ alive
  /\ alive' = FALSE
  /\ UNCHANGED <<sessions, sessionsMutex, leaseVars, callVars, generation, origin>>

(* session_ttl passes since last_used.  The TTL (24 h) outlasts the few      *)
(* instructions between ensure_session and the lease table, never a turn.    *)
GoIdle(c) ==
  /\ sessions[c] # NoEntry
  /\ ~sessions[c].idle
  /\ \A r \in Call : ~(pc[r] = "acquire" /\ sid[r] = sessions[c].sid)
  /\ sessions' = [sessions EXCEPT ![c].idle = TRUE]
  /\ UNCHANGED <<sessionsMutex, leaseVars, callVars, agentVars>>

-----------------------------------------------------------------------------
EnsureSession(r) ==
  \/ EnsureReady(r) \/ NotReady(r)
  \/ RejectForeign(r) \/ ReportLost(r) \/ ReuseSession(r)
  \/ RejectFull(r) \/ StartNew(r)
  \/ NewSession(r) \/ NewSessionFails(r)

Turn(r) ==
  \/ Acquire(r) \/ Locked(r) \/ LeaseTimeout(r)
  \/ Prompt(r) \/ PromptFails(r) \/ EndTurn(r) \/ Stream(r)

Next ==
  \/ \E r \in Call :
       \/ BeginSend(r) \/ EnsureSession(r) \/ Turn(r) \/ EndStream(r)
       \/ LookupForCancel(r) \/ Cancel(r)
  \/ Crash
  \/ \E c \in Context : GoIdle(c)

Spec == Init /\ [][Next]_vars

(* Every await of a call that has not returned is bounded: the agent answers *)
(* or dies, or call_timeout, first_chunk_timeout or lease_timeout fires.     *)
(* That the pipe to the agent has room for the request is assumed here; no   *)
(* timeout covers the write (see StdioAgent).  Nothing bounds a stream whose *)
(* chunks keep coming: EndStream is not fair.                                *)
FairSpec ==
  /\ Spec
  /\ \A r \in Call : WF_vars(EnsureSession(r)) /\ WF_vars(Turn(r)) /\ WF_vars(Cancel(r))

-----------------------------------------------------------------------------
(* Properties                                                                *)

PC == {"idle", "ready", "decide", "new", "acquire", "wait", "prompt", "turn",
       "streaming", "cancel"}

(* Type invariant of the adapter, the lease table and the supervisor.        *)
TypeOK ==
  /\ sessions \in [Context -> Entry \cup {NoEntry}]
  /\ sessionsMutex \in Call \cup {NoCall}
  /\ leases \in [SessionId -> Lock \cup {NoLock}]
  /\ holder \in [Lock -> Call \cup {NoCall}]
  /\ pc \in [Call -> PC]
  /\ sid \in [Call -> SessionId \cup {NoSession}]
  /\ seen \in [Call -> Nat]
  /\ lock \in [Call -> Lock \cup {NoLock}]
  /\ proc \in [Call -> Nat]
  /\ generation \in Nat
  /\ alive \in BOOLEAN
  /\ origin \in [SessionId -> Origin \cup {Unissued}]

(* The process that what call r sends or sent goes to.                       *)
Addressed(r) == IF pc[r] = "cancel" THEN generation ELSE proc[r]

(* "any two A2A clients ended up in the same conversation" (convert.rs:177   *)
(* says this was fixed): a prompt or a cancel that reaches a session reaches *)
(* one created for the same contextId and the same client.                   *)
Isolation ==
  \A r \in Call :
    pc[r] \in {"turn", "streaming", "cancel"} /\ Knows(Addressed(r), r)
      => /\ origin[sid[r]].context = ContextOf[r]
         /\ origin[sid[r]].owner = OwnerOf[r]

(* The promise of TurnLease for the part of a turn that send_task_as waits   *)
(* for: no two calls have a prompt outstanding in one session of one process *)
(* however evictions, respawns and forgotten leases interleave.              *)
TurnExclusion ==
  \A q, r \in Call :
    /\ pc[q] = "turn" /\ pc[r] = "turn"
    /\ sid[q] = sid[r] /\ proc[q] = proc[r] /\ Knows(proc[r], r)
    => q = r

(* A stored session that ensure_session hands out was created by the process *)
(* of the generation it has just read: after a respawn the first access gets *)
(* ContextLost, never a session the new process does not know.               *)
FreshHandOut ==
  [][\A r \in Call :
       pc[r] = "decide" /\ pc'[r] = "acquire" => Knows(generation, r)']_vars

(* The cap on live conversations holds although the check and the insertion  *)
(* are separated by the awaits of new_session.                               *)
SessionCap == Cardinality(Live) <= MaxSessions

(* A call comes back, whatever the agent and the other calls do.             *)
Returns ==
  \A r \in Call :
    pc[r] \notin {"idle", "streaming"} ~> pc[r] \in {"idle", "streaming"}

(* lease.rs:3: "TurnLease: serializes prompts for one session", streamed     *)
(* turns included.                                                           *)
OneTurnPerSession ==
  \A q, r \in Call :
    /\ pc[q] \in {"turn", "streaming"} /\ pc[r] \in {"turn", "streaming"}
    /\ sid[q] = sid[r] /\ proc[q] = proc[r] /\ Knows(proc[r], r)
    => q = r

=============================================================================
