-------------------------- MODULE ConversationsInv --------------------------
(***************************************************************************)
(* The inductive invariant behind Isolation, TurnExclusion and             *)
(* FreshHandOut (IInv, for agents whose session ids are never reused) and  *)
(* behind SessionCap (CapInv).                                             *)
(***************************************************************************)
EXTENDS Conversations

(* Exactly the calls inside ensure_session hold the sessions mutex.          *)
MutexInv == \A r \in Call : pc[r] \in {"ready", "decide", "new"} <=> sessionsMutex = r

(* Sessions are not born in the future, no generation read is either.        *)
ClockInv ==
  /\ \A s \in SessionId : origin[s] # Unissued => origin[s].generation <= generation
  /\ \A r \in Call : seen[r] <= generation

(* An entry is for the context and client its session was created for, and   *)
(* is never stamped newer than its session.                                  *)
EntryInv ==
  \A c \in Context :
    sessions[c] # NoEntry =>
      /\ origin[sessions[c].sid] # Unissued
      /\ origin[sessions[c].sid].context = c
      /\ origin[sessions[c].sid].owner = sessions[c].owner
      /\ sessions[c].generation <= origin[sessions[c].sid].generation

(* So is the session a call carries away from the table.                     *)
CallInv ==
  \A r \in Call :
    pc[r] \in {"acquire", "wait", "prompt", "turn", "streaming", "cancel"} =>
      /\ sid[r] \in SessionId
      /\ origin[sid[r]] # Unissued
      /\ origin[sid[r]].context = ContextOf[r]
      /\ origin[sid[r]].owner = OwnerOf[r]

(* A call that may still be inside ensure_session's caller on session s.     *)
AtLease(r) == pc[r] \in {"wait", "prompt", "turn"}
InUse(r) == pc[r] = "acquire" \/ AtLease(r)

LockInv ==
  \A r \in Call : /\ AtLease(r) => lock[r] \in Lock
                  /\ pc[r] \in {"prompt", "turn"} => holder[lock[r]] = r

(* Session s belongs to the process of the current generation.               *)
Current(s) == origin[s] # Unissued /\ origin[s].generation = generation

(* An idle entry is not about to be used; an entry with a stamp older than   *)
(* its session was handed to nobody but the call that made it.               *)
HandOutInv ==
  \A c \in Context :
    sessions[c] # NoEntry =>
      /\ sessions[c].idle => \A r \in Call : ~(pc[r] = "acquire" /\ sid[r] = sessions[c].sid)
      /\ sessions[c].generation # origin[sessions[c].sid].generation =>
           \A q, r \in Call :
             InUse(q) /\ InUse(r) /\ sid[q] = sessions[c].sid /\ sid[r] = sessions[c].sid => q = r

(* All calls at the lease of one current session have the same lock, and the *)
(* table still has it as long as one more call can come for it.              *)
LeaseInv ==
  \A r \in Call :
    AtLease(r) /\ Current(sid[r]) =>
      /\ \A q \in Call : AtLease(q) /\ sid[q] = sid[r] => lock[q] = lock[r]
      /\ \/ \E c \in Context : sessions[c] # NoEntry /\ sessions[c].sid = sid[r]
         \/ \E q \in Call : pc[q] = "acquire" /\ sid[q] = sid[r]
         => leases[sid[r]] = lock[r]

(* The same for prompts already written, even to a process that is gone.     *)
TurnInv ==
  \A q, r \in Call :
    /\ pc[q] = "turn" /\ pc[r] = "turn"
    /\ sid[q] = sid[r] /\ proc[q] = proc[r] /\ Knows(proc[r], r)
    => lock[q] = lock[r]

IInv ==
  /\ TypeOK /\ MutexInv /\ ClockInv /\ EntryInv /\ CallInv
  /\ LockInv /\ HandOutInv /\ LeaseInv /\ TurnInv

(* The cap: between the check and the insertion the table does not grow.     *)
CapInv ==
  /\ IsFiniteSet(Live)
  /\ Cardinality(Live) <= MaxSessions
  /\ \A r \in Call : pc[r] = "new" => Cardinality(Live) < MaxSessions

=============================================================================
