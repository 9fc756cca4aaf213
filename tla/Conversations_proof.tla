------------------------- MODULE Conversations_proof -------------------------
(***************************************************************************)
(* TLAPS proofs about Conversations, for every number of calls, contexts,  *)
(* clients, sessions and locks.                                            *)
(***************************************************************************)
EXTENDS ConversationsInv, FiniteSetTheorems, TLAPS

(* What healthy() can do to the agent process and its number.               *)
LEMMA ProcessStep ==
  ASSUME TypeOK
  PROVE  /\ Healthy => /\ alive' = TRUE
                       /\ generation' \in Nat /\ generation <= generation'
                       /\ generation' # generation => generation < generation'
         /\ Unhealthy => generation' = generation /\ alive' = alive
         /\ generation \in Nat /\ generation <= generation
  BY DEF TypeOK, Healthy, Unhealthy, UseProcess, Respawn


(* Every step keeps the types.                                              *)
LEMMA TypeStep == TypeOK /\ [Next]_vars => TypeOK'
<1> SUFFICES ASSUME TypeOK, [Next]_vars PROVE TypeOK'
  OBVIOUS
<1> USE ConversationsAssumption DEF TypeOK, PC, callVars, agentVars, leaseVars
<1>1. ASSUME NEW r \in Call, BeginSend(r) PROVE TypeOK'
  BY <1>1 DEF BeginSend, Forget
<1>2. ASSUME NEW r \in Call, EnsureReady(r) PROVE TypeOK'
  BY <1>2, ProcessStep DEF EnsureReady
<1>3. ASSUME NEW r \in Call, NotReady(r) PROVE TypeOK'
  BY <1>3, ProcessStep DEF NotReady, Return
<1>4. ASSUME NEW r \in Call, RejectForeign(r) PROVE TypeOK'
  BY <1>4 DEF RejectForeign, Return
<1>5. ASSUME NEW r \in Call, ReportLost(r) PROVE TypeOK'
  BY <1>5 DEF ReportLost, Return, Forget
<1>6. ASSUME NEW r \in Call, ReuseSession(r) PROVE TypeOK'
  <2>1. Conversation(r) \in Entry
    BY <1>6 DEF ReuseSession, Conversation, Owned, Stale
  <2>2. [Conversation(r) EXCEPT !.idle = FALSE] \in Entry /\ Conversation(r).sid \in SessionId
    BY <2>1 DEF Entry
  <2>3. sessions' = [sessions EXCEPT ![ContextOf[r]] = [Conversation(r) EXCEPT !.idle = FALSE]]
    BY <1>6 DEF ReuseSession, Conversation, Owned, Stale
  <2>4. sessions' \in [Context -> Entry \cup {NoEntry}]
    BY <2>2, <2>3
  <2>5. HandOut(r, Conversation(r).sid) /\ UNCHANGED <<leaseVars, agentVars>>
    BY <1>6 DEF ReuseSession
  <2> QED
    BY <2>2, <2>4, <2>5 DEF HandOut
<1>7. ASSUME NEW r \in Call, RejectFull(r) PROVE TypeOK'
  BY <1>7 DEF RejectFull, Return
<1>8. ASSUME NEW r \in Call, StartNew(r) PROVE TypeOK'
  BY <1>8 DEF StartNew
<1>9. ASSUME NEW r \in Call, NewSession(r) PROVE TypeOK'
  <2>1. PICK s \in SessionId :
          /\ origin' = [origin EXCEPT ![s] = [context |-> ContextOf[r], owner |-> OwnerOf[r],
                                              generation |-> generation']]
          /\ sessions' = [sessions EXCEPT ![ContextOf[r]] =
                            [sid |-> s, owner |-> OwnerOf[r], generation |-> seen[r], idle |-> FALSE]]
          /\ HandOut(r, s)
    BY <1>9 DEF NewSession
  <2>2. generation' \in Nat /\ alive' \in BOOLEAN
    BY <1>9, ProcessStep DEF NewSession
  <2>3. [context |-> ContextOf[r], owner |-> OwnerOf[r], generation |-> generation'] \in Origin
    BY <2>2 DEF Origin
  <2>4. [sid |-> s, owner |-> OwnerOf[r], generation |-> seen[r], idle |-> FALSE] \in Entry
    BY DEF Entry
  <2>5. origin' \in [SessionId -> Origin \cup {Unissued}]
    BY <2>1, <2>3
  <2>6. sessions' \in [Context -> Entry \cup {NoEntry}]
    BY <2>1, <2>4
  <2> QED
    BY <1>9, <2>1, <2>2, <2>5, <2>6 DEF NewSession, HandOut
<1>10. ASSUME NEW r \in Call, NewSessionFails(r) PROVE TypeOK'
  BY <1>10, ProcessStep DEF NewSessionFails, Return
<1>11. ASSUME NEW r \in Call, Acquire(r) PROVE TypeOK'
  <2>1. PICK l \in Lock : /\ leases' = [leases EXCEPT ![sid[r]] = l]
                          /\ lock' = [lock EXCEPT ![r] = l]
    BY <1>11, Zenon DEF Acquire, LockFor
  <2> QED
    BY <1>11, <2>1 DEF Acquire, LockFor
<1>12. ASSUME NEW r \in Call, Locked(r) PROVE TypeOK'
  BY <1>12 DEF Locked
<1>13. ASSUME NEW r \in Call, LeaseTimeout(r) PROVE TypeOK'
  BY <1>13 DEF LeaseTimeout, Return
<1>14. ASSUME NEW r \in Call, Prompt(r) PROVE TypeOK'
  BY <1>14, ProcessStep DEF Prompt
<1>15. ASSUME NEW r \in Call, PromptFails(r) PROVE TypeOK'
  BY <1>15 DEF PromptFails, DropGuard, Return
<1>16. ASSUME NEW r \in Call, EndTurn(r) PROVE TypeOK'
  BY <1>16 DEF EndTurn, DropGuard, Return
<1>17. ASSUME NEW r \in Call, Stream(r) PROVE TypeOK'
  BY <1>17 DEF Stream, DropGuard
<1>18. ASSUME NEW r \in Call, EndStream(r) PROVE TypeOK'
  BY <1>18 DEF EndStream, Return
<1>19. ASSUME NEW r \in Call, LookupForCancel(r) PROVE TypeOK'
  BY <1>19 DEF LookupForCancel, Conversation, Owned, Entry
<1>20. ASSUME NEW r \in Call, Cancel(r) PROVE TypeOK'
  BY <1>20, ProcessStep DEF Cancel, Return
<1>21. CASE Crash
  BY <1>21 DEF Crash
<1>22. ASSUME NEW c \in Context, GoIdle(c) PROVE TypeOK'
  BY <1>22 DEF GoIdle, Entry
<1>23. CASE UNCHANGED vars
  BY <1>23 DEF vars
<1> QED
  BY <1>1, <1>2, <1>3, <1>4, <1>5, <1>6, <1>7, <1>8, <1>9, <1>10, <1>11, <1>12,
     <1>13, <1>14, <1>15, <1>16, <1>17, <1>18, <1>19, <1>20, <1>21, <1>22, <1>23
  DEF Next, EnsureSession, Turn

(* The adapter, the lease table and the supervisor keep their types.        *)
THEOREM TypeCorrect == Spec => []TypeOK
<1>1. Init => TypeOK
  BY ConversationsAssumption DEF Init, TypeOK, PC
<1> QED
  BY <1>1, TypeStep, PTL DEF Spec

(* A new process knows none of the sessions of the table.                   *)
LEMMA CurrentStep ==
  ASSUME TypeOK, ClockInv, Healthy \/ Unhealthy, UNCHANGED origin
  PROVE  /\ \A s \in SessionId : Current(s)' => Current(s)
         /\ \A s \in SessionId : origin'[s] # Unissued => origin'[s].generation <= generation'
         /\ generation' \in Nat /\ generation <= generation'
<1>1. /\ generation' \in Nat /\ generation <= generation' /\ generation \in Nat
      /\ generation' # generation => generation < generation'
  BY ProcessStep
<1>2. \A s \in SessionId :
        origin[s] # Unissued => origin[s].generation \in Nat /\ origin[s].generation <= generation
  BY DEF TypeOK, ClockInv, Origin
<1>3. \A s \in SessionId : Current(s)' => Current(s)
  BY <1>1, <1>2 DEF Current
<1>4. \A s \in SessionId : origin'[s] # Unissued => origin'[s].generation <= generation'
  BY <1>1, <1>2
<1> QED
  BY <1>1, <1>3, <1>4

(* The locks at the leases stay as they are while no call enters a lease or *)
(* is handed a session, and the table of leases does not change.            *)
LEMMA LeaseKept ==
  ASSUME TypeOK, CallInv, LeaseInv,
         \A r \in Call : AtLease(r)' => AtLease(r) /\ sid'[r] = sid[r] /\ lock'[r] = lock[r],
         \A r \in Call : pc'[r] = "acquire" => pc[r] = "acquire" /\ sid'[r] = sid[r],
         \A s \in SessionId : Current(s)' => Current(s),
         UNCHANGED <<sessions, leases>>
  PROVE  LeaseInv'
  BY DEF LeaseInv, CallInv, AtLease, TypeOK


(* IInv is inductive: one step per action, under it one per group of its    *)
(* conjuncts that the action can disturb.                                   *)
LEMMA InvStep == ASSUME ~IdsRestart PROVE IInv /\ [Next]_vars => IInv'
<1> SUFFICES ASSUME IInv, [Next]_vars PROVE IInv'
  OBVIOUS
<1> USE ConversationsAssumption
    DEF TypeOK, IInv, Entry, Origin, callVars, agentVars, leaseVars
<1>1. ASSUME NEW r \in Call, BeginSend(r) PROVE IInv'
  <2>1. MutexInv' /\ ClockInv' /\ EntryInv' /\ CallInv'
    BY <1>1 DEF BeginSend, Forget, MutexInv, ClockInv, EntryInv, CallInv
  <2>2. LockInv'
    BY <1>1 DEF BeginSend, LockInv, AtLease
  <2>3. LeaseInv'
    <3> SUFFICES ASSUME NEW q \in Call, AtLease(q)', Current(sid[q])'
                 PROVE  /\ \A p \in Call : AtLease(p)' /\ sid'[p] = sid'[q] => lock'[p] = lock'[q]
                        /\ \/ \E c \in Context : sessions'[c] # NoEntry /\ sessions'[c].sid = sid'[q]
                           \/ \E p \in Call : pc'[p] = "acquire" /\ sid'[p] = sid'[q]
                           => leases'[sid'[q]] = lock'[q]
      BY <1>1 DEF BeginSend, LeaseInv
    <3>1. /\ AtLease(q) /\ Current(sid[q]) /\ sid[q] \in SessionId
          /\ \A p \in Call : AtLease(p)' => AtLease(p)
          /\ \A p \in Call : pc'[p] = "acquire" => pc[p] = "acquire"
          /\ \A c \in Context : sessions'[c] # NoEntry => sessions[c] # NoEntry /\ sessions'[c] = sessions[c]
          /\ UNCHANGED <<sid, lock>>
      BY <1>1 DEF BeginSend, AtLease, Current, CallInv
    <3>2. ASSUME \/ \E c \in Context : sessions'[c] # NoEntry /\ sessions'[c].sid = sid[q]
                 \/ \E p \in Call : pc'[p] = "acquire" /\ sid[p] = sid[q]
          PROVE  ~ \E c \in Expired : sessions[c].sid = sid[q]
      BY <1>1, <3>1, <3>2 DEF BeginSend, Expired, HandOutInv, EntryInv
    <3>3. (~ \E c \in Expired : sessions[c].sid = sid[q]) => leases'[sid[q]] = leases[sid[q]]
      BY <1>1, <3>1 DEF BeginSend, Forget
    <3> QED
      BY <3>1, <3>2, <3>3 DEF LeaseInv
  <2>4. TurnInv'
    BY <1>1
    DEF BeginSend, Forget, TurnInv, AtLease, Knows, LeaseInv, CallInv,
        ClockInv
  <2>5. HandOutInv'
    BY <1>1
    DEF BeginSend, Forget, HandOutInv, InUse, AtLease, EntryInv,
        CallInv, ClockInv
  <2> QED
    BY <2>1, <2>2, <2>3, <2>4, <2>5, TypeStep DEF IInv
<1>2. ASSUME NEW r \in Call, EnsureReady(r) PROVE IInv'
  <2>1. MutexInv' /\ EntryInv' /\ CallInv'
    BY <1>2 DEF EnsureReady, MutexInv, EntryInv, CallInv
  <2>2. ClockInv'
    <3>1. (Healthy \/ Unhealthy) /\ UNCHANGED origin
      BY <1>2 DEF EnsureReady
    <3>2. generation' \in Nat /\ generation <= generation'
      BY <3>1, CurrentStep
    <3> QED
      BY <1>2, <3>1, <3>2, CurrentStep DEF EnsureReady, ClockInv
  <2>3. LeaseInv'
    <3>1. (Healthy \/ Unhealthy) /\ UNCHANGED <<origin, sessions, leases>>
      BY <1>2 DEF EnsureReady
    <3>2. /\ \A q \in Call : AtLease(q)' => AtLease(q) /\ sid'[q] = sid[q] /\ lock'[q] = lock[q]
          /\ \A q \in Call : pc'[q] = "acquire" => pc[q] = "acquire" /\ sid'[q] = sid[q]
      BY <1>2 DEF EnsureReady, AtLease
    <3> QED
      BY <3>1, <3>2, CurrentStep, LeaseKept
  <2>4. LockInv' /\ TurnInv'
    BY <1>2, ProcessStep
    DEF EnsureReady, LockInv, AtLease, TurnInv, Knows, LeaseInv,
        CallInv, ClockInv
  <2>5. HandOutInv'
    BY <1>2, ProcessStep
    DEF EnsureReady, HandOutInv, InUse, AtLease, EntryInv, CallInv,
        ClockInv
  <2> QED
    BY <2>1, <2>2, <2>3, <2>4, <2>5, TypeStep DEF IInv
<1>3. ASSUME NEW r \in Call, NotReady(r) PROVE IInv'
  <2>1. MutexInv' /\ EntryInv' /\ CallInv'
    BY <1>3 DEF NotReady, Return, MutexInv, EntryInv, CallInv
  <2>2. ClockInv'
    <3>1. (Healthy \/ Unhealthy) /\ UNCHANGED origin
      BY <1>3 DEF NotReady, Return
    <3>2. generation' \in Nat /\ generation <= generation'
      BY <3>1, CurrentStep
    <3> QED
      BY <1>3, <3>1, <3>2, CurrentStep DEF NotReady, Return, ClockInv
  <2>3. LeaseInv'
    <3>1. (Healthy \/ Unhealthy) /\ UNCHANGED <<origin, sessions, leases>>
      BY <1>3 DEF NotReady, Return
    <3>2. /\ \A q \in Call : AtLease(q)' => AtLease(q) /\ sid'[q] = sid[q] /\ lock'[q] = lock[q]
          /\ \A q \in Call : pc'[q] = "acquire" => pc[q] = "acquire" /\ sid'[q] = sid[q]
      BY <1>3 DEF NotReady, Return, AtLease
    <3> QED
      BY <3>1, <3>2, CurrentStep, LeaseKept
  <2>4. LockInv' /\ TurnInv'
    BY <1>3, ProcessStep
    DEF NotReady, Return, LockInv, AtLease, TurnInv, Knows, LeaseInv,
        CallInv, ClockInv
  <2>5. HandOutInv'
    BY <1>3, ProcessStep
    DEF NotReady, Return, HandOutInv, InUse, AtLease, EntryInv,
        CallInv, ClockInv
  <2> QED
    BY <2>1, <2>2, <2>3, <2>4, <2>5, TypeStep DEF IInv
<1>4. ASSUME NEW r \in Call, RejectForeign(r) PROVE IInv'
  <2>1. MutexInv' /\ ClockInv' /\ EntryInv' /\ CallInv'
    BY <1>4
    DEF RejectForeign, Return, Conversation, Owned, Stale, HasRoom,
        MutexInv, ClockInv, EntryInv, CallInv
  <2>2. LockInv' /\ TurnInv'
    BY <1>4
    DEF RejectForeign, Return, Conversation, Owned, Stale, HasRoom,
        LockInv, AtLease, TurnInv, Knows, LeaseInv, CallInv, ClockInv
  <2>3. HandOutInv' /\ LeaseInv'
    BY <1>4
    DEF RejectForeign, Return, Conversation, Owned, Stale, HasRoom,
        HandOutInv, InUse, AtLease, EntryInv, CallInv, ClockInv,
        LeaseInv, Current
  <2> QED
    BY <2>1, <2>2, <2>3, TypeStep DEF IInv
<1>5. ASSUME NEW r \in Call, ReportLost(r) PROVE IInv'
  <2>1. MutexInv' /\ ClockInv' /\ EntryInv' /\ CallInv'
    BY <1>5
    DEF ReportLost, Return, Conversation, Owned, Stale, HasRoom,
        Forget, MutexInv, ClockInv, EntryInv, CallInv
  <2>2. LeaseInv'
    <3> SUFFICES ASSUME NEW q \in Call, AtLease(q)', Current(sid[q])'
                 PROVE  /\ \A p \in Call : AtLease(p)' /\ sid'[p] = sid'[q] => lock'[p] = lock'[q]
                        /\ \/ \E c \in Context : sessions'[c] # NoEntry /\ sessions'[c].sid = sid'[q]
                           \/ \E p \in Call : pc'[p] = "acquire" /\ sid'[p] = sid'[q]
                           => leases'[sid'[q]] = lock'[q]
      BY DEF LeaseInv
    <3> DEFINE s == Conversation(r).sid
    <3>1. /\ AtLease(q) /\ Current(sid[q]) /\ sid[q] \in SessionId /\ q # r
          /\ \A p \in Call : AtLease(p)' => AtLease(p) /\ sid'[p] = sid[p] /\ lock'[p] = lock[p]
          /\ \A p \in Call : pc'[p] = "acquire" => pc[p] = "acquire" /\ sid'[p] = sid[p]
          /\ \A c \in Context : sessions'[c] # NoEntry => sessions[c] # NoEntry /\ sessions'[c] = sessions[c]
          /\ sessions'[ContextOf[r]] = NoEntry
      BY <1>5 DEF ReportLost, Return, AtLease, Current, CallInv
    <3>2. CASE sid[q] = s
      <4>1. sessions[ContextOf[r]].generation # origin[s].generation
        BY <1>5, <3>1, <3>2 DEF ReportLost, Conversation, Owned, Stale, Current
      <4>2. \A p \in Call : InUse(p) /\ sid[p] = s => p = q
        BY <1>5, <3>1, <3>2, <4>1
        DEF ReportLost, Conversation, Owned, Stale, HandOutInv,
            InUse
      <4>3. \A c \in Context : sessions'[c] # NoEntry => sessions'[c].sid # s
        BY <1>5, <3>1 DEF ReportLost, Conversation, Owned, Stale, EntryInv
      <4> QED
        BY <3>1, <3>2, <4>2, <4>3 DEF InUse, AtLease
    <3>3. CASE sid[q] # s
      BY <1>5, <3>1, <3>3 DEF ReportLost, Forget, Conversation, LeaseInv
    <3> QED
      BY <3>2, <3>3
  <2>3. LockInv' /\ TurnInv'
    BY <1>5
    DEF ReportLost, Return, Conversation, Owned, Stale, HasRoom,
        Forget, LockInv, AtLease, TurnInv, Knows, LeaseInv, CallInv,
        ClockInv
  <2>4. HandOutInv'
    BY <1>5
    DEF ReportLost, Return, Conversation, Owned, Stale, HasRoom,
        Forget, HandOutInv, InUse, AtLease, EntryInv, CallInv,
        ClockInv
  <2> QED
    BY <2>1, <2>2, <2>3, <2>4, TypeStep DEF IInv
<1>6. ASSUME NEW r \in Call, ReuseSession(r) PROVE IInv'
  <2>1. MutexInv' /\ ClockInv' /\ EntryInv' /\ CallInv'
    BY <1>6
    DEF ReuseSession, HandOut, Conversation, Owned, Stale, HasRoom,
        MutexInv, ClockInv, EntryInv, CallInv
  <2>2. HandOutInv'
    <3> DEFINE s == Conversation(r).sid
    <3>1. /\ Conversation(r) \in Entry /\ Conversation(r).generation = generation
          /\ sessions' = [sessions EXCEPT ![ContextOf[r]] = [Conversation(r) EXCEPT !.idle = FALSE]]
          /\ HandOut(r, s) /\ UNCHANGED agentVars
      BY <1>6 DEF ReuseSession, Conversation, Owned, Stale
    <3>2. origin[s].generation = generation
      <4>1. /\ s \in SessionId /\ origin[s] # Unissued
            /\ generation <= origin[s].generation
        BY <1>6, <3>1 DEF ReuseSession, Conversation, Owned, EntryInv
      <4>2. /\ origin[s].generation \in Nat /\ generation \in Nat
            /\ origin[s].generation <= generation
        BY <4>1 DEF ClockInv, Origin
      <4>3. \A a, b \in Nat : a <= b /\ b <= a => a = b
        OBVIOUS
      <4> QED
        BY <4>1, <4>2, <4>3, Zenon
    <3>3. \A c \in Context : c # ContextOf[r] /\ sessions[c] # NoEntry => sessions[c].sid # s
      BY <1>6, <3>1 DEF ReuseSession, Conversation, Owned, Stale, EntryInv
    <3>4. /\ sessions'[ContextOf[r]].sid = s /\ sessions'[ContextOf[r]].generation = generation
          /\ sessions'[ContextOf[r]].idle = FALSE
          /\ \A c \in Context : c # ContextOf[r] => sessions'[c] = sessions[c]
      BY <3>1
    <3>5. \A q \in Call : q # r => pc'[q] = pc[q] /\ sid'[q] = sid[q]
      BY <3>1 DEF HandOut
    <3>6. sid'[r] = s /\ pc'[r] = "acquire" /\ UNCHANGED origin
      BY <3>1 DEF HandOut
    <3>7. \A q \in Call, c \in Context :
            /\ c # ContextOf[r] /\ sessions[c] # NoEntry /\ sid'[q] = sessions[c].sid
            => q # r
      BY <3>3, <3>6
    <3>8. \A c \in Context : c # ContextOf[r] /\ sessions[c] # NoEntry /\ sessions[c].idle
            => \A q \in Call : ~(pc'[q] = "acquire" /\ sid'[q] = sessions[c].sid)
      BY <3>5, <3>7 DEF HandOutInv
    <3>9. \A c \in Context :
            c # ContextOf[r] /\ sessions[c] # NoEntry /\ sessions[c].generation # origin[sessions[c].sid].generation
            => \A p, q \in Call : /\ InUse(p)' /\ InUse(q)' 
                                   /\ sid'[p] = sessions[c].sid /\ sid'[q] = sessions[c].sid => p = q
      BY <3>5, <3>7 DEF HandOutInv, InUse, AtLease
    <3> QED
      BY <3>2, <3>4, <3>6, <3>8, <3>9 DEF HandOutInv
  <2>3. LockInv' /\ TurnInv'
    BY <1>6
    DEF ReuseSession, HandOut, Conversation, Owned, Stale, HasRoom,
        LockInv, AtLease, TurnInv, Knows, LeaseInv, CallInv, ClockInv
  <2>4. LeaseInv'
    BY <1>6
    DEF ReuseSession, HandOut, Conversation, Owned, Stale, HasRoom,
        LeaseInv, AtLease, Current, EntryInv, CallInv, ClockInv,
        HandOutInv
  <2> QED
    BY <2>1, <2>2, <2>3, <2>4, TypeStep DEF IInv
<1>7. ASSUME NEW r \in Call, RejectFull(r) PROVE IInv'
  <2>1. MutexInv' /\ ClockInv' /\ EntryInv' /\ CallInv'
    BY <1>7
    DEF RejectFull, Return, Conversation, Owned, Stale, HasRoom,
        MutexInv, ClockInv, EntryInv, CallInv
  <2>2. LockInv' /\ TurnInv'
    BY <1>7
    DEF RejectFull, Return, Conversation, Owned, Stale, HasRoom,
        LockInv, AtLease, TurnInv, Knows, LeaseInv, CallInv, ClockInv
  <2>3. HandOutInv' /\ LeaseInv'
    BY <1>7
    DEF RejectFull, Return, Conversation, Owned, Stale, HasRoom,
        HandOutInv, InUse, AtLease, EntryInv, CallInv, ClockInv,
        LeaseInv, Current
  <2> QED
    BY <2>1, <2>2, <2>3, TypeStep DEF IInv
<1>8. ASSUME NEW r \in Call, StartNew(r) PROVE IInv'
  <2>1. MutexInv' /\ ClockInv' /\ EntryInv' /\ CallInv'
    BY <1>8
    DEF StartNew, Conversation, Owned, Stale, HasRoom, MutexInv,
        ClockInv, EntryInv, CallInv
  <2>2. LockInv' /\ TurnInv'
    BY <1>8
    DEF StartNew, Conversation, Owned, Stale, HasRoom, LockInv,
        AtLease, TurnInv, Knows, LeaseInv, CallInv, ClockInv
  <2>3. HandOutInv' /\ LeaseInv'
    BY <1>8
    DEF StartNew, Conversation, Owned, Stale, HasRoom, HandOutInv,
        InUse, AtLease, EntryInv, CallInv, ClockInv, LeaseInv, Current
  <2> QED
    BY <2>1, <2>2, <2>3, TypeStep DEF IInv
<1>9. ASSUME NEW r \in Call, NewSession(r) PROVE IInv'
  <2>1. MutexInv'
    BY <1>9 DEF NewSession, HandOut, MayIssue, MutexInv
  <2>2. ClockInv'
    <3>1. PICK s \in SessionId :
            /\ MayIssue(s)
            /\ origin' = [origin EXCEPT ![s] = [context |-> ContextOf[r], owner |-> OwnerOf[r],
                                                generation |-> generation']]
            /\ sessions' = [sessions EXCEPT ![ContextOf[r]] =
                              [sid |-> s, owner |-> OwnerOf[r], generation |-> seen[r], idle |-> FALSE]]
            /\ HandOut(r, s)
      BY <1>9 DEF NewSession
    <3>2. generation' \in Nat /\ generation <= generation'
      BY <1>9, ProcessStep DEF NewSession
    <3> QED
      BY <3>1, <3>2 DEF HandOut, ClockInv
  <2>3. EntryInv'
    <3>1. PICK s \in SessionId :
            /\ MayIssue(s)
            /\ origin' = [origin EXCEPT ![s] = [context |-> ContextOf[r], owner |-> OwnerOf[r],
                                                generation |-> generation']]
            /\ sessions' = [sessions EXCEPT ![ContextOf[r]] =
                              [sid |-> s, owner |-> OwnerOf[r], generation |-> seen[r], idle |-> FALSE]]
            /\ HandOut(r, s)
      BY <1>9 DEF NewSession
    <3>2. generation' \in Nat /\ seen[r] <= generation'
      <4>1. /\ generation' \in Nat /\ generation \in Nat /\ seen[r] \in Nat
            /\ generation <= generation' /\ seen[r] <= generation
        BY <1>9, ProcessStep DEF NewSession, ClockInv
      <4> QED
        BY <4>1
    <3>3. origin[s] = Unissued
      BY <3>1 DEF MayIssue
    <3> QED
      BY <3>1, <3>2, <3>3 DEF EntryInv
  <2>4. CallInv'
    <3>1. PICK s \in SessionId :
            /\ MayIssue(s)
            /\ origin' = [origin EXCEPT ![s] = [context |-> ContextOf[r], owner |-> OwnerOf[r],
                                                generation |-> generation']]
            /\ sessions' = [sessions EXCEPT ![ContextOf[r]] =
                              [sid |-> s, owner |-> OwnerOf[r], generation |-> seen[r], idle |-> FALSE]]
            /\ HandOut(r, s)
      BY <1>9 DEF NewSession
    <3>2. origin[s] = Unissued /\ generation' \in Nat
      BY <1>9, <3>1, ProcessStep DEF MayIssue, NewSession
    <3> QED
      BY <3>1, <3>2 DEF HandOut, CallInv
  <2>5. LeaseInv'
    <3>1. PICK s \in SessionId :
            /\ MayIssue(s)
            /\ origin' = [origin EXCEPT ![s] = [context |-> ContextOf[r], owner |-> OwnerOf[r],
                                                generation |-> generation']]
            /\ sessions' = [sessions EXCEPT ![ContextOf[r]] =
                              [sid |-> s, owner |-> OwnerOf[r], generation |-> seen[r], idle |-> FALSE]]
            /\ HandOut(r, s)
      BY <1>9 DEF NewSession
    <3>2. origin[s] = Unissued /\ generation' \in Nat /\ generation <= generation'
      BY <1>9, <3>1, ProcessStep DEF MayIssue, NewSession
    <3>3. \A q \in Call : AtLease(q)' => /\ AtLease(q) /\ q # r /\ sid[q] # s /\ sid[q] \in SessionId
                                         /\ sid'[q] = sid[q] /\ lock'[q] = lock[q]
      BY <3>1, <3>2 DEF HandOut, AtLease, CallInv
    <3>4. \A t \in SessionId : t # s /\ Current(t)' => Current(t)
      <4>1. \A t \in SessionId : t # s => origin'[t] = origin[t]
        BY <3>1
      <4>2. \A t \in SessionId :
              origin[t] # Unissued => origin[t].generation \in Nat /\ origin[t].generation <= generation
        BY DEF ClockInv
      <4>3. generation \in Nat /\ (generation' # generation => generation < generation')
        BY <1>9, ProcessStep DEF NewSession
      <4> QED
        BY <3>2, <4>1, <4>2, <4>3 DEF Current
    <3>5. \A c \in Context : sessions'[c] # NoEntry /\ sessions'[c].sid # s =>
                               sessions[c] # NoEntry /\ sessions'[c] = sessions[c]
      BY <3>1
    <3>6. \A q \in Call : pc'[q] = "acquire" /\ sid'[q] # s => pc[q] = "acquire" /\ sid'[q] = sid[q]
      BY <3>1 DEF HandOut
    <3>7. leases' = leases
      BY <1>9 DEF NewSession
    <3> QED
      BY <3>3, <3>4, <3>5, <3>6, <3>7 DEF LeaseInv
  <2>6. LockInv' /\ TurnInv'
    BY <1>9, ProcessStep
    DEF NewSession, HandOut, MayIssue, LockInv, AtLease, TurnInv,
        Knows, LeaseInv, CallInv, ClockInv
  <2>7. HandOutInv'
    BY <1>9, ProcessStep
    DEF NewSession, HandOut, MayIssue, HandOutInv, InUse, AtLease,
        EntryInv, CallInv, ClockInv
  <2> QED
    BY <2>1, <2>2, <2>3, <2>4, <2>5, <2>6, <2>7, TypeStep DEF IInv
<1>10. ASSUME NEW r \in Call, NewSessionFails(r) PROVE IInv'
  <2>1. MutexInv' /\ EntryInv' /\ CallInv'
    BY <1>10 DEF NewSessionFails, Return, MutexInv, EntryInv, CallInv
  <2>2. ClockInv'
    <3>1. (Healthy \/ Unhealthy) /\ UNCHANGED origin
      BY <1>10 DEF NewSessionFails, Return
    <3>2. generation' \in Nat /\ generation <= generation'
      BY <3>1, CurrentStep
    <3> QED
      BY <1>10, <3>1, <3>2, CurrentStep DEF NewSessionFails, Return, ClockInv
  <2>3. LeaseInv'
    <3>1. (Healthy \/ Unhealthy) /\ UNCHANGED <<origin, sessions, leases>>
      BY <1>10 DEF NewSessionFails, Return
    <3>2. /\ \A q \in Call : AtLease(q)' => AtLease(q) /\ sid'[q] = sid[q] /\ lock'[q] = lock[q]
          /\ \A q \in Call : pc'[q] = "acquire" => pc[q] = "acquire" /\ sid'[q] = sid[q]
      BY <1>10 DEF NewSessionFails, Return, AtLease
    <3> QED
      BY <3>1, <3>2, CurrentStep, LeaseKept
  <2>4. LockInv' /\ TurnInv'
    BY <1>10, ProcessStep
    DEF NewSessionFails, Return, LockInv, AtLease, TurnInv, Knows,
        LeaseInv, CallInv, ClockInv
  <2>5. HandOutInv'
    BY <1>10, ProcessStep
    DEF NewSessionFails, Return, HandOutInv, InUse, AtLease, EntryInv,
        CallInv, ClockInv
  <2> QED
    BY <2>1, <2>2, <2>3, <2>4, <2>5, TypeStep DEF IInv
<1>11. ASSUME NEW r \in Call, Acquire(r) PROVE IInv'
  <2>1. MutexInv' /\ ClockInv' /\ EntryInv' /\ CallInv'
    BY <1>11 DEF Acquire, LockFor, MutexInv, ClockInv, EntryInv, CallInv
  <2>2. LeaseInv'
    <3>1. PICK l \in Lock :
            /\ leases[sid[r]] # NoLock => leases[sid[r]] = l
            /\ leases' = [leases EXCEPT ![sid[r]] = l]
            /\ lock' = [lock EXCEPT ![r] = l]
      BY <1>11 DEF Acquire, LockFor
    <3>2. /\ pc' = [pc EXCEPT ![r] = "wait"] /\ pc[r] = "acquire" /\ sid[r] \in SessionId
          /\ UNCHANGED <<sessions, sid, origin, generation>>
      BY <1>11 DEF Acquire, CallInv
    <3>3. \A q \in Call : AtLease(q) /\ Current(sid[q]) /\ sid[q] = sid[r] => lock[q] = l
      BY <1>11, <3>1, <3>2 DEF LeaseInv, LockInv
    <3>4. \A q \in Call : q # r => (AtLease(q)' <=> AtLease(q)) /\ lock'[q] = lock[q]
      BY <3>1, <3>2 DEF AtLease
    <3>5. lock'[r] = l /\ leases'[sid[r]] = l /\ AtLease(r)'
      BY <3>1, <3>2 DEF AtLease
    <3>6. \A t \in SessionId : t # sid[r] => leases'[t] = leases[t]
      BY <3>1
    <3>7. \A p \in Call : pc'[p] = "acquire" => pc[p] = "acquire"
      BY <3>2
    <3>8. \A q \in Call : AtLease(q)' => sid[q] \in SessionId
      BY <3>2, <3>4 DEF AtLease, CallInv
    <3> QED
      BY <3>2, <3>3, <3>4, <3>5, <3>6, <3>7, <3>8 DEF LeaseInv, Current
  <2>3. LockInv' /\ TurnInv'
    BY <1>11
    DEF Acquire, LockFor, LockInv, AtLease, TurnInv, Knows, LeaseInv,
        CallInv, ClockInv
  <2>4. HandOutInv'
    BY <1>11
    DEF Acquire, LockFor, HandOutInv, InUse, AtLease, EntryInv,
        CallInv, ClockInv
  <2> QED
    BY <2>1, <2>2, <2>3, <2>4, TypeStep DEF IInv
<1>12. ASSUME NEW r \in Call, Locked(r) PROVE IInv'
  <2>1. MutexInv' /\ ClockInv' /\ EntryInv' /\ CallInv'
    BY <1>12 DEF Locked, MutexInv, ClockInv, EntryInv, CallInv
  <2>2. LeaseInv'
    <3>1. UNCHANGED <<origin, generation, sessions, leases>>
      BY <1>12 DEF Locked
    <3>2. /\ \A q \in Call : AtLease(q)' => AtLease(q) /\ sid'[q] = sid[q] /\ lock'[q] = lock[q]
          /\ \A q \in Call : pc'[q] = "acquire" => pc[q] = "acquire" /\ sid'[q] = sid[q]
      BY <1>12 DEF Locked, AtLease
    <3> QED
      BY <3>1, <3>2, LeaseKept DEF Current
  <2>3. TurnInv'
    BY <1>12 DEF Locked, TurnInv, Knows
  <2>4. LockInv'
    BY <1>12 DEF Locked, LockInv, AtLease
  <2>5. HandOutInv'
    BY <1>12 DEF Locked, HandOutInv, InUse, AtLease, EntryInv, CallInv, ClockInv
  <2> QED
    BY <2>1, <2>2, <2>3, <2>4, <2>5, TypeStep DEF IInv
<1>13. ASSUME NEW r \in Call, LeaseTimeout(r) PROVE IInv'
  <2>1. MutexInv' /\ ClockInv' /\ EntryInv' /\ CallInv'
    BY <1>13 DEF LeaseTimeout, Return, MutexInv, ClockInv, EntryInv, CallInv
  <2>2. LockInv' /\ TurnInv'
    BY <1>13
    DEF LeaseTimeout, Return, LockInv, AtLease, TurnInv, Knows,
        LeaseInv, CallInv, ClockInv
  <2>3. HandOutInv' /\ LeaseInv'
    BY <1>13
    DEF LeaseTimeout, Return, HandOutInv, InUse, AtLease, EntryInv,
        CallInv, ClockInv, LeaseInv, Current
  <2> QED
    BY <2>1, <2>2, <2>3, TypeStep DEF IInv
<1>14. ASSUME NEW r \in Call, Prompt(r) PROVE IInv'
  <2>1. MutexInv' /\ EntryInv' /\ CallInv'
    BY <1>14 DEF Prompt, MutexInv, EntryInv, CallInv
  <2>2. ClockInv'
    <3>1. (Healthy \/ Unhealthy) /\ UNCHANGED origin
      BY <1>14 DEF Prompt
    <3>2. generation' \in Nat /\ generation <= generation'
      BY <3>1, CurrentStep
    <3> QED
      BY <1>14, <3>1, <3>2, CurrentStep DEF Prompt, ClockInv
  <2>3. LeaseInv'
    <3>1. (Healthy \/ Unhealthy) /\ UNCHANGED <<origin, sessions, leases>>
      BY <1>14 DEF Prompt
    <3>2. /\ \A q \in Call : AtLease(q)' => AtLease(q) /\ sid'[q] = sid[q] /\ lock'[q] = lock[q]
          /\ \A q \in Call : pc'[q] = "acquire" => pc[q] = "acquire" /\ sid'[q] = sid[q]
      BY <1>14 DEF Prompt, AtLease
    <3> QED
      BY <3>1, <3>2, CurrentStep, LeaseKept
  <2>4. TurnInv'
    <3>1. /\ pc[r] = "prompt" /\ pc' = [pc EXCEPT ![r] = "turn"]
          /\ proc' = [proc EXCEPT ![r] = generation']
          /\ UNCHANGED <<sid, lock, origin>>
      BY <1>14 DEF Prompt
    <3>2. \A q \in Call : Knows(generation', q) /\ sid[q] \in SessionId => Current(sid[q])
      <4>1. /\ generation' \in Nat /\ generation \in Nat
            /\ generation' # generation => generation < generation'
        BY <1>14, ProcessStep DEF Prompt
      <4>2. \A s \in SessionId :
              origin[s] # Unissued => origin[s].generation \in Nat /\ origin[s].generation <= generation
        BY DEF ClockInv
      <4> QED
        BY <4>1, <4>2 DEF Knows, Current
    <3>3. \A q \in Call : pc[q] = "turn" /\ sid[q] = sid[r] /\ Knows(generation', q) => lock[q] = lock[r]
      BY <3>1, <3>2 DEF LeaseInv, CallInv, AtLease
    <3> QED
      BY <3>1, <3>3 DEF TurnInv, Knows
  <2>5. LockInv'
    BY <1>14, ProcessStep DEF Prompt, LockInv, AtLease
  <2>6. HandOutInv'
    BY <1>14, ProcessStep
    DEF Prompt, HandOutInv, InUse, AtLease, EntryInv, CallInv,
        ClockInv
  <2> QED
    BY <2>1, <2>2, <2>3, <2>4, <2>5, <2>6, TypeStep DEF IInv
<1>15. ASSUME NEW r \in Call, PromptFails(r) PROVE IInv'
  <2>1. MutexInv' /\ ClockInv' /\ EntryInv' /\ CallInv'
    BY <1>15
    DEF PromptFails, Return, DropGuard, MutexInv, ClockInv, EntryInv,
        CallInv
  <2>2. LockInv' /\ TurnInv'
    BY <1>15
    DEF PromptFails, Return, DropGuard, LockInv, AtLease, TurnInv,
        Knows, LeaseInv, CallInv, ClockInv
  <2>3. HandOutInv' /\ LeaseInv'
    BY <1>15
    DEF PromptFails, Return, DropGuard, HandOutInv, InUse, AtLease,
        EntryInv, CallInv, ClockInv, LeaseInv, Current
  <2> QED
    BY <2>1, <2>2, <2>3, TypeStep DEF IInv
<1>16. ASSUME NEW r \in Call, EndTurn(r) PROVE IInv'
  <2>1. MutexInv' /\ ClockInv' /\ EntryInv' /\ CallInv'
    BY <1>16 DEF EndTurn, Return, DropGuard, MutexInv, ClockInv, EntryInv, CallInv
  <2>2. LockInv' /\ TurnInv'
    BY <1>16
    DEF EndTurn, Return, DropGuard, LockInv, AtLease, TurnInv, Knows,
        LeaseInv, CallInv, ClockInv
  <2>3. HandOutInv' /\ LeaseInv'
    BY <1>16
    DEF EndTurn, Return, DropGuard, HandOutInv, InUse, AtLease,
        EntryInv, CallInv, ClockInv, LeaseInv, Current
  <2> QED
    BY <2>1, <2>2, <2>3, TypeStep DEF IInv
<1>17. ASSUME NEW r \in Call, Stream(r) PROVE IInv'
  <2>1. MutexInv' /\ ClockInv' /\ EntryInv' /\ CallInv'
    BY <1>17 DEF Stream, DropGuard, MutexInv, ClockInv, EntryInv, CallInv
  <2>2. LockInv' /\ TurnInv'
    BY <1>17
    DEF Stream, DropGuard, LockInv, AtLease, TurnInv, Knows, LeaseInv,
        CallInv, ClockInv
  <2>3. HandOutInv' /\ LeaseInv'
    BY <1>17
    DEF Stream, DropGuard, HandOutInv, InUse, AtLease, EntryInv,
        CallInv, ClockInv, LeaseInv, Current
  <2> QED
    BY <2>1, <2>2, <2>3, TypeStep DEF IInv
<1>18. ASSUME NEW r \in Call, EndStream(r) PROVE IInv'
  <2>1. MutexInv' /\ ClockInv' /\ EntryInv' /\ CallInv'
    BY <1>18 DEF EndStream, Return, MutexInv, ClockInv, EntryInv, CallInv
  <2>2. LockInv' /\ TurnInv'
    BY <1>18
    DEF EndStream, Return, LockInv, AtLease, TurnInv, Knows, LeaseInv,
        CallInv, ClockInv
  <2>3. HandOutInv' /\ LeaseInv'
    BY <1>18
    DEF EndStream, Return, HandOutInv, InUse, AtLease, EntryInv,
        CallInv, ClockInv, LeaseInv, Current
  <2> QED
    BY <2>1, <2>2, <2>3, TypeStep DEF IInv
<1>19. ASSUME NEW r \in Call, LookupForCancel(r) PROVE IInv'
  <2>1. MutexInv' /\ ClockInv' /\ EntryInv' /\ CallInv'
    BY <1>19
    DEF LookupForCancel, Conversation, Owned, Stale, HasRoom,
        MutexInv, ClockInv, EntryInv, CallInv
  <2>2. LockInv' /\ TurnInv'
    BY <1>19
    DEF LookupForCancel, Conversation, Owned, Stale, HasRoom, LockInv,
        AtLease, TurnInv, Knows, LeaseInv, CallInv, ClockInv
  <2>3. HandOutInv' /\ LeaseInv'
    BY <1>19
    DEF LookupForCancel, Conversation, Owned, Stale, HasRoom,
        HandOutInv, InUse, AtLease, EntryInv, CallInv, ClockInv,
        LeaseInv, Current
  <2> QED
    BY <2>1, <2>2, <2>3, TypeStep DEF IInv
<1>20. ASSUME NEW r \in Call, Cancel(r) PROVE IInv'
  <2>1. MutexInv' /\ EntryInv' /\ CallInv'
    BY <1>20 DEF Cancel, Return, MutexInv, EntryInv, CallInv
  <2>2. ClockInv'
    <3>1. (Healthy \/ Unhealthy) /\ UNCHANGED origin
      BY <1>20 DEF Cancel, Return
    <3>2. generation' \in Nat /\ generation <= generation'
      BY <3>1, CurrentStep
    <3> QED
      BY <1>20, <3>1, <3>2, CurrentStep DEF Cancel, Return, ClockInv
  <2>3. LeaseInv'
    <3>1. (Healthy \/ Unhealthy) /\ UNCHANGED <<origin, sessions, leases>>
      BY <1>20 DEF Cancel, Return
    <3>2. /\ \A q \in Call : AtLease(q)' => AtLease(q) /\ sid'[q] = sid[q] /\ lock'[q] = lock[q]
          /\ \A q \in Call : pc'[q] = "acquire" => pc[q] = "acquire" /\ sid'[q] = sid[q]
      BY <1>20 DEF Cancel, Return, AtLease
    <3> QED
      BY <3>1, <3>2, CurrentStep, LeaseKept
  <2>4. LockInv' /\ TurnInv'
    BY <1>20, ProcessStep
    DEF Cancel, Return, LockInv, AtLease, TurnInv, Knows, LeaseInv,
        CallInv, ClockInv
  <2>5. HandOutInv'
    BY <1>20, ProcessStep
    DEF Cancel, Return, HandOutInv, InUse, AtLease, EntryInv, CallInv,
        ClockInv
  <2> QED
    BY <2>1, <2>2, <2>3, <2>4, <2>5, TypeStep DEF IInv
<1>21. CASE Crash
  <2>1. MutexInv' /\ ClockInv' /\ EntryInv' /\ CallInv'
    BY <1>21 DEF Crash, MutexInv, ClockInv, EntryInv, CallInv
  <2>2. LockInv' /\ TurnInv'
    BY <1>21
    DEF Crash, LockInv, AtLease, TurnInv, Knows, LeaseInv, CallInv,
        ClockInv
  <2>3. HandOutInv' /\ LeaseInv'
    BY <1>21
    DEF Crash, HandOutInv, InUse, AtLease, EntryInv, CallInv,
        ClockInv, LeaseInv, Current
  <2> QED
    BY <2>1, <2>2, <2>3, TypeStep DEF IInv
<1>22. ASSUME NEW c \in Context, GoIdle(c) PROVE IInv'
  <2>1. MutexInv' /\ ClockInv' /\ EntryInv' /\ CallInv'
    BY <1>22 DEF GoIdle, MutexInv, ClockInv, EntryInv, CallInv
  <2>2. LockInv' /\ TurnInv'
    BY <1>22
    DEF GoIdle, LockInv, AtLease, TurnInv, Knows, LeaseInv, CallInv,
        ClockInv
  <2>3. HandOutInv' /\ LeaseInv'
    BY <1>22
    DEF GoIdle, HandOutInv, InUse, AtLease, EntryInv, CallInv,
        ClockInv, LeaseInv, Current
  <2> QED
    BY <2>1, <2>2, <2>3, TypeStep DEF IInv
<1>23. CASE UNCHANGED vars
  BY <1>23, TypeStep
  DEF vars, MutexInv, ClockInv, EntryInv, CallInv, LockInv, HandOutInv, LeaseInv,
      TurnInv, AtLease, InUse, Current, Knows
<1> QED
  BY <1>1, <1>2, <1>3, <1>4, <1>5, <1>6, <1>7, <1>8, <1>9, <1>10, <1>11, <1>12,
     <1>13, <1>14, <1>15, <1>16, <1>17, <1>18, <1>19, <1>20, <1>21, <1>22, <1>23
  DEF Next, EnsureSession, Turn

(* The initial state satisfies IInv, every step keeps it.                  *)
LEMMA InvInit == Init => IInv
  BY ConversationsAssumption
  DEF Init, IInv, TypeOK, PC, MutexInv, ClockInv, EntryInv, CallInv, LockInv, HandOutInv,
      LeaseInv, TurnInv, AtLease, InUse

(* So IInv holds throughout when session ids are not reused.               *)
LEMMA InvHolds == ASSUME ~IdsRestart PROVE Spec => []IInv
  BY InvInit, InvStep, PTL DEF Spec

(* Whatever a call sends into a session the agent knows goes into one made  *)
(* for its own contextId and its own client.                                *)
THEOREM IsolationHolds == ASSUME ~IdsRestart PROVE Spec => []Isolation
<1>1. IInv => Isolation
  BY DEF IInv, CallInv, Isolation
<1> QED
  BY <1>1, InvHolds, PTL

(* No two calls have a prompt outstanding in one session of one process.    *)
THEOREM TurnExclusionHolds == ASSUME ~IdsRestart PROVE Spec => []TurnExclusion
<1>1. IInv => TurnExclusion
  BY ConversationsAssumption DEF IInv, TypeOK, LockInv, TurnInv, TurnExclusion, AtLease
<1> QED
  BY <1>1, InvHolds, PTL

(* What ensure_session hands out of its table belongs to the process of the *)
(* generation it has read.                                                  *)
THEOREM FreshHandOutHolds == ASSUME ~IdsRestart PROVE Spec => FreshHandOut
<1> DEFINE Fresh(r) == pc[r] = "decide" /\ pc'[r] = "acquire" => Knows(generation, r)'
<1>1. ASSUME IInv, [Next]_vars, NEW r \in Call, pc[r] = "decide", pc'[r] = "acquire"
      PROVE  Knows(generation, r)'
  <2>1. ReuseSession(r)
    <3> USE <1>1 DEF IInv, TypeOK
    <3>1. ASSUME NEW q \in Call, BeginSend(q) \/ EnsureReady(q) \/ NotReady(q) PROVE FALSE
      BY <3>1 DEF BeginSend, EnsureReady, NotReady, Return
    <3>2. ASSUME NEW q \in Call, RejectForeign(q) \/ ReportLost(q) \/ RejectFull(q) \/ StartNew(q)
          PROVE  FALSE
      BY <3>2 DEF RejectForeign, ReportLost, RejectFull, StartNew, Return
    <3>3. ASSUME NEW q \in Call, ReuseSession(q) PROVE q = r
      BY <3>3 DEF ReuseSession, HandOut
    <3>4. ASSUME NEW q \in Call, NewSession(q) \/ NewSessionFails(q) PROVE FALSE
      BY <3>4 DEF NewSession, NewSessionFails, HandOut, Return
    <3>5. ASSUME NEW q \in Call, Turn(q) \/ EndStream(q) \/ LookupForCancel(q) \/ Cancel(q) PROVE FALSE
      BY <3>5 DEF Turn, Acquire, Locked, LeaseTimeout, Prompt, PromptFails, EndTurn, Stream,
                  EndStream, LookupForCancel, Cancel, Return
    <3>6. ~(Crash \/ (\E c \in Context : GoIdle(c)) \/ UNCHANGED vars)
      BY DEF Crash, GoIdle, vars, callVars
    <3> QED
      BY <3>1, <3>2, <3>3, <3>4, <3>5, <3>6 DEF Next, EnsureSession
  <2>2. /\ Conversation(r) \in Entry /\ Conversation(r).generation = generation
        /\ sid'[r] = Conversation(r).sid /\ UNCHANGED <<origin, generation>>
    <3>1. Conversation(r) \in Entry /\ Conversation(r).generation = generation
      BY <1>1, <2>1, ConversationsAssumption DEF ReuseSession, IInv, TypeOK, Conversation, Owned, Stale
    <3>2. sid' = [sid EXCEPT ![r] = Conversation(r).sid] /\ UNCHANGED <<origin, generation>>
      BY <2>1 DEF ReuseSession, HandOut, agentVars
    <3> QED
      BY <1>1, <3>1, <3>2 DEF IInv, TypeOK
  <2>3. /\ origin[Conversation(r).sid] \in Origin
        /\ generation <= origin[Conversation(r).sid].generation
        /\ origin[Conversation(r).sid].generation <= generation
    BY <1>1, <2>1, <2>2, ConversationsAssumption
    DEF IInv, TypeOK, EntryInv, ClockInv, Conversation, Owned, ReuseSession, Entry
  <2>4. origin[Conversation(r).sid].generation = generation
    <3>1. origin[Conversation(r).sid].generation \in Nat /\ generation \in Nat
      BY <1>1, <2>3 DEF Origin, IInv, TypeOK
    <3> QED
      BY <2>3, <3>1
  <2> QED
    BY <2>2, <2>3, <2>4, ConversationsAssumption DEF Knows
<1>2. IInv /\ [Next]_vars => [\A r \in Call : Fresh(r)]_vars
  BY <1>1
<1> QED
  BY <1>2, InvHolds, PTL DEF Spec, FreshHandOut

-----------------------------------------------------------------------------
(* The table grows only by the one call that is inside new_session, and     *)
(* only from below the cap.                                                 *)
LEMMA LiveShrinks ==
  ASSUME CapInv, Live' \subseteq Live, \A r \in Call : pc'[r] = "new" => pc[r] = "new"
  PROVE  CapInv'
<1>1. IsFiniteSet(Live') /\ Cardinality(Live') <= Cardinality(Live)
  BY FS_Subset DEF CapInv
<1>2. Cardinality(Live) \in Nat /\ Cardinality(Live') \in Nat
  BY <1>1, FS_CardinalityType DEF CapInv
<1> QED
  BY <1>1, <1>2, ConversationsAssumption DEF CapInv

(* CapInv is kept: the call inside new_session is the only one (MutexInv).  *)
LEMMA CapStep == TypeOK /\ MutexInv /\ CapInv /\ [Next]_vars => CapInv'
<1> SUFFICES ASSUME TypeOK, MutexInv, CapInv, [Next]_vars PROVE CapInv'
  OBVIOUS
<1> USE ConversationsAssumption DEF TypeOK, callVars, agentVars, leaseVars
<1>1. ASSUME NEW r \in Call, StartNew(r) PROVE CapInv'
  BY <1>1 DEF StartNew, HasRoom, CapInv, Live
<1>2. ASSUME NEW r \in Call, NewSession(r) PROVE CapInv'
  <2>1. PICK s \in SessionId :
          /\ sessions' = [sessions EXCEPT ![ContextOf[r]] =
                            [sid |-> s, owner |-> OwnerOf[r], generation |-> seen[r], idle |-> FALSE]]
          /\ HandOut(r, s)
    BY <1>2 DEF NewSession
  <2>2. Live' \subseteq Live \cup {ContextOf[r]}
    BY <2>1 DEF Live
  <2>3. /\ IsFiniteSet(Live \cup {ContextOf[r]})
        /\ Cardinality(Live \cup {ContextOf[r]}) <= Cardinality(Live) + 1
    <3>1. /\ IsFiniteSet(Live \cup {ContextOf[r]})
          /\ \/ Cardinality(Live \cup {ContextOf[r]}) = Cardinality(Live)
             \/ Cardinality(Live \cup {ContextOf[r]}) = Cardinality(Live) + 1
      BY FS_AddElement DEF CapInv
    <3>2. Cardinality(Live) \in Nat
      BY FS_CardinalityType DEF CapInv
    <3> QED
      BY <3>1, <3>2
  <2>4. /\ IsFiniteSet(Live') /\ Cardinality(Live') \in Nat
        /\ Cardinality(Live') <= Cardinality(Live \cup {ContextOf[r]})
    BY <2>2, <2>3, FS_Subset, FS_CardinalityType
  <2>5. Cardinality(Live) < MaxSessions
    BY <1>2 DEF NewSession, CapInv
  <2>6. \A q \in Call : pc'[q] # "new"
    BY <1>2, <2>1 DEF NewSession, HandOut, MutexInv
  <2>7. Cardinality(Live) \in Nat /\ Cardinality(Live \cup {ContextOf[r]}) \in Nat
    BY <2>3, FS_CardinalityType DEF CapInv
  <2> QED
    BY <2>3, <2>4, <2>5, <2>6, <2>7 DEF CapInv
<1>3. ASSUME NEW r \in Call,
             \/ BeginSend(r) \/ EnsureReady(r) \/ NotReady(r) \/ RejectForeign(r)
             \/ ReportLost(r) \/ ReuseSession(r) \/ RejectFull(r) \/ NewSessionFails(r)
      PROVE  CapInv'
  <2>1. Live' \subseteq Live
    <3>1. ASSUME ReuseSession(r) PROVE Live' \subseteq Live
      BY <3>1 DEF ReuseSession, Owned, Conversation, Live
    <3>2. ASSUME ReportLost(r) PROVE Live' \subseteq Live
      BY <3>2 DEF ReportLost, Live
    <3>3. ASSUME BeginSend(r) PROVE Live' \subseteq Live
      BY <3>3 DEF BeginSend, Live
    <3> QED
      BY <1>3, <3>1, <3>2, <3>3
      DEF EnsureReady, NotReady, RejectForeign, RejectFull, NewSessionFails, Live
  <2>2. \A q \in Call : pc'[q] = "new" => pc[q] = "new"
    BY <1>3 DEF BeginSend, EnsureReady, NotReady, RejectForeign, ReportLost, ReuseSession,
                RejectFull, NewSessionFails, Return, HandOut
  <2> QED
    BY <2>1, <2>2, LiveShrinks
<1>4. ASSUME NEW r \in Call, Turn(r) \/ EndStream(r) \/ LookupForCancel(r) \/ Cancel(r)
      PROVE  CapInv'
  <2>1. /\ sessions' = sessions
        /\ \A q \in Call : pc'[q] = "new" => pc[q] = "new"
    BY <1>4 DEF Turn, Acquire, Locked, LeaseTimeout, Prompt, PromptFails, EndTurn, Stream,
                EndStream, LookupForCancel, Cancel, Return
  <2> QED
    BY <2>1, LiveShrinks DEF Live
<1>5. CASE Crash
  BY <1>5, LiveShrinks DEF Crash, Live
<1>6. ASSUME NEW c \in Context, GoIdle(c) PROVE CapInv'
  <2>1. Live' \subseteq Live /\ pc' = pc
    BY <1>6 DEF GoIdle, Live
  <2> QED
    BY <2>1, LiveShrinks
<1>7. CASE UNCHANGED vars
  BY <1>7, LiveShrinks DEF vars, Live
<1> QED
  BY <1>1, <1>2, <1>3, <1>4, <1>5, <1>6, <1>7 DEF Next, EnsureSession

(* MutexInv needs no assumption on session ids.                             *)
LEMMA MutexStep == TypeOK /\ MutexInv /\ [Next]_vars => MutexInv'
<1> SUFFICES ASSUME TypeOK, MutexInv, [Next]_vars PROVE MutexInv'
  OBVIOUS
<1> USE ConversationsAssumption DEF TypeOK, MutexInv, callVars, agentVars, leaseVars
<1>1. ASSUME NEW r \in Call, BeginSend(r) \/ EnsureReady(r) \/ NotReady(r) PROVE MutexInv'
  BY <1>1 DEF BeginSend, EnsureReady, NotReady, Return
<1>2. ASSUME NEW r \in Call,
             RejectForeign(r) \/ ReportLost(r) \/ ReuseSession(r) \/ RejectFull(r) \/ StartNew(r)
      PROVE  MutexInv'
  BY <1>2 DEF RejectForeign, ReportLost, ReuseSession, RejectFull, StartNew, Return, HandOut
<1>3. ASSUME NEW r \in Call, NewSession(r) \/ NewSessionFails(r) PROVE MutexInv'
  BY <1>3 DEF NewSession, NewSessionFails, Return, HandOut
<1>4. ASSUME NEW r \in Call, Turn(r) \/ EndStream(r) \/ LookupForCancel(r) \/ Cancel(r)
      PROVE  MutexInv'
  BY <1>4 DEF Turn, Acquire, Locked, LeaseTimeout, Prompt, PromptFails, EndTurn, Stream,
              EndStream, LookupForCancel, Cancel, Return
<1>5. CASE Crash \/ (\E c \in Context : GoIdle(c)) \/ UNCHANGED vars
  BY <1>5 DEF Crash, GoIdle, vars
<1> QED
  BY <1>1, <1>2, <1>3, <1>4, <1>5 DEF Next, EnsureSession

(* An agent never has more live conversations than the cap.                 *)
THEOREM SessionCapHolds == Spec => []SessionCap
<1>1. Init => CapInv /\ MutexInv
  <2> SUFFICES ASSUME Init PROVE CapInv /\ MutexInv
    OBVIOUS
  <2>1. Live = {} /\ \A r \in Call : pc[r] = "idle" /\ sessionsMutex # r
    BY ConversationsAssumption DEF Init, Live
  <2>2. IsFiniteSet(Live) /\ Cardinality(Live) = 0
    BY <2>1, FS_EmptySet
  <2> QED
    BY <2>1, <2>2, ConversationsAssumption DEF CapInv, MutexInv
<1>2. CapInv => SessionCap
  BY DEF CapInv, SessionCap
<1> QED
  BY <1>1, <1>2, CapStep, MutexStep, TypeCorrect, PTL DEF Spec

=============================================================================
