-------------------------- MODULE AcpConnection_proof --------------------------
(***************************************************************************)
(* LeasesAreSessions, SlotsAccounted, TypeOK, Transcript and StreamWhole   *)
(* of AcpConnection, for any finite set of connections, any sessions, cap  *)
(* and limits.  The first two are inductive with the types of the          *)
(* variables they speak of alone.  The last two rest on SocketInv, which   *)
(* says of every place of the loop what the socket holds, and on FlowInv,  *)
(* which follows the chunks of a stream: those in the socket, those in the *)
(* converter's channel and those in the agent's are consecutive, up to the *)
(* terminal event.                                                         *)
(***************************************************************************)
EXTENDS AcpConnection, FiniteSetTheorems, TLAPS

Places == {"handshake", "read", "card", "sent", "cancelling", "relay", "closed"}

LeaseInv ==
  /\ sessions \in [Conn -> SUBSET Session]
  /\ stale \in [Conn -> SUBSET Session]
  /\ leased \in [Conn -> SUBSET Session]
  /\ LeasesAreSessions

SlotInv ==
  /\ free \in [Agent -> 0 .. StreamLimit]
  /\ pc \in [Conn -> Places]
  /\ SlotsAccounted

Relaying == {c \in Conn : pc[c] = "relay"}

-----------------------------------------------------------------------------
(* The sessions                                                              *)

(* An access drops expired sessions with their leases.                       *)
LEMMA EvictKeeps ==
  ASSUME LeaseInv, NEW c \in Conn, NEW new \in SUBSET Session, NEW held \in SUBSET Live(c),
         EvictAnd(c, new, held)
  PROVE  LeaseInv'
BY DEF LeaseInv, LeasesAreSessions, EvictAnd, Live

(* A session that is dropped takes its lease along.                          *)
LEMMA DropKeeps ==
  ASSUME LeaseInv, NEW c \in Conn, NEW s \in Session, DropSession(c, s)
  PROVE  LeaseInv'
BY DEF LeaseInv, LeasesAreSessions, DropSession

(* A connection that closes takes its whole adapter.                         *)
LEMMA CloseKeeps ==
  ASSUME LeaseInv, NEW c \in Conn, Close(c)
  PROVE  LeaseInv'
BY DEF LeaseInv, LeasesAreSessions, Close

(* Sessions may expire.                                                      *)
LEMMA SessionsStay ==
  ASSUME LeaseInv, UNCHANGED <<sessions, leased>>, stale' \in [Conn -> SUBSET Session]
  PROVE  LeaseInv'
BY DEF LeaseInv, LeasesAreSessions

(* Leases are those of sessions after every step.                            *)
LEMMA LeaseStep == LeaseInv /\ [Next]_vars => LeaseInv'
<1> SUFFICES ASSUME LeaseInv, [Next]_vars PROVE LeaseInv'
  OBVIOUS
<1>0. stale \in [Conn -> SUBSET Session]
  BY DEF LeaseInv
<1>1. ASSUME NEW c \in Conn, Handshake(c) PROVE LeaseInv'
  BY <1>0, <1>1, CloseKeeps, SessionsStay DEF Handshake, adapterVars
<1>2. ASSUME NEW c \in Conn, CardFetched(c) PROVE LeaseInv'
  BY <1>0, <1>2, SessionsStay DEF CardFetched, adapterVars
<1>3. ASSUME NEW c \in Conn, ReplyWhole(c) PROVE LeaseInv'
  BY <1>0, <1>3, SessionsStay DEF ReplyWhole, adapterVars
<1>4. ASSUME NEW c \in Conn, ReplyDropped(c) PROVE LeaseInv'
  BY <1>0, <1>4, SessionsStay DEF ReplyDropped, adapterVars
<1>5. ASSUME NEW c \in Conn, ReplyStream(c) PROVE LeaseInv'
  BY <1>0, <1>5, SessionsStay DEF ReplyStream, adapterVars
<1>6. ASSUME NEW c \in Conn, Cancelled(c) PROVE LeaseInv'
  BY <1>6, DropKeeps DEF Cancelled
<1>7. ASSUME NEW c \in Conn, ResponseEnds(c) PROVE LeaseInv'
  BY <1>0, <1>7, SessionsStay DEF ResponseEnds, adapterVars
<1>8. ASSUME NEW c \in Conn, Convert(c) PROVE LeaseInv'
  BY <1>0, <1>8, SessionsStay DEF Convert, adapterVars
<1>9. ASSUME NEW c \in Conn, ConverterEnds(c) PROVE LeaseInv'
  BY <1>0, <1>9, SessionsStay DEF ConverterEnds, adapterVars
<1>10. ASSUME NEW c \in Conn, Relay(c) PROVE LeaseInv'
  BY <1>0, <1>10, SessionsStay DEF Relay, adapterVars
<1>11. ASSUME NEW c \in Conn, RelayFails(c) PROVE LeaseInv'
  BY <1>11, CloseKeeps DEF RelayFails
<1>12. ASSUME NEW c \in Conn, RelayEnds(c) PROVE LeaseInv'
  BY <1>0, <1>12, SessionsStay DEF RelayEnds, adapterVars
<1>13. ASSUME NEW c \in Conn, Reject(c) PROVE LeaseInv'
  BY <1>0, <1>13, SessionsStay DEF Reject, adapterVars
<1>14. ASSUME NEW c \in Conn, Initialize(c) PROVE LeaseInv'
  BY <1>0, <1>14, SessionsStay DEF Initialize, adapterVars
<1>15. ASSUME NEW c \in Conn, NewSession(c) PROVE LeaseInv'
  <2>1. CASE EvictAnd(c, {}, {})
    BY <2>1, EvictKeeps
  <2>2. ASSUME NEW s \in Session, Register(c, s) PROVE LeaseInv'
    BY <2>2, EvictKeeps DEF Register
  <2> QED
    BY <1>15, <2>1, <2>2 DEF NewSession
<1>16. ASSUME NEW c \in Conn, Prompt(c) PROVE LeaseInv'
  <2>1. CASE EvictAnd(c, {}, {})
    BY <2>1, EvictKeeps
  <2>2. ASSUME NEW s \in Live(c), EvictAnd(c, {}, {s}) PROVE LeaseInv'
    BY <2>2, EvictKeeps
  <2> QED
    BY <1>16, <2>1, <2>2 DEF Prompt
<1>17. ASSUME NEW c \in Conn, Cancel(c) PROVE LeaseInv'
  BY <1>0, <1>17, SessionsStay DEF Cancel, adapterVars
<1>18. ASSUME NEW c \in Conn, ReadEnds(c) PROVE LeaseInv'
  BY <1>18, CloseKeeps DEF ReadEnds
<1>19. ASSUME NEW c \in Conn, Arrive(c) PROVE LeaseInv'
  BY <1>0, <1>19, SessionsStay DEF Arrive, adapterVars
<1>20. ASSUME NEW c \in Conn, Expire(c) PROVE LeaseInv'
  BY <1>0, <1>20, SessionsStay DEF Expire, Live, LeaseInv
<1>21. CASE UNCHANGED vars
  BY <1>0, <1>21, SessionsStay DEF vars, adapterVars
<1> QED
  BY <1>1, <1>2, <1>3, <1>4, <1>5, <1>6, <1>7, <1>8, <1>9, <1>10, <1>11,
     <1>12, <1>13, <1>14, <1>15, <1>16, <1>17, <1>18, <1>19, <1>20, <1>21 DEF Next, Step, Environment

(* The TurnLease of A2aAsAcp tracks sessions of the connection only, through *)
(* evict_expired, register_session, cancels of any id and turns.             *)
THEOREM LeasesHold == Spec => []LeasesAreSessions
<1>1. Init => LeaseInv
  BY DEF Init, LeaseInv, LeasesAreSessions
<1>2. LeaseInv => LeasesAreSessions
  BY DEF LeaseInv
<1> QED
  BY <1>1, <1>2, LeaseStep, PTL DEF Spec

-----------------------------------------------------------------------------
(* The slots                                                                 *)

(* Steps that leave who relays leave the count.                              *)
LEMMA SlotsStay ==
  ASSUME SlotInv, UNCHANGED free, pc' \in [Conn -> Places],
         \A c \in Conn : pc'[c] = "relay" <=> pc[c] = "relay"
  PROVE  SlotInv'
<1>1. Relaying' = Relaying
  BY DEF Relaying
<1> QED
  BY <1>1 DEF SlotInv, SlotsAccounted, SlotsInUse, Relaying

(* A task of the loop that neither begins nor ends a stream                  *)
LEMMA GotoKeeps ==
  ASSUME SlotInv, UNCHANGED free, NEW c \in Conn, NEW place \in Places, Goto(c, place),
         pc[c] # "relay", place # "relay"
  PROVE  SlotInv'
BY SlotsStay DEF Goto, SlotInv

(* A slot is taken by the one who begins to relay ...                        *)
LEMMA SlotTaken ==
  ASSUME SlotInv, NEW c \in Conn, pc[c] # "relay", Goto(c, "relay"), TakeSlot(Target)
  PROVE  SlotInv'
<1>0. /\ Target \in Agent /\ StreamLimit \in Nat /\ IsFiniteSet(Relaying)
      /\ free \in [Agent -> 0 .. StreamLimit] /\ pc \in [Conn -> Places]
  BY AcpConnectionAssumption, StreamSlotsAssumption, FS_Subset DEF SlotInv, Relaying
<1>1. Relaying' = Relaying \cup {c} /\ c \notin Relaying
  BY <1>0 DEF Goto, Relaying
<1>2. Cardinality(Relaying') = Cardinality(Relaying) + 1 /\ Cardinality(Relaying) \in Nat
  BY <1>0, <1>1, FS_AddElement, FS_CardinalityType
<1>3. free' = [free EXCEPT ![Target] = @ - 1] /\ free[Target] > 0
  BY DEF TakeSlot, HasSlot
<1>4. free' \in [Agent -> 0 .. StreamLimit]
  BY <1>0, <1>3
<1>5. StreamLimit - free[Target] = Cardinality(Relaying)
      /\ \A a \in Agent \ {Target} : StreamLimit - free[a] = 0
  BY <1>0 DEF SlotInv, SlotsAccounted, SlotsInUse, Relaying
<1>6. StreamLimit - free'[Target] = Cardinality(Relaying')
      /\ \A a \in Agent \ {Target} : StreamLimit - free'[a] = 0
  BY <1>0, <1>2, <1>3, <1>5
<1>7. pc' \in [Conn -> Places]
  BY <1>0 DEF Goto, Places
<1> QED
  BY <1>4, <1>6, <1>7 DEF SlotInv, SlotsAccounted, SlotsInUse, Relaying

(* ... and returned by the one who ends.                                     *)
LEMMA SlotReturned ==
  ASSUME SlotInv, NEW c \in Conn, pc[c] = "relay",
         NEW place \in Places \ {"relay"}, Goto(c, place), ReturnSlot(Target)
  PROVE  SlotInv'
<1>0. /\ Target \in Agent /\ StreamLimit \in Nat /\ IsFiniteSet(Relaying)
      /\ free \in [Agent -> 0 .. StreamLimit] /\ pc \in [Conn -> Places]
  BY AcpConnectionAssumption, StreamSlotsAssumption, FS_Subset DEF SlotInv, Relaying
<1>1. Relaying' = Relaying \ {c} /\ c \in Relaying
  BY <1>0 DEF Goto, Relaying
<1>2. /\ Cardinality(Relaying') = Cardinality(Relaying) - 1
      /\ Cardinality(Relaying) \in Nat /\ Cardinality(Relaying) # 0
  BY <1>0, <1>1, FS_RemoveElement, FS_CardinalityType, FS_EmptySet
<1>3. free' = [free EXCEPT ![Target] = @ + 1]
  BY DEF ReturnSlot
<1>4. StreamLimit - free[Target] = Cardinality(Relaying)
      /\ \A a \in Agent \ {Target} : StreamLimit - free[a] = 0
  BY <1>0 DEF SlotInv, SlotsAccounted, SlotsInUse, Relaying
<1>5. free' \in [Agent -> 0 .. StreamLimit]
  BY <1>0, <1>2, <1>3, <1>4
<1>6. StreamLimit - free'[Target] = Cardinality(Relaying')
      /\ \A a \in Agent \ {Target} : StreamLimit - free'[a] = 0
  BY <1>0, <1>2, <1>3, <1>4
<1>7. pc' \in [Conn -> Places]
  BY <1>0 DEF Goto
<1> QED
  BY <1>5, <1>6, <1>7 DEF SlotInv, SlotsAccounted, SlotsInUse, Relaying

(* The count is right after every step.                                      *)
LEMMA SlotStep == SlotInv /\ [Next]_vars => SlotInv'
<1> SUFFICES ASSUME SlotInv, [Next]_vars PROVE SlotInv'
  OBVIOUS
<1>0. pc \in [Conn -> Places]
  BY DEF SlotInv
<1>1. ASSUME NEW c \in Conn, Handshake(c) PROVE SlotInv'
  BY <1>1, GotoKeeps DEF Handshake, Close, Places
<1>2. ASSUME NEW c \in Conn, CardFetched(c) PROVE SlotInv'
  BY <1>2, GotoKeeps DEF CardFetched, Answer, Places
<1>3. ASSUME NEW c \in Conn, ReplyWhole(c) PROVE SlotInv'
  BY <1>3, GotoKeeps DEF ReplyWhole, Answer, Places
<1>4. ASSUME NEW c \in Conn, ReplyDropped(c) PROVE SlotInv'
  BY <1>4, GotoKeeps DEF ReplyDropped, Answer, Places
<1>5. ASSUME NEW c \in Conn, ReplyStream(c) PROVE SlotInv'
  BY <1>5, SlotTaken DEF ReplyStream
<1>6. ASSUME NEW c \in Conn, Cancelled(c) PROVE SlotInv'
  BY <1>6, GotoKeeps DEF Cancelled, Answer, Places
<1>7. ASSUME NEW c \in Conn, ResponseEnds(c) PROVE SlotInv'
  BY <1>0, <1>7, SlotsStay DEF ResponseEnds
<1>8. ASSUME NEW c \in Conn, Convert(c) PROVE SlotInv'
  BY <1>0, <1>8, SlotsStay DEF Convert
<1>9. ASSUME NEW c \in Conn, ConverterEnds(c) PROVE SlotInv'
  BY <1>0, <1>9, SlotsStay DEF ConverterEnds
<1>10. ASSUME NEW c \in Conn, Relay(c) PROVE SlotInv'
  BY <1>0, <1>10, SlotsStay DEF Relay
<1>11. ASSUME NEW c \in Conn, RelayFails(c) PROVE SlotInv'
  BY <1>11, SlotReturned DEF RelayFails, Close, StreamOver, Places
<1>12. ASSUME NEW c \in Conn, RelayEnds(c) PROVE SlotInv'
  BY <1>12, SlotReturned DEF RelayEnds, StreamOver, Places
<1>13. ASSUME NEW c \in Conn, Reject(c) PROVE SlotInv'
  BY <1>13, GotoKeeps DEF Reject, Read, Answer, Places
<1>14. ASSUME NEW c \in Conn, Initialize(c) PROVE SlotInv'
  BY <1>14, GotoKeeps DEF Initialize, Read, Places
<1>15. ASSUME NEW c \in Conn, NewSession(c) PROVE SlotInv'
  BY <1>15, GotoKeeps DEF NewSession, Read, Answer, Places
<1>16. ASSUME NEW c \in Conn, Prompt(c) PROVE SlotInv'
  BY <1>16, GotoKeeps DEF Prompt, Read, Answer, Places
<1>17. ASSUME NEW c \in Conn, Cancel(c) PROVE SlotInv'
  BY <1>17, GotoKeeps DEF Cancel, Read, Places
<1>18. ASSUME NEW c \in Conn, ReadEnds(c) PROVE SlotInv'
  BY <1>18, GotoKeeps DEF ReadEnds, Close, Places
<1>19. ASSUME NEW c \in Conn, Arrive(c) PROVE SlotInv'
  BY <1>0, <1>19, SlotsStay DEF Arrive
<1>20. ASSUME NEW c \in Conn, Expire(c) PROVE SlotInv'
  BY <1>0, <1>20, SlotsStay DEF Expire
<1>21. CASE UNCHANGED vars
  BY <1>0, <1>21, SlotsStay DEF vars
<1> QED
  BY <1>1, <1>2, <1>3, <1>4, <1>5, <1>6, <1>7, <1>8, <1>9, <1>10, <1>11,
     <1>12, <1>13, <1>14, <1>15, <1>16, <1>17, <1>18, <1>19, <1>20, <1>21 DEF Next, Step, Environment

(* At first all slots are free.                                              *)
LEMMA SlotInit ==
  ASSUME Init
  PROVE  SlotInv
<1>1. Relaying = {} /\ Cardinality(Relaying) = 0
  BY FS_EmptySet DEF Init, Relaying
<1>2. \A a \in Agent : StreamLimit - free[a] = 0
  BY StreamSlotsAssumption DEF Init, SlotsInit
<1>3. free \in [Agent -> 0 .. StreamLimit] /\ pc \in [Conn -> Places]
  BY StreamSlotsAssumption DEF Init, SlotsInit, Places
<1> QED
  BY <1>1, <1>2, <1>3 DEF SlotInv, SlotsAccounted, SlotsInUse, Relaying

(* The permits of try_acquire_stream that are out are those of connections   *)
(* writing a stream: none is lost when a stream breaks or a write fails.     *)
THEOREM SlotsAccountedHolds == Spec => []SlotsAccounted
<1>1. Init => SlotInv
  BY SlotInit
<1>2. SlotInv => SlotsAccounted
  BY DEF SlotInv
<1> QED
  BY <1>1, <1>2, SlotStep, PTL DEF Spec
-----------------------------------------------------------------------------
(* The types                                                                 *)

(* The loop and what it writes; a line that was sent on has been read.       *)
TalkInv ==
  /\ pc \in [Conn -> Places]
  /\ cur \in [Conn -> Nat] /\ \A c \in Conn : cur[c] <= MaxRequests[c]
  /\ \A c \in Conn : pc[c] = "sent" => cur[c] > 0
  /\ notes \in [Conn -> SUBSET Nat] /\ \A c \in Conn : notes[c] \subseteq 1 .. cur[c]
  /\ streamed \in [Conn -> SUBSET Nat] /\ \A c \in Conn : streamed[c] \subseteq 1 .. cur[c]
  /\ lines \in [Conn -> Seq(Line)]

(* The two channels of a stream.                                             *)
ChannelInv ==
  /\ sse \in [Conn -> {"open", "ended"}]
  /\ events \in [Conn -> Seq(Event)]
  /\ final \in [Conn -> BOOLEAN]
  /\ converter \in [Conn -> {"on", "off"}]
  /\ updates \in [Conn -> Seq(1 .. MaxChunks + 1)]
  /\ emitted \in [Conn -> 0 .. MaxChunks]

(* The sessions under their cap.                                             *)
CapInv ==
  /\ issued \subseteq Session
  /\ sessions \in [Conn -> SUBSET issued]
  /\ stale \in [Conn -> SUBSET Session]
  /\ \A c \in Conn : /\ stale[c] \subseteq sessions[c]
                     /\ IsFiniteSet(sessions[c])
                     /\ Cardinality(sessions[c]) <= MaxSessions

(* A line put into the socket.                                               *)
LEMMA LineWritten ==
  ASSUME lines \in [Conn -> Seq(Line)], NEW c \in Conn, NEW line \in Line, Write(c, line)
  PROVE  lines' \in [Conn -> Seq(Line)]
BY DEF Write

(* What is taken out of a channel, and what is left.                         *)
LEMMA HeadOf ==
  ASSUME NEW S, NEW s \in Seq(S), s # <<>>
  PROVE  Head(s) \in S /\ Tail(s) \in Seq(S)
OBVIOUS

(* The types of the conversation: an answer, ...                             *)
LEMMA AnswerTalk ==
  ASSUME TalkInv, NEW c \in Conn, Answer(c), UNCHANGED <<cur, notes, streamed>>
  PROVE  TalkInv'
<1>1. [of |-> cur[c], says |-> "answer", n |-> 0] \in Line
  BY AcpConnectionAssumption DEF TalkInv, Line
<1>2. lines' \in [Conn -> Seq(Line)]
  BY <1>1, LineWritten DEF TalkInv, Answer
<1> QED
  BY <1>2 DEF TalkInv, Answer, Goto, Places

(* ... the reading of a line, ...                                            *)
LEMMA ReadTalk ==
  ASSUME TalkInv, NEW c \in Conn, NEW isNote \in BOOLEAN, Read(c, isNote),
         \/ Answer(c)
         \/ UNCHANGED lines /\ \E place \in {"card", "sent", "cancelling"} : Goto(c, place)
  PROVE  TalkInv'
<1> USE DEF TalkInv
<1>1. /\ cur' = [cur EXCEPT ![c] = @ + 1] /\ cur[c] < MaxRequests[c]
      /\ notes' = [notes EXCEPT ![c] = IF isNote THEN @ \cup {cur'[c]} ELSE @]
      /\ UNCHANGED streamed
  BY DEF Read
<1>2. MaxRequests[c] \in Nat
  BY AcpConnectionAssumption
<1>3. cur' \in [Conn -> Nat] /\ \A d \in Conn : cur'[d] <= MaxRequests[d] /\ cur[d] <= cur'[d]
  BY <1>1, <1>2
<1>4. cur'[c] > 0
  BY <1>1
<1>5. notes' \in [Conn -> SUBSET Nat] /\ \A d \in Conn : notes'[d] \subseteq 1 .. cur'[d]
  BY <1>1, <1>3, <1>4
<1>6. streamed' \in [Conn -> SUBSET Nat] /\ \A d \in Conn : streamed'[d] \subseteq 1 .. cur'[d]
  BY <1>1, <1>3
<1>7. pc' \in [Conn -> Places] /\ \A d \in Conn : pc'[d] = "sent" => cur'[d] > 0
  <2>1. PICK place \in {"read", "card", "sent", "cancelling"} : Goto(c, place)
    BY DEF Answer
  <2>2. pc' = [pc EXCEPT ![c] = place]
    BY <2>1 DEF Goto
  <2> QED
    BY <1>1, <1>4, <2>2 DEF Places
<1>8. lines' \in [Conn -> Seq(Line)]
  <2>1. [of |-> cur'[c], says |-> "answer", n |-> 0] \in Line
    BY <1>3, AcpConnectionAssumption DEF Line
  <2> QED
    BY <2>1, LineWritten DEF Answer
<1> QED
  BY <1>3, <1>5, <1>6, <1>7, <1>8

(* ... the end of a connection, ...                                          *)
LEMMA CloseTalk ==
  ASSUME TalkInv, NEW c \in Conn, Close(c)
  PROVE  TalkInv'
<1>1. /\ pc' = [pc EXCEPT ![c] = "closed"] /\ cur' = [cur EXCEPT ![c] = 0]
      /\ notes' = [notes EXCEPT ![c] = {}] /\ streamed' = [streamed EXCEPT ![c] = {}]
      /\ lines' = [lines EXCEPT ![c] = <<>>]
  BY DEF Close, Goto
<1>2. MaxRequests[c] \in Nat
  BY AcpConnectionAssumption
<1> QED
  BY <1>1, <1>2 DEF TalkInv, Places

(* ... a move of the loop ...                                                *)
LEMMA GotoTalk ==
  ASSUME TalkInv, NEW c \in Conn, NEW place \in {"read", "relay"}, Goto(c, place),
         UNCHANGED <<cur, notes, streamed, lines>>
  PROVE  TalkInv'
BY DEF TalkInv, Goto, Places

(* ... and steps beside it.                                                  *)
LEMMA TalkStays ==
  ASSUME TalkInv, UNCHANGED <<pc, cur, notes, streamed, lines>>
  PROVE  TalkInv'
BY DEF TalkInv

(* Together.                                                                 *)
LEMMA TalkStep == TalkInv /\ ChannelInv /\ [Next]_vars => TalkInv'
<1> SUFFICES ASSUME TalkInv, ChannelInv, [Next]_vars PROVE TalkInv'
  OBVIOUS
<1>1. ASSUME NEW c \in Conn, Handshake(c) PROVE TalkInv'
  BY <1>1, CloseTalk, GotoTalk DEF Handshake, histVars
<1>2. ASSUME NEW c \in Conn, CardFetched(c) \/ ReplyWhole(c) \/ ReplyDropped(c) \/ Cancelled(c)
      PROVE  TalkInv'
  BY <1>2, AnswerTalk DEF CardFetched, ReplyWhole, ReplyDropped, Cancelled
<1>3. ASSUME NEW c \in Conn, ReplyStream(c) PROVE TalkInv'
  <2>1. /\ pc[c] = "sent" /\ pc' = [pc EXCEPT ![c] = "relay"]
        /\ streamed' = [streamed EXCEPT ![c] = @ \cup {cur[c]}]
        /\ UNCHANGED <<cur, notes, lines>>
    BY <1>3 DEF ReplyStream, Goto
  <2>2. cur[c] \in 1 .. cur[c]
    BY <2>1 DEF TalkInv
  <2> QED
    BY <2>1, <2>2 DEF TalkInv, Places
<1>4. ASSUME NEW c \in Conn, Reject(c) \/ Initialize(c) \/ NewSession(c) \/ Prompt(c) \/ Cancel(c)
      PROVE  TalkInv'
  <2>1. PICK isNote \in BOOLEAN : Read(c, isNote)
    BY <1>4 DEF Reject, Initialize, NewSession, Prompt, Cancel
  <2>2. \/ Answer(c)
        \/ UNCHANGED lines /\ \E place \in {"card", "sent", "cancelling"} : Goto(c, place)
    BY <1>4 DEF Reject, Initialize, NewSession, Prompt, Cancel
  <2> QED
    BY <2>1, <2>2, ReadTalk
<1>5. ASSUME NEW c \in Conn, Relay(c) PROVE TalkInv'
  <2>1. /\ lines' = [lines EXCEPT ![c] = Append(@, [of |-> cur[c], says |-> "update", n |-> Head(updates[c])])]
        /\ updates[c] # <<>> /\ UNCHANGED <<pc, cur, notes, streamed>>
    BY <1>5 DEF Relay, Write
  <2>2. Head(updates[c]) \in 1 .. MaxChunks + 1
    BY <2>1, HeadOf DEF ChannelInv
  <2>3. [of |-> cur[c], says |-> "update", n |-> Head(updates[c])] \in Line
    BY <2>2, AcpConnectionAssumption DEF TalkInv, Line
  <2> QED
    BY <2>1, <2>3 DEF TalkInv
<1>6. ASSUME NEW c \in Conn, RelayFails(c) \/ ReadEnds(c) PROVE TalkInv'
  BY <1>6, CloseTalk DEF RelayFails, ReadEnds
<1>7. ASSUME NEW c \in Conn, RelayEnds(c) PROVE TalkInv'
  BY <1>7, GotoTalk DEF RelayEnds, histVars
<1>8. ASSUME NEW c \in Conn,
             ResponseEnds(c) \/ Convert(c) \/ ConverterEnds(c) \/ Arrive(c) \/ Expire(c)
      PROVE  TalkInv'
  BY <1>8, TalkStays DEF ResponseEnds, Convert, ConverterEnds, Arrive, Expire, histVars
<1>9. CASE UNCHANGED vars
  BY <1>9, TalkStays DEF vars, histVars
<1> QED
  BY <1>1, <1>2, <1>3, <1>4, <1>5, <1>6, <1>7, <1>8, <1>9 DEF Next, Step, Environment

(* The types of the channels and of the tasks behind a stream.               *)
LEMMA ChannelStep == ChannelInv /\ [Next]_vars => ChannelInv'
<1> SUFFICES ASSUME ChannelInv, [Next]_vars PROVE ChannelInv'
  OBVIOUS
<1> USE DEF ChannelInv
<1>1. ASSUME UNCHANGED streamVars, emitted' \in [Conn -> 0 .. MaxChunks]
      PROVE  ChannelInv'
  BY <1>1 DEF streamVars
<1>2. ASSUME NEW c \in Conn, StreamOver(c), emitted' \in [Conn -> 0 .. MaxChunks]
      PROVE  ChannelInv'
  BY <1>2 DEF StreamOver
<1>3. ASSUME NEW c \in Conn, Close(c) \/ (\E isNote \in BOOLEAN : Read(c, isNote))
      PROVE  emitted' \in [Conn -> 0 .. MaxChunks]
  <2>1. emitted' = [emitted EXCEPT ![c] = 0]
    BY <1>3 DEF Close, Read
  <2> QED
    BY <2>1, AcpConnectionAssumption
<1>4. ASSUME NEW c \in Conn, Handshake(c) \/ CardFetched(c) \/ ReplyWhole(c) \/ ReplyDropped(c) \/ Cancelled(c)
      PROVE  ChannelInv'
  BY <1>1, <1>3, <1>4 DEF Handshake, CardFetched, ReplyWhole, ReplyDropped, Cancelled, histVars
<1>5. ASSUME NEW c \in Conn, ReplyStream(c) PROVE ChannelInv'
  BY <1>5, AcpConnectionAssumption DEF ReplyStream
<1>6. ASSUME NEW c \in Conn, Reject(c) \/ Initialize(c) \/ NewSession(c) \/ Prompt(c) \/ Cancel(c)
      PROVE  ChannelInv'
  <2>1. PICK isNote \in BOOLEAN : Read(c, isNote)
    BY <1>6 DEF Reject, Initialize, NewSession, Prompt, Cancel
  <2>2. UNCHANGED streamVars
    BY <2>1 DEF Read
  <2> QED
    BY <1>1, <1>3, <2>1, <2>2
<1>7. ASSUME NEW c \in Conn, ReadEnds(c) PROVE ChannelInv'
  BY <1>1, <1>3, <1>7 DEF ReadEnds
<1>8. ASSUME NEW c \in Conn, RelayFails(c) PROVE ChannelInv'
  BY <1>2, <1>3, <1>8 DEF RelayFails
<1>9. ASSUME NEW c \in Conn, RelayEnds(c) PROVE ChannelInv'
  BY <1>2, <1>9 DEF RelayEnds, histVars
<1>10. ASSUME NEW c \in Conn, ResponseEnds(c) \/ ConverterEnds(c) PROVE ChannelInv'
  BY <1>10 DEF ResponseEnds, ConverterEnds, histVars
<1>11. ASSUME NEW c \in Conn, Relay(c) PROVE ChannelInv'
  BY <1>11 DEF Relay
<1>12. ASSUME NEW c \in Conn, Convert(c) PROVE ChannelInv'
  <2>1. events[c] # <<>> /\ Head(events[c]) \in Event /\ Tail(events[c]) \in Seq(Event)
    BY <1>12, HeadOf DEF Convert
  <2>2. Updates(Head(events[c])) \in Seq(1 .. MaxChunks + 1)
    <3>1. Head(events[c]).n \in 1 .. MaxChunks + 1
      BY <2>1 DEF Event
    <3> DEFINE nums == 1 .. MaxChunks + 1
    <3> HIDE DEF nums
    <3>2. \A n \in nums : <<n>> \in Seq(nums) /\ <<>> \in Seq(nums)
      OBVIOUS
    <3>3. <<Head(events[c]).n>> \in Seq(nums) /\ <<>> \in Seq(nums)
      BY <3>1, <3>2 DEF nums
    <3> QED
      BY <3>3 DEF Updates, nums
  <2>3. /\ events' = [events EXCEPT ![c] = Tail(@)]
        /\ updates' = [updates EXCEPT ![c] = @ \o Updates(Head(events[c]))]
        /\ converter' \in [Conn -> {"on", "off"}]
        /\ UNCHANGED <<sse, final, emitted>>
    BY <1>12 DEF Convert, histVars
  <2> QED
    BY <2>1, <2>2, <2>3
<1>13. ASSUME NEW c \in Conn, Arrive(c) PROVE ChannelInv'
  <2>1. PICK kind \in {"chunk", "status", "final"} :
          /\ kind = "chunk" => emitted[c] < MaxChunks
          /\ events' = [events EXCEPT ![c] = Append(@, [kind |-> kind, n |-> emitted[c] + 1])]
          /\ final' = [final EXCEPT ![c] = @ \/ kind = "final"]
          /\ emitted' = [emitted EXCEPT ![c] = IF kind = "chunk" /\ ~final[c] THEN @ + 1 ELSE @]
    BY <1>13 DEF Arrive
  <2>2. [kind |-> kind, n |-> emitted[c] + 1] \in Event
    BY AcpConnectionAssumption DEF Event
  <2>3. events' \in [Conn -> Seq(Event)]
    BY <2>1, <2>2
  <2>4. emitted' \in [Conn -> 0 .. MaxChunks]
    BY <2>1, AcpConnectionAssumption
  <2>5. final' \in [Conn -> BOOLEAN]
    BY <2>1
  <2> QED
    BY <1>13, <2>3, <2>4, <2>5 DEF Arrive
<1>14. ASSUME NEW c \in Conn, Expire(c) PROVE ChannelInv'
  BY <1>1, <1>14 DEF Expire, histVars
<1>15. CASE UNCHANGED vars
  BY <1>1, <1>15 DEF vars, histVars
<1> QED
  BY <1>4, <1>5, <1>6, <1>7, <1>8, <1>9, <1>10, <1>11, <1>12, <1>13, <1>14, <1>15
     DEF Next, Step, Environment

(* evict_expired and at most one session more, where there is room.          *)
LEMMA EvictCap ==
  ASSUME CapInv, NEW c \in Conn, NEW new \in SUBSET Session, NEW held, EvictAnd(c, new, held),
         \/ new = {}
         \/ Cardinality(Live(c)) < MaxSessions /\ \E s \in Session : new = {s}
  PROVE  CapInv'
<1> USE DEF CapInv
<1>1. Live(c) \in SUBSET sessions[c]
  BY DEF Live
<1>2. IsFiniteSet(Live(c)) /\ Cardinality(Live(c)) <= MaxSessions /\ Cardinality(Live(c)) \in Nat
  <2>1. IsFiniteSet(sessions[c]) /\ Cardinality(sessions[c]) <= MaxSessions
    OBVIOUS
  <2>2. IsFiniteSet(Live(c)) /\ Cardinality(Live(c)) <= Cardinality(sessions[c])
    BY <1>1, <2>1, FS_Subset
  <2>3. Cardinality(Live(c)) \in Nat /\ Cardinality(sessions[c]) \in Nat
    BY <2>1, <2>2, FS_CardinalityType
  <2> QED
    BY <2>1, <2>2, <2>3, AcpConnectionAssumption
<1>3. IsFiniteSet(Live(c) \cup new) /\ Cardinality(Live(c) \cup new) <= MaxSessions
  <2>1. CASE new = {}
    <3>1. Live(c) \cup new = Live(c)
      BY <2>1
    <3> QED
      BY <1>2, <3>1
  <2>2. ASSUME NEW s \in Session, new = {s}, Cardinality(Live(c)) < MaxSessions
        PROVE  IsFiniteSet(Live(c) \cup new) /\ Cardinality(Live(c) \cup new) <= MaxSessions
    <3>1. /\ IsFiniteSet(Live(c) \cup {s})
          /\ Cardinality(Live(c) \cup {s}) \in {Cardinality(Live(c)), Cardinality(Live(c)) + 1}
      BY <1>2, FS_AddElement
    <3> QED
      BY <1>2, <2>2, <3>1, AcpConnectionAssumption
  <2> QED
    BY <2>1, <2>2
<1>4. /\ sessions' = [sessions EXCEPT ![c] = Live(c) \cup new]
      /\ stale' = [stale EXCEPT ![c] = {}] /\ issued' = issued \cup new
  BY DEF EvictAnd
<1>5. sessions' \in [Conn -> SUBSET issued']
  BY <1>1, <1>4
<1> QED
  BY <1>3, <1>4, <1>5

(* No connection has more sessions than its cap.                             *)
LEMMA CapStep == CapInv /\ [Next]_vars => CapInv'
<1> SUFFICES ASSUME CapInv, [Next]_vars PROVE CapInv'
  OBVIOUS
<1> USE DEF CapInv
<1>1. ASSUME UNCHANGED adapterVars PROVE CapInv'
  BY <1>1 DEF adapterVars
<1>2. ASSUME NEW c \in Conn, Close(c) PROVE CapInv'
  BY <1>2, FS_EmptySet, AcpConnectionAssumption DEF Close
<1>3. ASSUME NEW c \in Conn, Handshake(c) \/ RelayFails(c) \/ ReadEnds(c) PROVE CapInv'
  BY <1>1, <1>2, <1>3 DEF Handshake, RelayFails, ReadEnds
<1>4. ASSUME NEW c \in Conn, CardFetched(c) \/ ReplyWhole(c) \/ ReplyDropped(c) \/ ReplyStream(c)
                            \/ ResponseEnds(c) \/ Convert(c) \/ ConverterEnds(c) \/ Relay(c)
                            \/ RelayEnds(c) \/ Reject(c) \/ Initialize(c) \/ Cancel(c) \/ Arrive(c)
      PROVE  CapInv'
  BY <1>1, <1>4 DEF CardFetched, ReplyWhole, ReplyDropped, ReplyStream, ResponseEnds, Convert,
     ConverterEnds, Relay, RelayEnds, Reject, Initialize, Cancel, Arrive
<1>5. ASSUME NEW c \in Conn, Cancelled(c) PROVE CapInv'
  <2>1. PICK s \in Session : DropSession(c, s)
    BY <1>5 DEF Cancelled
  <2>2. IsFiniteSet(sessions[c] \ {s}) /\ Cardinality(sessions[c] \ {s}) <= Cardinality(sessions[c])
    BY FS_Subset
  <2>3. Cardinality(sessions[c] \ {s}) \in Nat /\ Cardinality(sessions[c]) \in Nat
    BY <2>2, FS_CardinalityType
  <2>4. Cardinality(sessions[c] \ {s}) <= MaxSessions
    BY <2>2, <2>3, AcpConnectionAssumption
  <2> QED
    BY <2>1, <2>2, <2>4 DEF DropSession
<1>6. ASSUME NEW c \in Conn, NewSession(c) PROVE CapInv'
  <2>1. CASE EvictAnd(c, {}, {})
    BY <2>1, EvictCap
  <2>2. ASSUME NEW s \in Session, Register(c, s), ~(Cardinality(Live(c)) >= MaxSessions)
        PROVE  CapInv'
    <3>1. Live(c) \in SUBSET sessions[c] /\ IsFiniteSet(sessions[c])
      BY DEF Live
    <3>2. Cardinality(Live(c)) \in Nat
      BY <3>1, FS_Subset, FS_CardinalityType
    <3>3. Cardinality(Live(c)) < MaxSessions
      BY <2>2, <3>2, AcpConnectionAssumption
    <3> QED
      BY <2>2, <3>3, EvictCap DEF Register
  <2> QED
    BY <1>6, <2>1, <2>2 DEF NewSession
<1>7. ASSUME NEW c \in Conn, Prompt(c) PROVE CapInv'
  BY <1>7, EvictCap DEF Prompt
<1>8. ASSUME NEW c \in Conn, Expire(c) PROVE CapInv'
  BY <1>8 DEF Expire, Live
<1>9. CASE UNCHANGED vars
  BY <1>1, <1>9 DEF vars
<1> QED
  BY <1>3, <1>4, <1>5, <1>6, <1>7, <1>8, <1>9 DEF Next, Step, Environment

(* TypeOK, and with it the cap on the sessions of a connection, through      *)
(* expiry, cancels of any id and the end of the connection.                  *)
THEOREM TypeCorrect == Spec => []TypeOK
<1> DEFINE AllInv == TalkInv /\ ChannelInv /\ CapInv /\ LeaseInv /\ SlotInv
<1>1. Init => AllInv
  <2> SUFFICES ASSUME Init PROVE AllInv
    OBVIOUS
  <2>1. TalkInv
    BY AcpConnectionAssumption DEF Init, TalkInv, Places
  <2>2. ChannelInv
    BY AcpConnectionAssumption DEF Init, ChannelInv
  <2>3. CapInv
    BY FS_EmptySet, AcpConnectionAssumption DEF Init, CapInv
  <2>4. LeaseInv
    BY DEF Init, LeaseInv, LeasesAreSessions
  <2>5. SlotInv
    BY SlotInit
  <2> QED
    BY <2>1, <2>2, <2>3, <2>4, <2>5
<1>2. AllInv /\ [Next]_vars => AllInv'
  BY TalkStep, ChannelStep, CapStep, LeaseStep, SlotStep
<1>3. AllInv => TypeOK
  BY DEF TalkInv, ChannelInv, CapInv, LeaseInv, SlotInv, TypeOK, Places
<1> QED
  BY <1>1, <1>2, <1>3, PTL DEF Spec
(* The same by index.                                                        *)
LEMMA SplitSeq ==
  ASSUME NEW S, NEW s \in Seq(S), s # <<>>
  PROVE  /\ Head(s) = s[1] /\ s[1] \in S /\ Len(s) \in Nat \ {0}
         /\ Len(Tail(s)) = Len(s) - 1 /\ (Tail(s) = <<>> <=> Len(s) = 1)
         /\ \A i \in 1 .. Len(s) - 1 : Tail(s)[i] = s[i + 1]
<1>1. Len(s) \in Nat \ {0} /\ s[1] \in S /\ Head(s) = s[1]
  OBVIOUS
<1>2. /\ Len(Tail(s)) = Len(s) - 1
      /\ \A i \in 1 .. Len(s) - 1 : Tail(s)[i] = s[i + 1]
  BY <1>1
<1>3. Tail(s) = <<>> <=> Len(s) = 1
  <2>1. \A t \in Seq(S) : t = <<>> <=> Len(t) = 0
    OBVIOUS
  <2>2. Tail(s) \in Seq(S)
    OBVIOUS
  <2>3. Tail(s) = <<>> <=> Len(Tail(s)) = 0
    BY <2>1, <2>2, Zenon
  <2>4. Len(Tail(s)) = 0 <=> Len(s) = 1
    BY <1>1, <1>2
  <2> QED
    BY <2>3, <2>4, Zenon
<1> QED
  BY <1>1, <1>2, <1>3

-----------------------------------------------------------------------------
(* The transcript                                                            *)

InOrder(c) == \A i, j \in DOMAIN lines[c] : i < j =>
  \/ lines[c][i].of < lines[c][j].of
  \/ lines[c][i].of = lines[c][j].of /\ lines[c][i].n < lines[c][j].n

Replied(c, k) ==
  IF k \in notes[c] THEN Of(c, k) = {}
  ELSE IF k \in streamed[c] THEN \A i \in Of(c, k) : lines[c][i].says = "update"
  ELSE \E i \in DOMAIN lines[c] : Of(c, k) = {i} /\ lines[c][i].says = "answer"

(* What is written belongs to lines read; nothing is written for the current *)
(* one but by the step that answers it, or by a stream.                      *)
SocketOf(c) ==
  /\ \A i \in DOMAIN lines[c] : lines[c][i].of \in 1 .. cur[c]
  /\ InOrder(c)
  /\ \A k \in Handled(c) : Replied(c, k)
  /\ pc[c] \in {"handshake", "closed"} => cur[c] = 0
  /\ pc[c] \in {"card", "sent", "cancelling"} =>
       cur[c] > 0 /\ Of(c, cur[c]) = {} /\ cur[c] \notin streamed[c]
  /\ pc[c] = "relay" => /\ cur[c] \in streamed[c] \ notes[c]
                        /\ \A i \in Of(c, cur[c]) : lines[c][i].says = "update"

SocketInv == \A c \in Conn : SocketOf(c)

(* The lines up to the one before the current are done with.                 *)
Ready(c) ==
  /\ cur'[c] \in Nat /\ cur'[c] \notin streamed'[c]
  /\ \A i \in DOMAIN lines[c] : lines[c][i].of \in 1 .. cur'[c] - 1
  /\ InOrder(c)
  /\ \A k \in 1 .. cur'[c] - 1 :
       Replied(c, k) /\ (k \in notes'[c] <=> k \in notes[c]) /\ (k \in streamed'[c] <=> k \in streamed[c])

(* A connection nothing happens to                                           *)
LEMMA SocketStays ==
  ASSUME NEW c \in Conn, SocketOf(c), pc'[c] = pc[c], cur'[c] = cur[c], notes'[c] = notes[c],
         streamed'[c] = streamed[c], lines'[c] = lines[c]
  PROVE  SocketOf(c)'
BY DEF SocketOf, InOrder, Handled, Replied, Of

(* One more line in the socket, for the current line of the client, and not  *)
(* before what is there for it.                                              *)
LEMMA LineAdded ==
  ASSUME TalkInv, NEW c \in Conn, NEW line \in Line, lines'[c] = Append(lines[c], line),
         InOrder(c), \A i \in DOMAIN lines[c] : lines[c][i].of \in 1 .. line.of,
         \A i \in Of(c, line.of) : lines[c][i].n < line.n
  PROVE  /\ InOrder(c)'
         /\ \A k \in 1 .. line.of - 1 : Of(c, k)' = Of(c, k)
         /\ Of(c, line.of)' = Of(c, line.of) \cup {Len(lines[c]) + 1}
         /\ DOMAIN lines'[c] = DOMAIN lines[c] \cup {Len(lines[c]) + 1}
         /\ \A i \in DOMAIN lines[c] : lines'[c][i] = lines[c][i]
         /\ lines'[c][Len(lines[c]) + 1] = line
<1>1. lines[c] \in Seq(Line) /\ Len(lines[c]) \in Nat /\ DOMAIN lines[c] = 1 .. Len(lines[c])
  BY DEF TalkInv
<1>2. /\ DOMAIN lines'[c] = DOMAIN lines[c] \cup {Len(lines[c]) + 1}
      /\ \A i \in DOMAIN lines[c] : lines'[c][i] = lines[c][i] /\ i < Len(lines[c]) + 1
      /\ lines'[c][Len(lines[c]) + 1] = line
  BY <1>1
<1>3. \A k : Of(c, k)' = {i \in DOMAIN lines[c] : lines[c][i].of = k}
                           \cup IF line.of = k THEN {Len(lines[c]) + 1} ELSE {}
  BY <1>1, <1>2 DEF Of
<1>4. line.of \in Nat
  BY DEF Line
<1>5. InOrder(c)'
  <2> SUFFICES ASSUME NEW i \in DOMAIN lines'[c], NEW j \in DOMAIN lines'[c], i < j
               PROVE  \/ lines'[c][i].of < lines'[c][j].of
                      \/ lines'[c][i].of = lines'[c][j].of /\ lines'[c][i].n < lines'[c][j].n
    BY DEF InOrder
  <2>1. i \in DOMAIN lines[c] /\ lines'[c][i] = lines[c][i]
    BY <1>1, <1>2
  <2>2. CASE j \in DOMAIN lines[c]
    BY <1>2, <2>1, <2>2 DEF InOrder
  <2>3. CASE j = Len(lines[c]) + 1
    BY <1>2, <1>4, <2>1, <2>3 DEF Of
  <2> QED
    BY <1>2, <2>2, <2>3
<1> QED
  BY <1>2, <1>3, <1>4, <1>5 DEF Of

(* The current line is answered, or is a notification.                       *)
LEMMA AnswerSocket ==
  ASSUME TalkInv, NEW c \in Conn, Ready(c), cur'[c] > 0, Answer(c)
  PROVE  SocketOf(c)'
<1> PICK line : line = [of |-> cur'[c], says |-> "answer", n |-> 0]
  OBVIOUS
<1>0. pc'[c] = "read" /\ cur'[c] \in Nat
  BY DEF Answer, Goto, TalkInv, Ready
<1>1. CASE cur'[c] \in notes'[c]
  <2>1. lines'[c] = lines[c]
    BY <1>1 DEF Answer
  <2>2. Of(c, cur[c])' = {} /\ \A k : Of(c, k)' = Of(c, k)
    BY <1>0, <2>1 DEF Of, Ready
  <2>3. \A k \in 1 .. cur'[c] : Replied(c, k)'
    <3> SUFFICES ASSUME NEW k \in 1 .. cur'[c] PROVE Replied(c, k)'
      OBVIOUS
    <3>1. CASE k = cur'[c]
      BY <1>1, <2>2, <3>1 DEF Replied
    <3>2. CASE k \in 1 .. cur'[c] - 1
      BY <2>1, <2>2, <3>2 DEF Replied, Ready
    <3> QED
      BY <1>0, <3>1, <3>2
  <2> QED
    BY <1>0, <2>1, <2>3 DEF SocketOf, Ready, InOrder, Handled
<1>2. CASE cur'[c] \notin notes'[c]
  <2>1. lines'[c] = Append(lines[c], line)
    BY <1>2 DEF Answer, Write, TalkInv
  <2>2. line \in Line /\ line.of = cur'[c]
    BY <1>0, AcpConnectionAssumption DEF Line
  <2>3. Of(c, cur'[c]) = {} /\ \A i \in DOMAIN lines[c] : lines[c][i].of \in 1 .. cur'[c]
    BY <1>0 DEF Of, Ready
  <2>4. /\ InOrder(c)'
        /\ \A k \in 1 .. cur'[c] - 1 : Of(c, k)' = Of(c, k)
        /\ Of(c, cur[c])' = {Len(lines[c]) + 1}
        /\ DOMAIN lines'[c] = DOMAIN lines[c] \cup {Len(lines[c]) + 1}
        /\ \A i \in DOMAIN lines[c] : lines'[c][i] = lines[c][i]
        /\ lines'[c][Len(lines[c]) + 1] = line
    <3>1. \A i \in Of(c, line.of) : lines[c][i].n < line.n
      BY <2>2, <2>3
    <3>2. /\ Of(c, line.of)' = Of(c, line.of) \cup {Len(lines[c]) + 1}
          /\ InOrder(c)' /\ \A k \in 1 .. line.of - 1 : Of(c, k)' = Of(c, k)
          /\ DOMAIN lines'[c] = DOMAIN lines[c] \cup {Len(lines[c]) + 1}
          /\ \A i \in DOMAIN lines[c] : lines'[c][i] = lines[c][i]
          /\ lines'[c][Len(lines[c]) + 1] = line
      BY <2>1, <2>2, <2>3, <3>1, LineAdded DEF Ready
    <3>3. Of(c, cur[c])' = Of(c, line.of) \cup {Len(lines[c]) + 1}
      BY <2>2, <3>2 DEF Of
    <3> QED
      BY <2>2, <2>3, <3>2, <3>3
  <2>5. \A k \in 1 .. cur'[c] : Replied(c, k)'
    <3> SUFFICES ASSUME NEW k \in 1 .. cur'[c] PROVE Replied(c, k)'
      OBVIOUS
    <3>1. CASE k = cur'[c]
      BY <1>2, <2>4, <3>1 DEF Replied, Ready
    <3>2. CASE k \in 1 .. cur'[c] - 1
      BY <2>4, <3>2 DEF Replied, Ready, Of
    <3> QED
      BY <1>0, <3>1, <3>2
  <2>6. \A i \in DOMAIN lines'[c] : lines'[c][i].of \in 1 .. cur'[c]
    BY <1>0, <2>3, <2>4
  <2> QED
    BY <1>0, <2>4, <2>5, <2>6 DEF SocketOf, Handled
<1> QED
  BY <1>1, <1>2

(* The line that is read is the current one.                                 *)
LEMMA ReadReady ==
  ASSUME TalkInv, NEW c \in Conn, SocketOf(c), NEW isNote \in BOOLEAN, Read(c, isNote)
  PROVE  Ready(c) /\ cur'[c] > 0
<1>1. /\ pc[c] = "read" /\ cur'[c] = cur[c] + 1 /\ cur[c] \in Nat /\ streamed'[c] = streamed[c]
      /\ \A k \in 1 .. cur[c] : k \in notes'[c] <=> k \in notes[c]
  BY DEF Read, TalkInv
<1>2. cur'[c] \notin streamed'[c] /\ cur'[c] - 1 = cur[c] /\ Handled(c) = 1 .. cur[c]
  BY <1>1 DEF TalkInv, Handled
<1> QED
  BY <1>1, <1>2 DEF SocketOf, Ready

(* What was read before a wait has not been answered.                        *)
LEMMA WaitReady ==
  ASSUME TalkInv, NEW c \in Conn, SocketOf(c), pc[c] \in {"card", "sent", "cancelling"},
         UNCHANGED <<cur, notes, streamed>>
  PROVE  Ready(c)
<1>1. cur[c] \in Nat /\ cur[c] \notin streamed[c] /\ Handled(c) = 1 .. cur[c] - 1
  BY DEF SocketOf, TalkInv, Handled
<1>2. \A i \in DOMAIN lines[c] : lines[c][i].of \in 1 .. cur[c] - 1
  BY <1>1 DEF SocketOf, Of
<1> QED
  BY <1>1, <1>2 DEF SocketOf, Ready

(* A wait begins.                                                            *)
LEMMA WaitSocket ==
  ASSUME TalkInv, NEW c \in Conn, Ready(c), cur'[c] > 0, NEW place \in {"card", "sent", "cancelling"},
         Goto(c, place), UNCHANGED lines
  PROVE  SocketOf(c)'
<1>1. pc'[c] = place /\ cur'[c] \in Nat /\ Handled(c)' = 1 .. cur'[c] - 1
  BY DEF Goto, TalkInv, Ready, Handled
<1>2. \A k : Of(c, k)' = Of(c, k)
  BY DEF Of
<1>3. Of(c, cur[c])' = {}
  BY <1>1 DEF Of, Ready
<1>4. \A k \in 1 .. cur'[c] - 1 : Replied(c, k)'
  BY <1>2 DEF Replied, Ready
<1> QED
  BY <1>1, <1>3, <1>4 DEF SocketOf, Ready, InOrder

(* A connection is closed, and its socket with it.                           *)
LEMMA CloseSocket ==
  ASSUME TalkInv, NEW c \in Conn, Close(c)
  PROVE  SocketOf(c)'
BY DEF Close, Goto, TalkInv, SocketOf, InOrder, Handled

(* A stream begins, ...                                                      *)
LEMMA StreamBegins ==
  ASSUME TalkInv, NEW c \in Conn, SocketOf(c), ReplyStream(c)
  PROVE  SocketOf(c)' /\ Chunks(c, cur[c])' = {}
<1>1. /\ pc[c] = "sent" /\ cur[c] \notin notes[c] /\ pc'[c] = "relay" /\ cur[c] \in Nat
      /\ streamed'[c] = streamed[c] \cup {cur[c]}
      /\ UNCHANGED <<cur, notes, lines>>
  BY DEF ReplyStream, Goto, TalkInv
<1>2. /\ \A k : Of(c, k)' = Of(c, k)
      /\ Of(c, cur[c]) = {} /\ Handled(c)' = 1 .. cur[c] - 1 /\ Handled(c) = 1 .. cur[c] - 1
  BY <1>1 DEF Of, SocketOf, Handled
<1>3. \A k \in 1 .. cur[c] - 1 : Replied(c, k) => Replied(c, k)'
  BY <1>1, <1>2 DEF Replied
<1>4. Of(c, cur[c])' = {}
  BY <1>1, <1>2
<1> QED
  BY <1>1, <1>2, <1>3, <1>4 DEF SocketOf, InOrder, Chunks

(* ... an update of it is written, after all there are of it, ...            *)
LEMMA StreamWrites ==
  ASSUME TalkInv, ChannelInv, NEW c \in Conn, SocketOf(c), Relay(c),
         \A i \in Of(c, cur[c]) : lines[c][i].n < updates[c][1]
  PROVE  SocketOf(c)' /\ Chunks(c, cur[c])' = Chunks(c, cur[c]) \cup {updates[c][1]}
<1> PICK line : line = [of |-> cur[c], says |-> "update", n |-> updates[c][1]]
  OBVIOUS
<1>1. /\ pc[c] = "relay" /\ lines'[c] = Append(lines[c], line)
      /\ UNCHANGED <<pc, cur, notes, streamed>> /\ cur[c] \in Nat
      /\ updates[c][1] \in 1 .. MaxChunks + 1
  <2>1. updates[c] # <<>> /\ updates[c] \in Seq(1 .. MaxChunks + 1)
    BY DEF Relay, ChannelInv
  <2>2. Head(updates[c]) = updates[c][1] /\ updates[c][1] \in 1 .. MaxChunks + 1
    BY <2>1, SplitSeq
  <2> QED
    BY <2>2 DEF Relay, Write, TalkInv
<1>2. line \in Line /\ line.of = cur[c] /\ line.n = updates[c][1] /\ line.says = "update"
  BY <1>1, AcpConnectionAssumption DEF Line
<1>3. /\ InOrder(c)'
      /\ \A k \in 1 .. line.of - 1 : Of(c, k)' = Of(c, k)
      /\ Of(c, line.of)' = Of(c, line.of) \cup {Len(lines[c]) + 1}
      /\ DOMAIN lines'[c] = DOMAIN lines[c] \cup {Len(lines[c]) + 1}
      /\ \A i \in DOMAIN lines[c] : lines'[c][i] = lines[c][i]
      /\ lines'[c][Len(lines[c]) + 1] = line
  BY <1>1, <1>2, LineAdded DEF SocketOf
<1>4. Of(c, cur[c])' = Of(c, cur[c]) \cup {Len(lines[c]) + 1}
  BY <1>1, <1>2, <1>3 DEF Of
<1>5. \A k \in 1 .. cur[c] - 1 : Replied(c, k)'
  <2> SUFFICES ASSUME NEW k \in 1 .. cur[c] - 1 PROVE Replied(c, k)'
    OBVIOUS
  <2>1. Replied(c, k)
    BY <1>1 DEF SocketOf, Handled
  <2>2. PICK before : before = Of(c, k)
    OBVIOUS
  <2>3. Of(c, k)' = before /\ before \subseteq DOMAIN lines[c] /\ DOMAIN lines[c] \subseteq DOMAIN lines'[c]
    BY <1>2, <1>3, <2>2 DEF Of
  <2>4. \A i \in before : lines'[c][i] = lines[c][i]
    BY <1>3, <2>3
  <2> QED
    BY <1>1, <2>1, <2>2, <2>3, <2>4 DEF Replied
<1>6. \A i \in Of(c, cur[c])' : lines'[c][i].says = "update"
  BY <1>1, <1>2, <1>3, <1>4 DEF SocketOf, Of
<1>7. \A i \in DOMAIN lines'[c] : lines'[c][i].of \in 1 .. cur'[c]
  BY <1>1, <1>2, <1>3 DEF SocketOf, TalkInv
<1>8. Handled(c)' = 1 .. cur[c] - 1
  BY <1>1 DEF Handled
<1>9. Chunks(c, cur[c])' = Chunks(c, cur[c]) \cup {updates[c][1]}
  BY <1>1, <1>2, <1>3, <1>4 DEF Chunks, Of
<1> QED
  BY <1>1, <1>3, <1>5, <1>6, <1>7, <1>8, <1>9 DEF SocketOf

(* ... and the stream is over.                                               *)
LEMMA StreamEnds ==
  ASSUME TalkInv, NEW c \in Conn, SocketOf(c), RelayEnds(c)
  PROVE  SocketOf(c)'
<1>1. /\ pc[c] = "relay" /\ pc'[c] = "read" /\ cur[c] \in Nat
      /\ UNCHANGED <<cur, notes, lines, streamed>>
  BY DEF RelayEnds, Goto, TalkInv, histVars
<1>2. Handled(c)' = 1 .. cur[c] /\ Handled(c) = 1 .. cur[c] - 1
  BY <1>1 DEF Handled
<1>3. \A k \in 1 .. cur[c] : Replied(c, k)
  <2>1. Replied(c, cur[c])
    BY <1>1 DEF SocketOf, Replied
  <2> QED
    BY <1>1, <1>2, <2>1 DEF SocketOf
<1>4. \A k \in 1 .. cur[c] : Replied(c, k)'
  BY <1>1, <1>3 DEF Replied, Of
<1> QED
  BY <1>1, <1>2, <1>4 DEF SocketOf, InOrder
-----------------------------------------------------------------------------
(* What flows to the socket                                                  *)

Following(event) == IF event.kind = "chunk" THEN event.n + 1 ELSE event.n

(* The events es follow the t-th chunk, and m chunks have been sent before   *)
(* the terminal event, which has been sent if f.                             *)
Consecutive(es, t, m, f) ==
  /\ es = <<>> => ~f /\ m = t
  /\ es # <<>> => es[1].n = t + 1
  /\ \A j \in 1 .. Len(es) - 1 :
       (\A k \in 1 .. j : es[k].kind # "final") => es[j + 1].n = Following(es[j])
  /\ ~f => /\ \A k \in 1 .. Len(es) : es[k].kind # "final"
           /\ es # <<>> => Following(es[Len(es)]) = m + 1
  /\ f => \E j \in 1 .. Len(es) : /\ es[j].kind = "final" /\ es[j].n = m + 1
                                  /\ \A k \in 1 .. j - 1 : es[k].kind # "final"

(* The updates us follow the w-th chunk.                                     *)
Counting(us, w) == \A i \in DOMAIN us : us[i] = w + i

(* w chunks are in the socket, the updates follow, and then the events.      *)
Flowing(c, w) ==
  /\ Chunks(c, cur[c]) = 1 .. w
  /\ Counting(updates[c], w)
  /\ converter[c] = "off" => emitted[c] = w + Len(updates[c])
  /\ converter[c] = "on" => Consecutive(events[c], w + Len(updates[c]), emitted[c], final[c])

FlowOf(c) ==
  /\ pc[c] # "relay" => sse[c] = "ended" /\ converter[c] = "off"
  /\ pc[c] = "relay" => \E w \in Nat : Flowing(c, w)
  /\ pc[c] = "read" /\ cur[c] \in streamed[c] => Chunks(c, cur[c]) = 1 .. emitted[c]

FlowInv == \A c \in Conn : FlowOf(c)

(* No update yet                                                             *)
LEMMA CountingNone ==
  Counting(<<>>, 0) /\ 0 + Len(<<>>) = 0 /\ {} = 1 .. 0 /\ Consecutive(<<>>, 0, 0, FALSE)
BY DEF Counting, Consecutive

(* One more update, after all that are there                                 *)
LEMMA CountingAppend ==
  ASSUME NEW S, NEW us \in Seq(S), NEW w \in Nat, Counting(us, w), NEW n \in S, n = w + Len(us) + 1
  PROVE  Counting(Append(us, n), w) /\ w + Len(Append(us, n)) = n
<1>1. /\ Len(us) \in Nat /\ DOMAIN us = 1 .. Len(us)
      /\ Len(Append(us, n)) = Len(us) + 1 /\ DOMAIN Append(us, n) = 1 .. Len(us) + 1
      /\ \A i \in 1 .. Len(us) : Append(us, n)[i] = us[i]
      /\ Append(us, n)[Len(us) + 1] = n
  OBVIOUS
<1> QED
  BY <1>1 DEF Counting

(* One update less, which is the next chunk                                  *)
LEMMA CountingTail ==
  ASSUME NEW S, NEW us \in Seq(S), us # <<>>, NEW w \in Nat, Counting(us, w)
  PROVE  /\ us[1] = w + 1 /\ Counting(Tail(us), w + 1)
         /\ (w + 1) + Len(Tail(us)) = w + Len(us)
<1>1. /\ Len(us) \in Nat \ {0} /\ DOMAIN us = 1 .. Len(us)
      /\ Len(Tail(us)) = Len(us) - 1 /\ DOMAIN Tail(us) = 1 .. Len(us) - 1
      /\ \A i \in 1 .. Len(us) - 1 : Tail(us)[i] = us[i + 1]
  BY SplitSeq
<1>2. us[1] = w + 1
  BY <1>1 DEF Counting
<1>3. ASSUME NEW i \in 1 .. Len(us) - 1 PROVE Tail(us)[i] = (w + 1) + i
  <2>1. i + 1 \in DOMAIN us /\ Tail(us)[i] = us[i + 1]
    BY <1>1
  <2>2. us[i + 1] = w + (i + 1)
    BY <2>1 DEF Counting
  <2> QED
    BY <2>1, <2>2
<1> QED
  BY <1>1, <1>2, <1>3 DEF Counting

(* One more event, which may come after the terminal one.                    *)
LEMMA EventArrives ==
  ASSUME NEW es \in Seq(Event), NEW t \in Nat, NEW m \in Nat, NEW f \in BOOLEAN,
         Consecutive(es, t, m, f), NEW kind \in {"chunk", "status", "final"},
         kind # "chunk" => ~f
  PROVE  Consecutive(Append(es, [kind |-> kind, n |-> m + 1]), t,
                     IF kind = "chunk" /\ ~f THEN m + 1 ELSE m, f \/ kind = "final")
<1> DEFINE e == [kind |-> kind, n |-> m + 1]
           m2 == IF kind = "chunk" /\ ~f THEN m + 1 ELSE m
<1> PICK fs : fs = Append(es, e)
  OBVIOUS
<1>1. /\ Len(es) \in Nat /\ Len(fs) = Len(es) + 1 /\ fs # <<>>
      /\ \A i \in 1 .. Len(es) : fs[i] = es[i]
      /\ fs[Len(es) + 1] = e
  BY DEF Event
<1>2. e.kind = kind /\ e.n = m + 1
  OBVIOUS
<1> HIDE DEF e
<1>3. fs[1].n = t + 1
  <2>1. CASE es = <<>>
    BY <1>1, <1>2, <2>1 DEF Consecutive
  <2>2. CASE es # <<>>
    BY <1>1, <2>2 DEF Consecutive
  <2> QED
    BY <2>1, <2>2
<1>4. ASSUME NEW j \in 1 .. Len(fs) - 1, \A k \in 1 .. j : fs[k].kind # "final"
      PROVE  fs[j + 1].n = Following(fs[j])
  <2>1. CASE j < Len(es)
    <3>1. j \in 1 .. Len(es) - 1 /\ j + 1 \in 1 .. Len(es) /\ \A k \in 1 .. j : es[k].kind # "final"
      BY <1>1, <1>4, <2>1
    <3> QED
      BY <1>1, <3>1 DEF Consecutive, Following
  <2>2. CASE j = Len(es)
    <3>1. es # <<>> /\ \A k \in 1 .. Len(es) : es[k].kind # "final"
      BY <1>1, <1>4, <2>2
    <3>2. ~f
      BY <1>1, <3>1 DEF Consecutive
    <3> QED
      BY <1>1, <1>2, <2>2, <3>1, <3>2 DEF Consecutive, Following
  <2> QED
    BY <1>1, <1>4, <2>1, <2>2
<1>5. ASSUME ~f, kind # "final"
      PROVE  (\A k \in 1 .. Len(fs) : fs[k].kind # "final") /\ Following(fs[Len(fs)]) = m2 + 1
  BY <1>1, <1>2, <1>5 DEF Consecutive, Following
<1>6. ASSUME f \/ kind = "final"
      PROVE  \E j \in 1 .. Len(fs) : /\ fs[j].kind = "final" /\ fs[j].n = m2 + 1
                                     /\ \A k \in 1 .. j - 1 : fs[k].kind # "final"
  <2>1. CASE f
    <3>1. PICK j \in 1 .. Len(es) : /\ es[j].kind = "final" /\ es[j].n = m + 1
                                    /\ \A k \in 1 .. j - 1 : es[k].kind # "final"
      BY <2>1 DEF Consecutive
    <3>2. j \in 1 .. Len(fs) /\ \A k \in 1 .. j : fs[k] = es[k]
      BY <1>1
    <3> QED
      BY <2>1, <3>1, <3>2
  <2>2. CASE ~f
    <3>1. \A k \in 1 .. Len(es) : fs[k].kind # "final"
      BY <1>1, <2>2 DEF Consecutive
    <3> QED
      BY <1>1, <1>2, <1>6, <2>2, <3>1
  <2> QED
    BY <2>1, <2>2
<1> QED
  BY <1>1, <1>3, <1>4, <1>5, <1>6 DEF Consecutive, e

(* An event is taken: what follows it, or all there was to say.              *)
LEMMA EventTaken ==
  ASSUME NEW es \in Seq(Event), es # <<>>, NEW t \in Nat, NEW m \in Nat, NEW f \in BOOLEAN,
         Consecutive(es, t, m, f)
  PROVE  /\ Head(es).kind = "chunk" => Head(es).n = t + 1 /\ Consecutive(Tail(es), t + 1, m, f)
         /\ Head(es).kind = "status" => Consecutive(Tail(es), t, m, f)
         /\ Head(es).kind = "final" => m = t
<1>1. /\ Head(es) = es[1] /\ es[1].n = t + 1 /\ es[1] \in Event /\ Len(es) \in Nat \ {0}
      /\ Len(Tail(es)) = Len(es) - 1 /\ (Tail(es) = <<>> <=> Len(es) = 1)
      /\ \A i \in 1 .. Len(es) - 1 : Tail(es)[i] = es[i + 1]
  BY SplitSeq DEF Consecutive
<1>2. CASE es[1].kind = "final"
  <2>1. f
    BY <1>1, <1>2 DEF Consecutive
  <2>2. PICK j \in 1 .. Len(es) : /\ es[j].kind = "final" /\ es[j].n = m + 1
                                  /\ \A k \in 1 .. j - 1 : es[k].kind # "final"
    BY <2>1 DEF Consecutive
  <2>3. j = 1
    BY <1>1, <1>2, <2>2
  <2> QED
    BY <1>1, <1>2, <2>2, <2>3
<1>3. ASSUME es[1].kind # "final", NEW u \in Nat, u + 1 = Following(es[1])
      PROVE  Consecutive(Tail(es), u, m, f)
  <2> PICK ts : ts = Tail(es)
    OBVIOUS
  <2>1. ts = <<>> => ~f /\ m = u
    <3>1. CASE f
      <4>1. PICK j \in 1 .. Len(es) : es[j].kind = "final"
        BY <3>1 DEF Consecutive
      <4> QED
        BY <1>1, <1>3, <4>1
    <3>2. CASE ~f
      BY <1>1, <1>3, <3>2 DEF Consecutive
    <3> QED
      BY <3>1, <3>2
  <2>2. ts # <<>> => ts[1].n = u + 1
    <3> SUFFICES ASSUME ts # <<>> PROVE ts[1].n = u + 1
      OBVIOUS
    <3>1. 1 \in 1 .. Len(es) - 1 /\ ts[1] = es[1 + 1]
      BY <1>1
    <3>2. es[1 + 1].n = Following(es[1])
      BY <1>3, <3>1 DEF Consecutive
    <3> QED
      BY <1>3, <3>1, <3>2
  <2>3. ASSUME NEW j \in 1 .. Len(ts) - 1, \A k \in 1 .. j : ts[k].kind # "final"
        PROVE  ts[j + 1].n = Following(ts[j])
    <3>1. /\ j + 1 \in 1 .. Len(es) - 1 /\ ts[j] = es[j + 1] /\ ts[j + 1] = es[(j + 1) + 1]
      BY <1>1
    <3>2. \A k \in 1 .. j + 1 : es[k].kind # "final"
      <4> SUFFICES ASSUME NEW k \in 1 .. j + 1 PROVE es[k].kind # "final"
        OBVIOUS
      <4>1. CASE k = 1
        BY <1>3, <4>1
      <4>2. CASE k # 1
        <5>1. k - 1 \in 1 .. j /\ ts[k - 1] = es[(k - 1) + 1] /\ (k - 1) + 1 = k
          BY <1>1, <4>2
        <5> QED
          BY <2>3, <5>1
      <4> QED
        BY <4>1, <4>2
    <3> QED
      BY <3>1, <3>2 DEF Consecutive
  <2>4. ASSUME ~f
        PROVE  /\ \A k \in 1 .. Len(ts) : ts[k].kind # "final"
               /\ ts # <<>> => Following(ts[Len(ts)]) = m + 1
    <3>1. /\ \A k \in 1 .. Len(es) : es[k].kind # "final"
          /\ Following(es[Len(es)]) = m + 1
      BY <1>1, <2>4 DEF Consecutive
    <3>2. ts # <<>> => ts[Len(ts)] = es[Len(es)]
      BY <1>1
    <3> QED
      BY <1>1, <3>1, <3>2
  <2>5. ASSUME f
        PROVE  \E j \in 1 .. Len(ts) : /\ ts[j].kind = "final" /\ ts[j].n = m + 1
                                       /\ \A k \in 1 .. j - 1 : ts[k].kind # "final"
    <3>1. PICK j \in 1 .. Len(es) : /\ es[j].kind = "final" /\ es[j].n = m + 1
                                    /\ \A k \in 1 .. j - 1 : es[k].kind # "final"
      BY <2>5 DEF Consecutive
    <3>2. j # 1 /\ j - 1 \in 1 .. Len(ts) /\ ts[j - 1] = es[(j - 1) + 1] /\ (j - 1) + 1 = j
      BY <1>1, <1>3, <3>1
    <3>3. \A k \in 1 .. (j - 1) - 1 : ts[k].kind # "final"
      BY <1>1, <3>1, <3>2
    <3> QED
      BY <3>1, <3>2, <3>3
  <2> QED
    BY <2>1, <2>2, <2>3, <2>4, <2>5 DEF Consecutive
<1> QED
  BY <1>1, <1>2, <1>3 DEF Following

(* A step is one connection's.                                               *)
Same(d) ==
  /\ pc'[d] = pc[d] /\ cur'[d] = cur[d] /\ notes'[d] = notes[d] /\ streamed'[d] = streamed[d]
  /\ lines'[d] = lines[d] /\ sse'[d] = sse[d] /\ events'[d] = events[d] /\ final'[d] = final[d]
  /\ converter'[d] = converter[d] /\ updates'[d] = updates[d] /\ emitted'[d] = emitted[d]

(* The other connections have no part in it.                                 *)
LEMMA OthersStay ==
  ASSUME TalkInv, ChannelInv, NEW c \in Conn, Step(c) \/ Environment(c), NEW d \in Conn \ {c}
  PROVE  Same(d)
<1> USE DEF Same, streamVars, histVars
<1>1. ASSUME Close(c) PROVE /\ pc'[d] = pc[d] /\ cur'[d] = cur[d] /\ notes'[d] = notes[d]
                            /\ streamed'[d] = streamed[d] /\ lines'[d] = lines[d]
                            /\ emitted'[d] = emitted[d]
  BY <1>1 DEF Close, Goto, TalkInv, ChannelInv
<1>2. ASSUME StreamOver(c)
      PROVE  /\ sse'[d] = sse[d] /\ events'[d] = events[d] /\ final'[d] = final[d]
             /\ converter'[d] = converter[d] /\ updates'[d] = updates[d]
  BY <1>2 DEF StreamOver, ChannelInv
<1>3. ASSUME Answer(c) PROVE pc'[d] = pc[d] /\ lines'[d] = lines[d]
  BY <1>3 DEF Answer, Goto, Write, TalkInv
<1>4. ASSUME NEW place, Goto(c, place) PROVE pc'[d] = pc[d]
  BY <1>4 DEF Goto, TalkInv
<1>5. ASSUME NEW isNote \in BOOLEAN, Read(c, isNote)
      PROVE  /\ cur'[d] = cur[d] /\ notes'[d] = notes[d] /\ emitted'[d] = emitted[d]
             /\ UNCHANGED streamVars /\ UNCHANGED streamed
  BY <1>5 DEF Read, TalkInv, ChannelInv
<1>6. CASE Handshake(c)
  BY <1>1, <1>4, <1>6 DEF Handshake
<1>7. CASE CardFetched(c) \/ ReplyWhole(c) \/ ReplyDropped(c) \/ Cancelled(c)
  BY <1>3, <1>7 DEF CardFetched, ReplyWhole, ReplyDropped, Cancelled
<1>8. CASE ReplyStream(c)
  BY <1>4, <1>8 DEF ReplyStream, TalkInv, ChannelInv
<1>9. CASE ResponseEnds(c) \/ ConverterEnds(c)
  BY <1>9 DEF ResponseEnds, ConverterEnds, ChannelInv
<1>10. CASE Convert(c)
  BY <1>10 DEF Convert, ChannelInv
<1>11. CASE Relay(c)
  BY <1>11 DEF Relay, Write, TalkInv, ChannelInv
<1>12. CASE RelayFails(c)
  BY <1>1, <1>2, <1>12 DEF RelayFails
<1>13. CASE RelayEnds(c)
  BY <1>2, <1>4, <1>13 DEF RelayEnds
<1>14. CASE Reject(c) \/ NewSession(c)
  BY <1>3, <1>5, <1>14 DEF Reject, NewSession
<1>15. CASE Initialize(c) \/ Cancel(c)
  BY <1>4, <1>5, <1>15 DEF Initialize, Cancel
<1>16. CASE Prompt(c)
  BY <1>3, <1>4, <1>5, <1>16 DEF Prompt
<1>17. CASE ReadEnds(c)
  BY <1>1, <1>17 DEF ReadEnds
<1>18. CASE Arrive(c)
  BY <1>18 DEF Arrive, ChannelInv
<1>19. CASE Expire(c)
  BY <1>19 DEF Expire
<1> QED
  BY <1>6, <1>7, <1>8, <1>9, <1>10, <1>11, <1>12, <1>13, <1>14, <1>15, <1>16, <1>17, <1>18, <1>19
     DEF Step, Environment

(* A connection nothing happens to                                           *)
LEMMA SameKeeps ==
  ASSUME NEW d \in Conn, SocketOf(d), FlowOf(d), Same(d)
  PROVE  SocketOf(d)' /\ FlowOf(d)'
<1>1. SocketOf(d)'
  BY SocketStays DEF Same
<1>2. \A k : Of(d, k)' = Of(d, k) /\ Chunks(d, k)' = Chunks(d, k)
  BY DEF Same, Of, Chunks
<1>3. ASSUME NEW w \in Nat, Flowing(d, w) PROVE Flowing(d, w)'
  BY <1>2, <1>3 DEF Same, Flowing
<1> QED
  BY <1>1, <1>2, <1>3 DEF Same, FlowOf

(* No stream, before and after                                               *)
LEMMA NoFlow ==
  ASSUME NEW c \in Conn, FlowOf(c), pc[c] # "relay", pc'[c] # "relay", UNCHANGED streamVars,
         cur'[c] \notin streamed'[c]
  PROVE  FlowOf(c)'
BY DEF FlowOf, streamVars

(* The steps of the loop that have no part in a stream                       *)
LEMMA TalkFlow ==
  ASSUME TalkInv, NEW c \in Conn, SocketOf(c), FlowOf(c),
         \/ Handshake(c) \/ CardFetched(c) \/ ReplyWhole(c) \/ ReplyDropped(c) \/ Cancelled(c)
         \/ Reject(c) \/ Initialize(c) \/ NewSession(c) \/ Prompt(c) \/ Cancel(c) \/ ReadEnds(c)
  PROVE  SocketOf(c)' /\ FlowOf(c)'
<1>1. ASSUME Close(c), UNCHANGED streamVars, pc[c] # "relay" PROVE SocketOf(c)' /\ FlowOf(c)'
  <2>1. pc'[c] = "closed" /\ cur'[c] \notin streamed'[c]
    BY <1>1 DEF Close, Goto, TalkInv
  <2> QED
    BY <1>1, <2>1, CloseSocket, NoFlow
<1>2. CASE Handshake(c)
  <2>1. CASE Close(c)
    BY <1>1, <1>2, <2>1 DEF Handshake
  <2>2. CASE ~Close(c)
    <3>1. /\ pc[c] = "handshake" /\ pc'[c] = "read" /\ cur[c] = 0
          /\ UNCHANGED <<cur, notes, streamed, lines, streamVars>>
      BY <1>2, <2>2 DEF Handshake, Goto, TalkInv, histVars, SocketOf
    <3>2. cur[c] \notin streamed[c] /\ Handled(c)' = {}
      BY <3>1 DEF TalkInv, Handled
    <3>3. SocketOf(c)'
      BY <3>1, <3>2 DEF SocketOf, InOrder
    <3> QED
      BY <3>1, <3>2, <3>3, NoFlow
  <2> QED
    BY <2>1, <2>2
<1>3. CASE ReadEnds(c)
  BY <1>1, <1>3 DEF ReadEnds
<1>4. CASE CardFetched(c) \/ ReplyWhole(c) \/ ReplyDropped(c) \/ Cancelled(c)
  <2>1. /\ pc[c] \in {"card", "sent", "cancelling"} /\ Answer(c)
        /\ UNCHANGED <<cur, notes, streamed, streamVars>>
    BY <1>4 DEF CardFetched, ReplyWhole, ReplyDropped, Cancelled
  <2>2. Ready(c) /\ pc'[c] = "read" /\ cur'[c] > 0
    <3>1. Of(c, cur[c]) = {} /\ cur[c] \notin streamed[c]
      BY <2>1 DEF SocketOf
    <3>2. cur[c] > 0
      BY <2>1 DEF SocketOf
    <3> QED
      BY <2>1, <3>2, WaitReady DEF Answer, Goto, TalkInv
  <2> QED
    BY <2>1, <2>2, AnswerSocket, NoFlow DEF Ready
<1>5. CASE Reject(c) \/ Initialize(c) \/ NewSession(c) \/ Prompt(c) \/ Cancel(c)
  <2>1. PICK isNote \in BOOLEAN : Read(c, isNote)
    BY <1>5 DEF Reject, Initialize, NewSession, Prompt, Cancel
  <2>2. \/ Answer(c)
        \/ UNCHANGED lines /\ \E place \in {"card", "sent", "cancelling"} : Goto(c, place)
    BY <1>5 DEF Reject, Initialize, NewSession, Prompt, Cancel
  <2>3. Ready(c) /\ cur'[c] > 0 /\ pc[c] = "read" /\ UNCHANGED streamVars
    BY <2>1, ReadReady DEF Read
  <2>4. pc'[c] # "relay"
    BY <2>2 DEF Answer, Goto, TalkInv
  <2>5. SocketOf(c)'
    BY <2>2, <2>3, AnswerSocket, WaitSocket
  <2> QED
    BY <2>3, <2>4, <2>5, NoFlow DEF Ready
<1> QED
  BY <1>2, <1>3, <1>4, <1>5

(* The steps of a streamed reply                                             *)
LEMMA StreamFlow ==
  ASSUME TalkInv, ChannelInv, NEW c \in Conn, SocketOf(c), FlowOf(c),
         \/ ReplyStream(c) \/ ResponseEnds(c) \/ Convert(c) \/ ConverterEnds(c)
         \/ Relay(c) \/ RelayFails(c) \/ RelayEnds(c) \/ Arrive(c)
  PROVE  SocketOf(c)' /\ FlowOf(c)'
<1>0. /\ updates[c] \in Seq(1 .. MaxChunks + 1) /\ events[c] \in Seq(Event)
      /\ Len(updates[c]) \in Nat /\ DOMAIN updates[c] = 1 .. Len(updates[c])
      /\ emitted[c] \in Nat /\ final[c] \in BOOLEAN /\ converter[c] \in {"on", "off"}
  BY AcpConnectionAssumption DEF ChannelInv
<1>1. ASSUME UNCHANGED <<pc, cur, notes, streamed, lines>>
      PROVE  SocketOf(c)' /\ Chunks(c, cur[c])' = Chunks(c, cur[c])
  <2>1. \A k : Of(c, k)' = Of(c, k) /\ Chunks(c, k)' = Chunks(c, k)
    BY <1>1 DEF Of, Chunks
  <2> QED
    BY <1>1, <2>1, SocketStays
<1>2. CASE ReplyStream(c)
  <2>1. SocketOf(c)' /\ Chunks(c, cur[c])' = {}
    BY <1>2, StreamBegins
  <2>2. /\ pc'[c] = "relay" /\ converter'[c] = "on" /\ events'[c] = <<>> /\ updates'[c] = <<>>
        /\ final'[c] = FALSE /\ emitted'[c] = 0
    BY <1>2 DEF ReplyStream, Goto, TalkInv, ChannelInv
  <2>3. Flowing(c, 0)'
    BY <2>1, <2>2, CountingNone DEF Flowing
  <2> QED
    BY <2>1, <2>2, <2>3 DEF FlowOf
<1>3. CASE ResponseEnds(c)
  <2>1. /\ sse'[c] = "ended"
        /\ UNCHANGED <<pc, cur, notes, streamed, lines, converter, events, final, updates, emitted>>
    BY <1>3 DEF ResponseEnds, histVars, ChannelInv
  <2>2. ASSUME NEW w \in Nat, Flowing(c, w) PROVE Flowing(c, w)'
    BY <1>1, <2>1, <2>2 DEF Flowing
  <2> QED
    BY <1>1, <2>1, <2>2 DEF FlowOf
<1>4. CASE Convert(c)
  <2> DEFINE event == Head(events[c])
  <2>1. /\ converter[c] = "on" /\ events[c] # <<>>
        /\ events'[c] = Tail(events[c])
        /\ updates'[c] = updates[c] \o Updates(event)
        /\ converter'[c] = IF EndsConverter(event) THEN "off" ELSE converter[c]
        /\ UNCHANGED <<pc, cur, notes, streamed, lines, sse, final, emitted>>
    BY <1>4 DEF Convert, histVars, ChannelInv
  <2>2. pc[c] = "relay"
    BY <2>1 DEF FlowOf
  <2>3. PICK w \in Nat : Flowing(c, w)
    BY <2>2 DEF FlowOf
  <2> DEFINE t == w + Len(updates[c])
  <2>4. t \in Nat /\ Consecutive(events[c], t, emitted[c], final[c])
    BY <1>0, <2>1, <2>3 DEF Flowing
  <2>5. /\ event.kind = "chunk" => event.n = t + 1 /\ Consecutive(Tail(events[c]), t + 1, emitted[c], final[c])
        /\ event.kind = "status" => Consecutive(Tail(events[c]), t, emitted[c], final[c])
        /\ event.kind = "final" => emitted[c] = t
    <3> HIDE DEF t
    <3> QED
      BY <1>0, <2>1, <2>4, EventTaken
  <2>6. event.kind \in {"chunk", "status", "final"}
    <3>1. Head(events[c]) = events[c][1] /\ events[c][1] \in Event
      BY <1>0, <2>1, SplitSeq
    <3> QED
      BY <3>1 DEF Event
  <2>7. CASE event.kind = "chunk"
    <3>1. /\ updates'[c] = Append(updates[c], t + 1) /\ converter'[c] = "on"
      BY <1>0, <2>1, <2>5, <2>7 DEF Updates, EndsConverter
    <3>2. event.n \in 1 .. MaxChunks + 1 /\ event.n = t + 1
      <4>1. Head(events[c]) = events[c][1] /\ events[c][1] \in Event
        BY <1>0, <2>1, SplitSeq
      <4> QED
        BY <2>5, <2>7, <4>1 DEF Event
    <3>3. Counting(Append(updates[c], t + 1), w) /\ w + Len(Append(updates[c], t + 1)) = t + 1
      <4>1. Counting(updates[c], w) /\ t + 1 = w + Len(updates[c]) + 1
        BY <2>3 DEF Flowing
      <4>2. updates[c] \in Seq(1 .. MaxChunks + 1) /\ t + 1 \in 1 .. MaxChunks + 1
        BY <1>0, <3>2
      <4> HIDE DEF t
      <4> QED
        BY <2>3, <4>1, <4>2, CountingAppend
    <3>4. Consecutive(events'[c], t + 1, emitted'[c], final'[c])
      BY <2>1, <2>5, <2>7
    <3>5. Flowing(c, w)'
      <4> HIDE DEF t
      <4> QED
        BY <1>1, <2>1, <2>3, <3>1, <3>3, <3>4 DEF Flowing
    <3> QED
      BY <1>1, <2>1, <2>2, <3>5 DEF FlowOf
  <2>8. CASE event.kind # "chunk"
    <3>1. updates'[c] = updates[c]
      BY <1>0, <2>1, <2>8 DEF Updates
    <3>2. /\ event.kind = "status" => converter'[c] = "on"
          /\ event.kind = "final" => converter'[c] = "off"
      BY <2>1 DEF EndsConverter
    <3>3. Flowing(c, w)'
      BY <1>1, <2>1, <2>3, <2>5, <2>6, <2>8, <3>1, <3>2 DEF Flowing
    <3> QED
      BY <1>1, <2>1, <2>2, <3>3 DEF FlowOf
  <2> QED
    BY <2>7, <2>8
<1>5. CASE ConverterEnds(c)
  <2>1. /\ converter[c] = "on" /\ events[c] = <<>> /\ converter'[c] = "off"
        /\ UNCHANGED <<pc, cur, notes, streamed, lines, sse, final, updates, emitted>>
    BY <1>5 DEF ConverterEnds, histVars, ChannelInv
  <2>2. pc[c] = "relay"
    BY <2>1 DEF FlowOf
  <2>3. PICK w \in Nat : Flowing(c, w)
    BY <2>2 DEF FlowOf
  <2>4. emitted[c] = w + Len(updates[c])
    BY <2>1, <2>3 DEF Flowing, Consecutive
  <2>5. Flowing(c, w)'
    BY <1>1, <2>1, <2>3, <2>4 DEF Flowing
  <2> QED
    BY <1>1, <2>1, <2>2, <2>5 DEF FlowOf
<1>6. CASE Relay(c)
  <2>1. /\ pc[c] = "relay" /\ updates[c] # <<>> /\ updates'[c] = Tail(updates[c])
        /\ UNCHANGED <<pc, cur, notes, streamed, sse, events, final, converter, emitted>>
    BY <1>6 DEF Relay, ChannelInv
  <2>2. PICK w \in Nat : Flowing(c, w)
    BY <2>1 DEF FlowOf
  <2>3. /\ updates[c][1] = w + 1 /\ Counting(Tail(updates[c]), w + 1)
        /\ (w + 1) + Len(Tail(updates[c])) = w + Len(updates[c])
    <3>1. Counting(updates[c], w)
      BY <2>2 DEF Flowing
    <3> QED
      BY <1>0, <2>1, <3>1, CountingTail
  <2>4. \A i \in Of(c, cur[c]) : lines[c][i].n < updates[c][1]
    <3>1. \A n \in Chunks(c, cur[c]) : n < w + 1
      BY <2>2 DEF Flowing
    <3> QED
      BY <2>3, <3>1 DEF Chunks
  <2>5. SocketOf(c)' /\ Chunks(c, cur[c])' = (1 .. w) \cup {w + 1}
    <3>1. Chunks(c, cur[c]) = 1 .. w
      BY <2>2 DEF Flowing
    <3> QED
      BY <1>6, <2>3, <2>4, <3>1, StreamWrites
  <2>6. (1 .. w) \cup {w + 1} = 1 .. w + 1 /\ w + 1 \in Nat
    OBVIOUS
  <2>7. Flowing(c, w + 1)'
    BY <2>1, <2>2, <2>3, <2>5, <2>6 DEF Flowing
  <2> QED
    BY <2>1, <2>5, <2>6, <2>7 DEF FlowOf
<1>7. CASE RelayFails(c)
  <2>1. /\ pc'[c] = "closed" /\ sse'[c] = "ended" /\ converter'[c] = "off"
    BY <1>7 DEF RelayFails, Close, Goto, StreamOver, TalkInv, ChannelInv
  <2>2. SocketOf(c)'
    BY <1>7, CloseSocket DEF RelayFails
  <2> QED
    BY <2>1, <2>2 DEF FlowOf
<1>8. CASE RelayEnds(c)
  <2>1. /\ pc[c] = "relay" /\ updates[c] = <<>> /\ converter[c] = "off"
        /\ pc'[c] = "read" /\ sse'[c] = "ended" /\ converter'[c] = "off"
        /\ UNCHANGED <<cur, streamed, lines, emitted>>
    BY <1>8 DEF RelayEnds, Goto, StreamOver, histVars, TalkInv, ChannelInv
  <2>2. PICK w \in Nat : Flowing(c, w)
    BY <2>1 DEF FlowOf
  <2>3. Chunks(c, cur[c]) = 1 .. emitted[c]
    BY <2>1, <2>2 DEF Flowing
  <2>4. Chunks(c, cur[c])' = 1 .. emitted'[c]
    BY <2>1, <2>3 DEF Chunks, Of
  <2>5. SocketOf(c)'
    BY <1>8, StreamEnds
  <2> QED
    BY <2>1, <2>4, <2>5 DEF FlowOf
<1>9. CASE Arrive(c)
  <2>1. PICK kind \in {"chunk", "status", "final"} :
          /\ kind # "chunk" => ~final[c]
          /\ events'[c] = Append(events[c], [kind |-> kind, n |-> emitted[c] + 1])
          /\ final'[c] = (final[c] \/ kind = "final")
          /\ emitted'[c] = IF kind = "chunk" /\ ~final[c] THEN emitted[c] + 1 ELSE emitted[c]
    BY <1>9 DEF Arrive, ChannelInv
  <2>2. /\ converter[c] = "on"
        /\ UNCHANGED <<pc, cur, notes, streamed, lines, sse, converter, updates>>
    BY <1>9 DEF Arrive
  <2>3. pc[c] = "relay"
    BY <2>2 DEF FlowOf
  <2>4. PICK w \in Nat : Flowing(c, w)
    BY <2>3 DEF FlowOf
  <2> DEFINE t == w + Len(updates[c])
  <2>5. t \in Nat /\ Consecutive(events[c], t, emitted[c], final[c])
    BY <1>0, <2>2, <2>4 DEF Flowing
  <2>6. Consecutive(events'[c], t, emitted'[c], final'[c])
    <3> HIDE DEF t
    <3> PICK es, m, f : es = events[c] /\ m = emitted[c] /\ f = final[c]
      OBVIOUS
    <3>1. es \in Seq(Event) /\ t \in Nat /\ m \in Nat /\ f \in BOOLEAN /\ Consecutive(es, t, m, f)
      BY <1>0, <2>5
    <3>2. kind # "chunk" => ~f
      BY <2>1
    <3>3. Consecutive(Append(es, [kind |-> kind, n |-> m + 1]), t,
                      IF kind = "chunk" /\ ~f THEN m + 1 ELSE m, f \/ kind = "final")
      BY <3>1, <3>2, EventArrives
    <3> QED
      BY <2>1, <3>3
  <2>7. Flowing(c, w)'
    BY <1>1, <2>2, <2>4, <2>6 DEF Flowing
  <2> QED
    BY <1>1, <2>2, <2>3, <2>7 DEF FlowOf
<1> QED
  BY <1>2, <1>3, <1>4, <1>5, <1>6, <1>7, <1>8, <1>9

(* Every step, for every connection                                          *)
LEMMA TranscriptStep ==
  ASSUME TalkInv, ChannelInv, SocketInv, FlowInv, [Next]_vars
  PROVE  SocketInv' /\ FlowInv'
<1> SUFFICES ASSUME NEW d \in Conn PROVE SocketOf(d)' /\ FlowOf(d)'
  BY DEF SocketInv, FlowInv
<1>0. SocketOf(d) /\ FlowOf(d)
  BY DEF SocketInv, FlowInv
<1>1. CASE UNCHANGED vars
  BY <1>0, <1>1, SameKeeps DEF vars, streamVars, histVars, Same
<1>2. ASSUME NEW c \in Conn, Step(c) \/ Environment(c) PROVE SocketOf(d)' /\ FlowOf(d)'
  <2>1. CASE d # c
    BY <1>0, <1>2, <2>1, OthersStay, SameKeeps
  <2>2. CASE d = c /\ Expire(c)
    BY <1>0, <2>2, SameKeeps DEF Expire, streamVars, histVars, Same
  <2>3. CASE d = c /\ ~Expire(c)
    BY <1>0, <1>2, <2>3, TalkFlow, StreamFlow DEF Step, Environment
  <2> QED
    BY <2>1, <2>2, <2>3
<1> QED
  BY <1>1, <1>2 DEF Next

(* The invariant of all connections, from the start                          *)
LEMMA TranscriptInductive ==
  Spec => [](TalkInv /\ ChannelInv /\ SocketInv /\ FlowInv)
<1>1. Init => TalkInv /\ ChannelInv /\ SocketInv /\ FlowInv
  <2> SUFFICES ASSUME Init PROVE TalkInv /\ ChannelInv /\ SocketInv /\ FlowInv
    OBVIOUS
  <2>1. TalkInv
    BY AcpConnectionAssumption DEF Init, TalkInv, Places
  <2>2. ChannelInv
    BY AcpConnectionAssumption DEF Init, ChannelInv
  <2>3. SocketInv
    BY DEF Init, SocketInv, SocketOf, InOrder, Handled
  <2>4. FlowInv
    BY DEF Init, FlowInv, FlowOf
  <2> QED
    BY <2>1, <2>2, <2>3, <2>4
<1>2. TalkInv /\ ChannelInv /\ SocketInv /\ FlowInv /\ [Next]_vars
        => (TalkInv /\ ChannelInv /\ SocketInv /\ FlowInv)'
  BY TalkStep, ChannelStep, TranscriptStep
<1> QED
  BY <1>1, <1>2, PTL DEF Spec

(* handle_http_target answers line by line, in order, each once: whatever    *)
(* the client sends, however long the waits and the streams between.         *)
THEOREM TranscriptHolds == Spec => []Transcript
<1>1. SocketInv => Transcript
  BY DEF SocketInv, SocketOf, InOrder, Replied, Transcript
<1> QED
  BY <1>1, TranscriptInductive, PTL

(* When handle_http_target leaves a stream, every chunk before the terminal  *)
(* event, or the end of the response, is in the socket: nothing stays behind *)
(* in the channels of sse_to_a2a_events and of the task of prompt.           *)
THEOREM StreamWholeHolds == Spec => []StreamWhole
<1>1. FlowInv => StreamWhole
  BY DEF FlowInv, FlowOf, StreamWhole
<1> QED
  BY <1>1, TranscriptInductive, PTL

===============================================================================
