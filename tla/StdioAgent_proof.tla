---------------------------- MODULE StdioAgent_proof ----------------------------
(***************************************************************************)
(* Proofs about StdioAgent for any requests, sessions, pipes and bounds,   *)
(* and any overlap of turns: type correctness, that answers are the        *)
(* agent's own, that a stream has no hole, and that one that met no other  *)
(* and has its terminal is complete.  The invariant behind the second      *)
(* follows an answer from the agent through its stdout to the oneshot of   *)
(* its request and to the caller.  Those behind the third say that a turn  *)
(* that met no other has its channel listed until its end (Held), that a   *)
(* prompt is written and answered once (AskedOnce), that its answer is     *)
(* behind its chunks in the pipe (PipeInv), and that caller, channel and,  *)
(* while the channel is listed, pipe hold these in one piece (CarryInv).   *)
(***************************************************************************)
EXTENDS StdioAgent, TLAPS

(* What the agent writes are lines. *)
LEMMA AnswerIsLine ==
  ASSUME NEW r \in Request, NEW kind \in {"answer", "error", "ask"}
  PROVE  Answer(r, kind) \in Line
BY StdioAgentAssumption DEF Answer, Line, StdioAgentAssumption

(* A chunk of a prompt, as one of its lines. *)
LEMMA ChunkIsLine ==
  ASSUME NEW p \in Prompt, NEW n \in 0 .. MaxChunks
  PROVE  Chunk(p, n) \in Line
BY StdioAgentAssumption DEF Chunk, Line, Request

(* What a request that ends leaves behind *)
LEMMA Leaves ==
  ASSUME TypeOK, NEW r \in Request, NEW from, Leave(r, from)
  PROVE  /\ pc[r] = from /\ pc' = [pc EXCEPT ![r] = "over"]
         /\ pc' \in [Request -> {"idle", "cleared", "over"} \cup Waiting]
         /\ resp' \in [Request -> {"none", "ok", "error"}]
         /\ \A q \in Request : resp'[q] = "ok" => resp[q] = "ok"
         /\ chan' \in [Prompt -> Seq(Line)]
         /\ \A p \in Prompt : p = r => chan'[p] = <<>>
         /\ \A p \in Prompt : p # r => chan'[p] = chan[p]
<1>1. pc[r] = from /\ pc' = [pc EXCEPT ![r] = "over"] /\ resp' = [resp EXCEPT ![r] = "none"]
  BY DEF Leave, Goto
<1>2. pc' \in [Request -> {"idle", "cleared", "over"} \cup Waiting] /\ resp' \in [Request -> {"none", "ok", "error"}]
  BY <1>1 DEF TypeOK
<1>3. \A q \in Request : resp'[q] = "ok" => resp[q] = "ok"
  BY <1>1 DEF TypeOK
<1>4. chan' = [p \in Prompt |-> IF p = r THEN <<>> ELSE chan[p]]
  BY DEF Leave
<1>5. \A p \in Prompt : chan[p] \in Seq(Line) /\ <<>> \in Seq(Line)
  BY DEF TypeOK
<1>6. chan' \in [Prompt -> Seq(Line)]
  BY <1>4, <1>5
<1> QED
  BY <1>1, <1>2, <1>3, <1>4, <1>6

(* Types. *)
LEMMA TypeStep == TypeOK /\ [Next]_vars => TypeOK'
<1> SUFFICES ASSUME TypeOK, [Next]_vars PROVE TypeOK'
  OBVIOUS
<1>0. /\ \A r \in Request : \A from : Leave(r, from) =>
           /\ pc' \in [Request -> {"idle", "cleared", "over"} \cup Waiting]
           /\ resp' \in [Request -> {"none", "ok", "error"}] /\ chan' \in [Prompt -> Seq(Line)]
      /\ Prompt \subseteq Request /\ Call \subseteq Request
  BY Leaves DEF Request
<1>1. ASSUME NEW p \in Prompt, Begin(p) PROVE TypeOK'
  BY <1>1, StdioAgentAssumption DEF Begin, Goto, Unlist, Rivals, TypeOK, Waiting, Request, tables, agentVars
<1>2. ASSUME NEW p \in Prompt, Register(p) PROVE TypeOK'
  BY <1>2, StdioAgentAssumption DEF Register, Goto, TypeOK, Waiting, Request, tables, agentVars
<1>3. ASSUME NEW p \in Prompt, FirstChunk(p) PROVE TypeOK'
  BY <1>3, StdioAgentAssumption DEF FirstChunk, Goto, TypeOK, Waiting, Request, tables, agentVars
<1>4. ASSUME NEW p \in Prompt, NoChunkYet(p) PROVE TypeOK'
  BY <1>4, StdioAgentAssumption DEF NoChunkYet, Goto, TypeOK, Waiting, Request, tables, agentVars
<1>5. ASSUME NEW p \in Prompt, PollAgain(p) PROVE TypeOK'
  BY <1>5, StdioAgentAssumption DEF PollAgain, Goto, TypeOK, Waiting, Request, tables, agentVars
<1>6. ASSUME NEW p \in Prompt, Complete(p) PROVE TypeOK'
  <2>1. Answer(p, "answer") \in Line
    BY AnswerIsLine DEF Request
  <2>2. <<Answer(p, "answer")>> \in Seq(Line)
    BY <2>1
  <2>3. out' \in [Prompt -> Seq(Line)]
    BY <1>6, <2>2 DEF Complete, TypeOK
  <2> QED
    BY <1>6, <2>3, <1>0, StdioAgentAssumption DEF Complete, Unlist, TypeOK, agentVars
<1>7. ASSUME NEW p \in Prompt, Refused(p) PROVE TypeOK'
  BY <1>0, <1>7 DEF Refused, TypeOK, agentVars
<1>8. ASSUME NEW p \in Prompt, FirstTimeout(p) PROVE TypeOK'
  BY <1>0, <1>8, StdioAgentAssumption DEF FirstTimeout, Unlist, TypeOK, agentVars
<1>9. ASSUME NEW p \in Prompt, RelayChunk(p) PROVE TypeOK'
  BY <1>9, StdioAgentAssumption DEF RelayChunk, TypeOK, Waiting, Request, tables, agentVars
<1>10. ASSUME NEW p \in Prompt, RelayGone(p) PROVE TypeOK'
  BY <1>10, StdioAgentAssumption DEF RelayGone, Goto, TypeOK, Waiting, Request, tables, agentVars
<1>11. ASSUME NEW p \in Prompt, RelayClosed(p) PROVE TypeOK'
  BY <1>11, StdioAgentAssumption DEF RelayClosed, Goto, TypeOK, Waiting, Request, tables, agentVars
<1>12. ASSUME NEW p \in Prompt, RelayFinish(p) PROVE TypeOK'
  <2>1. Answer(p, "answer") \in Line
    BY AnswerIsLine DEF Request
  <2>2. chan[p] \in Seq(Line) /\ out[p] \in Seq(Line)
    BY DEF TypeOK
  <2>3. <<Answer(p, "answer")>> \in Seq(Line) /\ <<>> \in Seq(Line)
    BY <2>1
  <2>4. PICK last \in Seq(Line) : out' = [out EXCEPT ![p] = (@ \o chan[p]) \o last]
    BY <1>12, <2>3 DEF RelayFinish
  <2>5. (out[p] \o chan[p]) \o last \in Seq(Line)
    BY <2>2
  <2>6. out' \in [Prompt -> Seq(Line)]
    BY <2>4, <2>5 DEF TypeOK
  <2>7. chan' \in [Prompt -> Seq(Line)]
    BY <1>12 DEF RelayFinish, TypeOK
  <2> QED
    BY <1>12, <2>6, <2>7 DEF RelayFinish, Goto, TypeOK, Waiting, Request, tables, agentVars
<1>13. ASSUME NEW p \in Prompt, IdleTimeout(p) PROVE TypeOK'
  BY <1>13, StdioAgentAssumption DEF IdleTimeout, Goto, TypeOK, Waiting, Request, tables, agentVars
<1>14. ASSUME NEW p \in Prompt, CleanUp(p) PROVE TypeOK'
  BY <1>0, <1>14, StdioAgentAssumption DEF CleanUp, Unlist, TypeOK, agentVars
<1>15. ASSUME NEW c \in Call, CallReturns(c) PROVE TypeOK'
  BY <1>0, <1>15 DEF CallReturns, TypeOK, agentVars
<1>16. ASSUME NEW c \in Call, CallTimeout(c) PROVE TypeOK'
  BY <1>0, <1>16 DEF CallTimeout, TypeOK, agentVars
<1>17. ASSUME NEW c \in Call \cup Cancel, StartCall(c) PROVE TypeOK'
  BY <1>17, StdioAgentAssumption DEF StartCall, Goto, TypeOK, Waiting, Request, tables, agentVars
<1>18. ASSUME NEW c \in Call \cup Cancel, NotAlive(c) PROVE TypeOK'
  BY <1>18, StdioAgentAssumption DEF NotAlive, Goto, TypeOK, Waiting, Request, tables, agentVars
<1>19. ASSUME NEW r \in Request, Write(r) PROVE TypeOK'
  BY <1>19, StdioAgentAssumption DEF Write, Goto, TypeOK, Waiting, Request, tables, agentVars
<1>20. ASSUME NEW r \in Request, WriteFails(r) PROVE TypeOK'
  BY <1>0, <1>20 DEF WriteFails, TypeOK, agentVars
<1>21. ASSUME NEW r \in Request, Dropped(r) PROVE TypeOK'
  BY <1>0, <1>21 DEF Dropped, TypeOK, agentVars
<1>22. CASE ReadChunk
  <2> DEFINE p == updates[SessionOf[Head(fromAgent).id]]
  <2>1. Head(fromAgent) \in Line /\ fromAgent' \in Seq(Line)
    BY <1>22 DEF ReadChunk, NextLine, TypeOK
  <2>2. ASSUME NEW q \in Prompt PROVE Append(chan[q], Head(fromAgent)) \in Seq(Line)
    BY <2>1 DEF TypeOK
  <2>3. chan' \in [Prompt -> Seq(Line)]
    <3>1. chan' = IF Listens(p) THEN [chan EXCEPT ![p] = Append(@, Head(fromAgent))] ELSE chan
      BY <1>22 DEF ReadChunk
    <3>2. CASE p \in Prompt
      <4> HIDE DEF p
      <4> QED
        BY <3>1, <3>2, <2>2 DEF TypeOK
    <3>3. CASE p \notin Prompt
      <4>1. chan \in [Prompt -> Seq(Line)]
        BY DEF TypeOK
      <4> HIDE DEF p
      <4> QED
        BY <3>1, <3>3, <4>1, Zenon
    <3> QED
      BY <3>2, <3>3
  <2> QED
    BY <1>22, <2>1, <2>3 DEF ReadChunk, NextLine, TypeOK, Waiting, Request, tables, agentVars
<1>23. CASE ReadAnswer
  BY <1>23, StdioAgentAssumption
     DEF ReadAnswer, NextLine, Resolve, Awaited, TypeOK, Waiting, Request, tables, agentVars
<1>24. CASE ReadAsk
  BY <1>24, StdioAgentAssumption DEF ReadAsk, NextLine, TypeOK, Waiting, Request, tables, agentVars
<1>25. CASE ReplyToAsk
  <2>1. toAgent' \in Seq(Request \cup {"reply"})
    <3>1. CASE alive
      <4>1. toAgent' = Append(toAgent, "reply")
        BY <1>25, <3>1, Zenon DEF ReplyToAsk
      <4>2. toAgent \in Seq(Request \cup {"reply"})
        BY DEF TypeOK
      <4> QED
        BY <4>1, <4>2
    <3>2. CASE ~alive
      BY <1>25, <3>2 DEF ReplyToAsk, TypeOK
    <3> QED
      BY <3>1, <3>2
  <2> QED
    BY <1>25, <2>1 DEF ReplyToAsk, TypeOK, Waiting, Request, tables, agentVars
<1>26. CASE Eof
  BY <1>26, StdioAgentAssumption DEF Eof, TypeOK, Waiting, Request, tables, agentVars
<1>27. CASE AgentReads
  BY <1>27, StdioAgentAssumption DEF AgentReads, TypeOK, Waiting, Request, tables, agentVars
<1>28. CASE AgentAsks
  <2>1. PICK r \in Request : AgentSays(Answer(r, "ask"))
    BY <1>28 DEF AgentAsks, Request
  <2>2. fromAgent' \in Seq(Line)
    BY <2>1, AnswerIsLine DEF AgentSays, TypeOK
  <2> QED
    BY <1>28, <2>2, StdioAgentAssumption DEF AgentAsks, TypeOK, Waiting, Request, tables, agentVars
<1>29. CASE AgentDies
  <2>1. toAgent' \in Seq(Request \cup {"reply"}) /\ working' \in SUBSET (Prompt \cup Call)
    BY <1>29 DEF AgentDies
  <2> QED
    BY <1>29, <2>1 DEF AgentDies, TypeOK, Waiting, Request, tables, agentVars
<1>30. ASSUME NEW p \in Prompt, AgentStreams(p) PROVE TypeOK'
  <2>1. sent[p] + 1 \in 0 .. MaxChunks
    BY <1>30, StdioAgentAssumption DEF AgentStreams, TypeOK
  <2>2. Chunk(p, sent[p] + 1) \in Line
    BY <2>1, ChunkIsLine
  <2>3. fromAgent' \in Seq(Line)
    BY <1>30, <2>2 DEF AgentStreams, AgentSays, TypeOK
  <2>4. sent' \in [Prompt -> 0 .. MaxChunks]
    BY <1>30, <2>1 DEF AgentStreams, TypeOK
  <2> QED
    BY <1>30, <2>3, <2>4 DEF AgentStreams, TypeOK, Waiting, Request, tables, agentVars
<1>31. ASSUME NEW r \in Prompt \cup Call, AgentAnswers(r) PROVE TypeOK'
  <2>1. PICK kind \in {"answer", "error"} : AgentSays(Answer(r, kind))
    BY <1>31 DEF AgentAnswers
  <2>2. Answer(r, kind) \in Line
    BY AnswerIsLine DEF Request
  <2>3. fromAgent' \in Seq(Line)
    BY <2>1, <2>2 DEF AgentSays, TypeOK
  <2> QED
    BY <1>31, <2>3 DEF AgentAnswers, TypeOK, Waiting, Request, tables, agentVars
<1>32. CASE UNCHANGED vars
  BY <1>32 DEF vars, TypeOK, Waiting, Request, tables, agentVars
<1> QED
  BY <1>1, <1>2, <1>3, <1>4, <1>5, <1>6, <1>7, <1>8, <1>9, <1>10, <1>11,
     <1>12, <1>13, <1>14, <1>15, <1>16, <1>17, <1>18, <1>19, <1>20, <1>21,
     <1>22, <1>23, <1>24, <1>25, <1>26, <1>27, <1>28, <1>29, <1>30, <1>31,
     <1>32
     DEF Next, PromptStep, CallStep, NotifyStep, Reader, Agent, Request
-----------------------------------------------------------------------------
(* The answers in the pipe and with the callers are the agent's own.         *)

PipeAnswered ==
  \A i \in DOMAIN fromAgent : fromAgent[i].kind = "answer" => fromAgent[i].id \in answered

RespAnswered == \A r \in Request : resp[r] = "ok" => r \in answered

ChanIsChunks == \A p \in Prompt : \A i \in DOMAIN chan[p] : chan[p][i].kind = "chunk"

OutAnswered ==
  \A p \in Prompt : \A i \in DOMAIN out[p] : out[p][i].kind = "answer" => out[p][i].id \in answered

AnswerInv == PipeAnswered /\ RespAnswered /\ ChanIsChunks /\ OutAnswered

(* Taking the head of a sequence keeps what holds for its elements.          *)
LEMMA TailElements ==
  ASSUME NEW S, NEW q \in Seq(S), q # <<>>
  PROVE  /\ Head(q) = q[1] /\ 1 \in DOMAIN q
         /\ \A i \in DOMAIN Tail(q) : Tail(q)[i] = q[i + 1] /\ i + 1 \in DOMAIN q
OBVIOUS

(* The elements of an extended sequence.                                     *)
LEMMA AppendElements ==
  ASSUME NEW S, NEW q \in Seq(S), NEW e \in S
  PROVE  \A i \in DOMAIN Append(q, e) :
           (i \in DOMAIN q /\ Append(q, e)[i] = q[i]) \/ Append(q, e)[i] = e
OBVIOUS

(* The elements of a concatenation.                                          *)
LEMMA ConcatElements ==
  ASSUME NEW S, NEW q \in Seq(S), NEW t \in Seq(S)
  PROVE  \A i \in DOMAIN (q \o t) :
           \/ i \in DOMAIN q /\ (q \o t)[i] = q[i]
           \/ i - Len(q) \in DOMAIN t /\ (q \o t)[i] = t[i - Len(q)]
OBVIOUS

(* Reading, answering and relaying keep the answers the agent's own.         *)
LEMMA AnswerStep == TypeOK /\ AnswerInv /\ [Next]_vars => AnswerInv'
<1> SUFFICES ASSUME TypeOK, AnswerInv, [Next]_vars PROVE AnswerInv'
  OBVIOUS
<1> USE DEF AnswerInv
<1> DEFINE Aside == UNCHANGED <<fromAgent, resp, chan, out, answered>>
<1>a. CASE Aside
  BY <1>a DEF PipeAnswered, RespAnswered, ChanIsChunks, OutAnswered
<1>c. ASSUME NEW r \in Request, NEW from, Leave(r, from), UNCHANGED <<fromAgent, answered>>
      PROVE  PipeAnswered' /\ RespAnswered' /\ ChanIsChunks'
  <2>1. /\ \A q \in Request : resp'[q] = "ok" => resp[q] = "ok"
        /\ \A p \in Prompt : chan'[p] = <<>> \/ chan'[p] = chan[p]
    BY <1>c, Leaves
  <2>2. PipeAnswered' /\ RespAnswered'
    BY <1>c, <2>1 DEF PipeAnswered, RespAnswered
  <2>3. ChanIsChunks'
    BY <2>1 DEF ChanIsChunks
  <2> QED
    BY <2>2, <2>3
<1>d. ASSUME NEW r \in Request, NEW from, Leave(r, from), UNCHANGED <<fromAgent, answered, out>>
      PROVE  AnswerInv'
  BY <1>c, <1>d DEF OutAnswered
<1>e. Prompt \subseteq Request /\ Call \subseteq Request
  BY DEF Request
<1>b. \A r \in Request : Answer(r, "answer").kind = "answer" /\ Answer(r, "answer").id = r
  BY DEF Answer
<1>1. ASSUME NEW p \in Prompt, FirstChunk(p) PROVE AnswerInv'
  <2>0. chan[p] \in Seq(Line) /\ chan[p] # <<>> /\ out \in [Prompt -> Seq(Line)]
    BY <1>1 DEF FirstChunk, TypeOK
  <2>1. Head(chan[p]).kind = "chunk"
    BY <2>0, TailElements DEF ChanIsChunks
  <2>2. OutAnswered'
    <3>1. answered' = answered /\ out' = [out EXCEPT ![p] = <<Head(chan[p])>>]
      BY <1>1 DEF FirstChunk, agentVars
    <3>2. ASSUME NEW q \in Prompt, NEW i \in DOMAIN out'[q], out'[q][i].kind = "answer"
          PROVE  out'[q][i].id \in answered'
      BY <3>1, <3>2, <2>0, <2>1 DEF OutAnswered
    <3> QED
      BY <3>2 DEF OutAnswered
  <2>3. ChanIsChunks'
    BY <1>1, <2>0, TailElements DEF FirstChunk, ChanIsChunks, TypeOK
  <2> QED
    BY <1>1, <2>2, <2>3 DEF FirstChunk, PipeAnswered, RespAnswered, agentVars
<1>2. ASSUME NEW p \in Prompt, Complete(p) PROVE AnswerInv'
  <2>1. p \in answered
    BY <1>2 DEF Complete, RespAnswered, Request
  <2>2. OutAnswered'
    <3>1. answered' = answered /\ out' = [out EXCEPT ![p] = <<Answer(p, "answer")>>]
      BY <1>2 DEF Complete, agentVars
    <3>2. ASSUME NEW q \in Prompt, NEW i \in DOMAIN out'[q], out'[q][i].kind = "answer"
          PROVE  out'[q][i].id \in answered'
      BY <3>1, <3>2, <2>1, <1>b DEF OutAnswered, TypeOK, Request
    <3> QED
      BY <3>2 DEF OutAnswered
  <2> QED
    BY <1>2, <1>c, <1>e, <2>2 DEF Complete, agentVars
<1>3. ASSUME NEW p \in Prompt, RelayChunk(p) PROVE AnswerInv'
  <2>0. chan[p] \in Seq(Line) /\ chan[p] # <<>> /\ out \in [Prompt -> Seq(Line)] /\ Head(chan[p]) \in Line
    BY <1>3 DEF RelayChunk, TypeOK
  <2>1. Head(chan[p]).kind = "chunk"
    BY <2>0, TailElements DEF ChanIsChunks
  <2>2. OutAnswered'
    <3>1. answered' = answered /\ out' = [out EXCEPT ![p] = Append(@, Head(chan[p]))]
      BY <1>3 DEF RelayChunk, agentVars
    <3>2. ASSUME NEW q \in Prompt, NEW i \in DOMAIN out'[q], out'[q][i].kind = "answer"
          PROVE  out'[q][i].id \in answered'
      <4>1. CASE q = p
        <5>1. out'[q] = Append(out[p], Head(chan[p]))
          BY <4>1, <3>1, <2>0
        <5>2. (i \in DOMAIN out[p] /\ out'[q][i] = out[p][i]) \/ out'[q][i] = Head(chan[p])
          BY <5>1, <2>0, AppendElements
        <5> QED
          BY <5>2, <3>1, <3>2, <2>1 DEF OutAnswered
      <4>2. CASE q # p
        BY <4>2, <3>1, <3>2, <2>0 DEF OutAnswered
      <4> QED
        BY <4>1, <4>2
    <3> QED
      BY <3>2 DEF OutAnswered
  <2>3. ChanIsChunks'
    BY <1>3, <2>0, TailElements DEF RelayChunk, ChanIsChunks, TypeOK
  <2> QED
    BY <1>3, <2>2, <2>3 DEF RelayChunk, PipeAnswered, RespAnswered, agentVars
<1>4. ASSUME NEW p \in Prompt, RelayFinish(p) PROVE AnswerInv'
  <2> DEFINE last == IF resp[p] = "ok" THEN <<Answer(p, "answer")>> ELSE <<>>
  <2>0. chan[p] \in Seq(Line) /\ out \in [Prompt -> Seq(Line)] /\ last \in Seq(Line)
    BY AnswerIsLine DEF TypeOK, Request
  <2>1. resp[p] = "ok" => p \in answered
    BY DEF RespAnswered, Request
  <2>2. \A i \in DOMAIN last : last[i].kind = "answer" => last[i].id \in answered
    BY <2>1, <1>b DEF Request
  <2>3. out' = [out EXCEPT ![p] = (@ \o chan[p]) \o last]
    BY <1>4 DEF RelayFinish
  <2> HIDE DEF last
  <2>4. answered' = answered
    BY <1>4 DEF RelayFinish, agentVars
  <2>5. OutAnswered'
    <3>1. ASSUME NEW q \in Prompt, NEW i \in DOMAIN out'[q], out'[q][i].kind = "answer"
          PROVE  out'[q][i].id \in answered
      <4>1. CASE q = p
        <5>1. out'[q] = (out[p] \o chan[p]) \o last /\ out[p] \o chan[p] \in Seq(Line)
          <6> DEFINE whole == (out[p] \o chan[p]) \o last
          <6>1. out' = [out EXCEPT ![p] = whole] /\ out \in [Prompt -> Seq(Line)]
            BY <2>3, <2>0
          <6> HIDE DEF whole
          <6>2. out'[q] = whole
            BY <6>1, <4>1
          <6>3. out[p] \o chan[p] \in Seq(Line)
            BY <2>0
          <6> QED
            BY <6>2, <6>3 DEF whole
        <5>2. \/ i \in DOMAIN (out[p] \o chan[p]) /\ out'[q][i] = (out[p] \o chan[p])[i]
              \/ i - Len(out[p] \o chan[p]) \in DOMAIN last
                 /\ out'[q][i] = last[i - Len(out[p] \o chan[p])]
          BY <5>1, <2>0, ConcatElements
        <5>3. CASE i - Len(out[p] \o chan[p]) \in DOMAIN last
                   /\ out'[q][i] = last[i - Len(out[p] \o chan[p])]
          BY <5>3, <3>1, <2>2
        <5>4. CASE i \in DOMAIN (out[p] \o chan[p]) /\ out'[q][i] = (out[p] \o chan[p])[i]
          <6>1. \/ i \in DOMAIN out[p] /\ out'[q][i] = out[p][i]
                \/ i - Len(out[p]) \in DOMAIN chan[p] /\ out'[q][i] = chan[p][i - Len(out[p])]
            BY <5>4, <2>0, ConcatElements
          <6> QED
            BY <6>1, <3>1 DEF OutAnswered, ChanIsChunks
        <5> QED
          BY <5>2, <5>3, <5>4
      <4>2. CASE q # p
        BY <4>2, <3>1, <2>3, <2>0 DEF OutAnswered
      <4> QED
        BY <4>1, <4>2
    <3> QED
      BY <3>1, <2>4 DEF OutAnswered
  <2>6. ChanIsChunks'
    BY <1>4 DEF RelayFinish, ChanIsChunks, TypeOK
  <2> QED
    BY <1>4, <2>5, <2>6 DEF RelayFinish, PipeAnswered, RespAnswered, agentVars
<1>5. CASE ReadChunk
  <2> DEFINE line == Head(fromAgent)
             p == updates[SessionOf[line.id]]
  <2>1. fromAgent \in Seq(Line) /\ fromAgent # <<>> /\ line \in Line /\ line.kind = "chunk"
        /\ fromAgent' = Tail(fromAgent)
    BY <1>5 DEF ReadChunk, NextLine, TypeOK
  <2>2. chan' = IF Listens(p) THEN [chan EXCEPT ![p] = Append(@, line)] ELSE chan
    BY <1>5 DEF ReadChunk
  <2>3. UNCHANGED <<resp, out, answered>>
    BY <1>5 DEF ReadChunk, agentVars
  <2>4. ChanIsChunks'
    <3> HIDE DEF p, line
    <3>1. ASSUME NEW q \in Prompt, NEW i \in DOMAIN chan'[q] PROVE chan'[q][i].kind = "chunk"
      <4>1. CASE Listens(p) /\ q = p
        <5>1. chan'[q] = Append(chan[q], line) /\ chan[q] \in Seq(Line)
          BY <4>1, <2>2 DEF TypeOK
        <5>2. (i \in DOMAIN chan[q] /\ chan'[q][i] = chan[q][i]) \/ chan'[q][i] = line
          BY <5>1, <2>1, AppendElements
        <5> QED
          BY <5>2, <2>1 DEF ChanIsChunks
      <4>2. CASE ~(Listens(p) /\ q = p)
        <5>1. chan'[q] = chan[q]
          BY <4>2, <2>2 DEF TypeOK
        <5> QED
          BY <5>1 DEF ChanIsChunks
      <4> QED
        BY <4>1, <4>2
    <3> QED
      BY <3>1 DEF ChanIsChunks
  <2>5. PipeAnswered'
    BY <2>1, <2>3, TailElements DEF PipeAnswered
  <2> QED
    BY <2>3, <2>4, <2>5 DEF RespAnswered, OutAnswered
<1>6. CASE ReadAnswer
  <2>1. fromAgent \in Seq(Line) /\ fromAgent # <<>> /\ fromAgent' = Tail(fromAgent)
    BY <1>6 DEF ReadAnswer, NextLine, TypeOK
  <2>2. UNCHANGED <<chan, out, answered>>
    BY <1>6 DEF ReadAnswer, agentVars
  <2>3. Head(fromAgent).kind = "answer" => Head(fromAgent).id \in answered
    BY <2>1, TailElements DEF PipeAnswered
  <2>4. RespAnswered'
    BY <1>6, <2>2, <2>3 DEF ReadAnswer, Resolve, Awaited, RespAnswered, TypeOK
  <2>5. PipeAnswered'
    BY <2>1, <2>2, TailElements DEF PipeAnswered
  <2> QED
    BY <2>2, <2>4, <2>5 DEF ChanIsChunks, OutAnswered
<1>7. CASE ReadAsk
  <2>1. fromAgent \in Seq(Line) /\ fromAgent # <<>> /\ fromAgent' = Tail(fromAgent)
    BY <1>7 DEF ReadAsk, NextLine, TypeOK
  <2>2. UNCHANGED <<resp, chan, out, answered>>
    BY <1>7 DEF ReadAsk, tables, agentVars
  <2>3. PipeAnswered'
    BY <2>1, <2>2, TailElements DEF PipeAnswered
  <2> QED
    BY <2>2, <2>3 DEF RespAnswered, ChanIsChunks, OutAnswered
<1>8. CASE Eof
  <2>1. UNCHANGED <<fromAgent, chan, out, answered>>
    BY <1>8 DEF Eof, agentVars
  <2>2. RespAnswered'
    BY <1>8, <2>1 DEF Eof, RespAnswered
  <2> QED
    BY <2>1, <2>2 DEF PipeAnswered, ChanIsChunks, OutAnswered
<1>9. ASSUME NEW line \in Line, AgentSays(line), line.kind = "answer" => line.id \in answered',
             answered \subseteq answered', UNCHANGED <<resp, chan, out>>
      PROVE  AnswerInv'
  <2>1. fromAgent \in Seq(Line) /\ fromAgent' = Append(fromAgent, line)
    BY <1>9 DEF AgentSays, TypeOK
  <2>2. PipeAnswered'
    BY <1>9, <2>1, AppendElements DEF PipeAnswered
  <2> QED
    BY <1>9, <2>2 DEF RespAnswered, ChanIsChunks, OutAnswered
<1>10. CASE AgentAsks
  <2>1. PICK r \in Request : AgentSays(Answer(r, "ask"))
    BY <1>10 DEF AgentAsks, Request
  <2>2. Answer(r, "ask") \in Line /\ Answer(r, "ask").kind # "answer"
    BY AnswerIsLine DEF Answer
  <2> QED
    BY <1>10, <2>1, <2>2, <1>9 DEF AgentAsks, tables
<1>11. ASSUME NEW p \in Prompt, AgentStreams(p) PROVE AnswerInv'
  <2>1. Chunk(p, sent[p] + 1) \in Line /\ Chunk(p, sent[p] + 1).kind # "answer"
    <3>1. sent[p] + 1 \in 0 .. MaxChunks
      BY <1>11, StdioAgentAssumption DEF AgentStreams, TypeOK, StdioAgentAssumption
    <3> QED
      BY <3>1, ChunkIsLine DEF Chunk
  <2> QED
    BY <1>11, <2>1, <1>9 DEF AgentStreams, tables
<1>12. ASSUME NEW r \in Prompt \cup Call, AgentAnswers(r) PROVE AnswerInv'
  <2>1. PICK kind \in {"answer", "error"} : AgentSays(Answer(r, kind))
    BY <1>12 DEF AgentAnswers
  <2>2. Answer(r, kind) \in Line /\ Answer(r, kind).id = r
    BY AnswerIsLine DEF Answer, Request
  <2>3. answered' = answered \cup {r} /\ UNCHANGED <<resp, chan, out>>
    BY <1>12 DEF AgentAnswers, tables
  <2> QED
    BY <2>1, <2>2, <2>3, <1>9
<1>14. ASSUME NEW p \in Prompt,
             Begin(p) \/ Register(p) \/ NoChunkYet(p) \/ PollAgain(p) \/ RelayGone(p)
             \/ RelayClosed(p) \/ IdleTimeout(p)
      PROVE  AnswerInv'
  BY <1>14, <1>a
     DEF Begin, Register, NoChunkYet, PollAgain, RelayGone, RelayClosed, IdleTimeout, tables, agentVars
<1>19. ASSUME NEW p \in Prompt, Refused(p) \/ FirstTimeout(p) \/ CleanUp(p) PROVE AnswerInv'
  BY <1>19, <1>d, <1>e DEF Refused, FirstTimeout, CleanUp, agentVars
<1>15. ASSUME NEW c \in Call,
             CallReturns(c) \/ CallTimeout(c)
      PROVE  AnswerInv'
  BY <1>15, <1>d, <1>e DEF CallReturns, CallTimeout, agentVars
<1>16. ASSUME NEW c \in Call \cup Cancel,
             StartCall(c) \/ NotAlive(c)
      PROVE  AnswerInv'
  BY <1>16, <1>a DEF StartCall, NotAlive, tables, agentVars
<1>17. ASSUME NEW r \in Request,
             Write(r) \/ WriteFails(r) \/ Dropped(r)
      PROVE  AnswerInv'
  <2>1. CASE Write(r)
    BY <2>1, <1>a DEF Write, tables, agentVars
  <2>2. CASE WriteFails(r)
    BY <2>2, <1>d DEF WriteFails, agentVars
  <2>3. CASE Dropped(r)
    BY <2>3, <1>d DEF Dropped, agentVars
  <2> QED
    BY <1>17, <2>1, <2>2, <2>3
<1>18. CASE ReplyToAsk \/ AgentReads \/ AgentDies
  BY <1>18, <1>a DEF ReplyToAsk, AgentReads, AgentDies, tables, agentVars
<1>13. CASE UNCHANGED vars
  BY <1>13, <1>a DEF vars, tables, agentVars
<1> QED
  BY <1>1, <1>2, <1>3, <1>4, <1>5, <1>6, <1>7, <1>8, <1>10, <1>11, <1>12,
     <1>13, <1>14, <1>15, <1>16, <1>17, <1>18, <1>19
     DEF Next, PromptStep, CallStep, NotifyStep, Reader, Agent, Request

(* Every state has the types of TypeOK, for any sets of requests and         *)
(* sessions, overlapping turns and pipes of any size.                        *)
THEOREM TypeCorrect == Spec => []TypeOK
<1>1. Init => TypeOK
  BY StdioAgentAssumption DEF Init, TypeOK, Waiting, Request, StdioAgentAssumption
<1> QED
  BY <1>1, TypeStep, PTL DEF Spec

(* Whatever the agent sends under whichever ids, and however turns overlap,  *)
(* time out or are dropped, a request returns a result only if the agent     *)
(* answered it.                                                              *)
THEOREM AnswersAreOwnHolds == Spec => []AnswersAreOwn
<1>1. Init => AnswerInv
  BY DEF Init, AnswerInv, PipeAnswered, RespAnswered, ChanIsChunks, OutAnswered
<1>2. TypeOK /\ AnswerInv => AnswersAreOwn
  <2> SUFFICES ASSUME TypeOK, AnswerInv, NEW r \in Request,
                      resp[r] = "ok" \/ (r \in Prompt /\ Answer(r, "answer") \in ToSet(out[r]))
               PROVE  r \in answered
    BY DEF AnswersAreOwn
  <2>1. CASE resp[r] = "ok"
    BY <2>1 DEF AnswerInv, RespAnswered
  <2>2. CASE r \in Prompt /\ Answer(r, "answer") \in ToSet(out[r])
    <3>1. PICK i \in DOMAIN out[r] : out[r][i] = Answer(r, "answer")
      BY <2>2 DEF ToSet
    <3>2. out[r][i].kind = "answer" /\ out[r][i].id = r
      BY <3>1 DEF Answer
    <3> QED
      BY <2>2, <3>2 DEF AnswerInv, OutAnswered
  <2> QED
    BY <2>1, <2>2
<1> QED
  BY <1>1, <1>2, AnswerStep, TypeCorrect, PTL DEF Spec

-----------------------------------------------------------------------------
(* The chunks of a prompt in a sequence of lines                             *)

(* Where there is no line there is no chunk.                                 *)
LEMMA CarriesNone ==
  ASSUME NEW p \in Prompt, NEW a \in Nat
  PROVE  Carries(<<>>, p, a, a)
BY DEF Carries, Own

(* Lines followed by lines                                                   *)
LEMMA CarriesConcat ==
  ASSUME NEW q \in Seq(Line), NEW t \in Seq(Line), NEW p \in Prompt,
         NEW a \in Nat, NEW b \in Nat, NEW c \in Nat, a <= b, b <= c,
         Carries(q, p, a, b), Carries(t, p, b, c)
  PROVE  Carries(q \o t, p, a, c)
<1>0. PICK u : u = q \o t
  OBVIOUS
<1>1. /\ Len(q) \in Nat /\ Len(t) \in Nat /\ DOMAIN q = 1 .. Len(q) /\ DOMAIN t = 1 .. Len(t)
      /\ DOMAIN u = 1 .. Len(q) + Len(t)
      /\ \A i \in 1 .. Len(q) : u[i] = q[i]
      /\ \A i \in 1 .. Len(t) : u[Len(q) + i] = t[i]
  BY <1>0
<1>2. /\ \A i \in Own(q, p) : i \in DOMAIN u /\ i \in Own(u, p) /\ u[i] = q[i] /\ i <= Len(q)
      /\ \A i \in Own(t, p) : Len(q) + i \in Own(u, p) /\ u[Len(q) + i] = t[i] /\ i \in Nat \ {0}
  BY <1>1 DEF Own
<1>3. ASSUME NEW i \in Own(u, p)
      PROVE  i \in Own(q, p) \/ \E j \in Own(t, p) : i = Len(q) + j
  <2>1. CASE i <= Len(q)
    BY <1>1, <1>3, <2>1 DEF Own
  <2>2. CASE i > Len(q)
    <3>1. i - Len(q) \in DOMAIN t /\ u[i] = t[i - Len(q)] /\ i = Len(q) + (i - Len(q))
      <4>1. i \in 1 .. Len(q) + Len(t)
        BY <1>1 DEF Own
      <4>2. i - Len(q) \in 1 .. Len(t) /\ Len(q) + (i - Len(q)) = i
        BY <1>1, <2>2, <4>1
      <4> QED
        BY <1>1, <4>2
    <3>2. i - Len(q) \in Own(t, p)
      BY <1>3, <3>1 DEF Own
    <3> QED
      BY <3>1, <3>2
  <2>3. i \in 1 .. Len(q) + Len(t)
    BY <1>1 DEF Own
  <2> QED
    BY <1>1, <2>1, <2>2, <2>3
<1>4. /\ \A i \in Own(q, p) : q[i].nth \in a + 1 .. b
      /\ \A i \in Own(t, p) : t[i].nth \in b + 1 .. c
  BY DEF Carries
<1>5. ASSUME NEW i \in Own(u, p), NEW j \in Own(u, p), i < j
      PROVE  u[i].nth < u[j].nth
  <2>1. CASE j \in Own(q, p)
    <3>1. i \in Own(q, p)
      <4>1. i \in Nat /\ i < Len(q) + 1
        BY <1>1, <1>2, <1>5, <2>1 DEF Own
      <4>2. \A k \in Own(t, p) : i # Len(q) + k
        BY <1>1, <1>2, <4>1
      <4> QED
        BY <1>3, <4>2
    <3> QED
      BY <1>2, <1>5, <2>1, <3>1 DEF Carries
  <2>2. CASE \E k \in Own(t, p) : j = Len(q) + k
    <3>1. PICK k \in Own(t, p) : j = Len(q) + k
      BY <2>2
    <3>2. CASE i \in Own(q, p)
      <4>1. u[i].nth \in a + 1 .. b /\ u[j].nth \in b + 1 .. c
        BY <1>2, <1>4, <3>1, <3>2
      <4> QED
        BY <4>1
    <3>3. CASE \E k2 \in Own(t, p) : i = Len(q) + k2
      <4>1. PICK k2 \in Own(t, p) : i = Len(q) + k2
        BY <3>3
      <4>2. k2 < k
        BY <1>1, <1>2, <1>5, <3>1, <4>1
      <4> QED
        BY <1>2, <3>1, <4>1, <4>2 DEF Carries
    <3> QED
      BY <1>3, <3>2, <3>3
  <2> QED
    BY <1>3, <2>1, <2>2
<1>6. {u[i].nth : i \in Own(u, p)} = (a + 1 .. b) \cup (b + 1 .. c)
  <2>1. \A i \in Own(u, p) : u[i].nth \in (a + 1 .. b) \cup (b + 1 .. c)
    BY <1>2, <1>3, <1>4
  <2>2. \A n \in a + 1 .. b : \E i \in Own(u, p) : u[i].nth = n
    BY <1>2 DEF Carries
  <2>3. \A n \in b + 1 .. c : \E i \in Own(u, p) : u[i].nth = n
    BY <1>2 DEF Carries
  <2> QED
    BY <2>1, <2>2, <2>3
<1>7. (a + 1 .. b) \cup (b + 1 .. c) = a + 1 .. c
  OBVIOUS
<1> QED
  BY <1>0, <1>5, <1>6, <1>7 DEF Carries

(* One line more: the next chunk, or none of p.                              *)
LEMMA CarriesAppend ==
  ASSUME NEW q \in Seq(Line), NEW line \in Line, NEW p \in Prompt,
         NEW a \in Nat, NEW b \in Nat, a <= b, Carries(q, p, a, b)
  PROVE  /\ line.kind = "chunk" /\ line.id = p /\ line.nth = b + 1 => Carries(Append(q, line), p, a, b + 1)
         /\ ~(line.kind = "chunk" /\ line.id = p) => Carries(Append(q, line), p, a, b)
<1> PICK t : t = <<line>>
  OBVIOUS
<1>1. t \in Seq(Line) /\ DOMAIN t = {1} /\ t[1] = line /\ Append(q, line) = q \o t
  OBVIOUS
<1>2. ASSUME line.kind = "chunk", line.id = p, line.nth = b + 1 PROVE Carries(t, p, b, b + 1)
  <2>1. Own(t, p) = {1}
    BY <1>1, <1>2 DEF Own
  <2>2. (b + 1) .. (b + 1) = {b + 1}
    OBVIOUS
  <2> QED
    BY <1>1, <1>2, <2>1, <2>2 DEF Carries
<1>3. ASSUME ~(line.kind = "chunk" /\ line.id = p) PROVE Carries(t, p, b, b)
  <2>1. Own(t, p) = {}
    BY <1>1, <1>3 DEF Own
  <2>2. (b + 1) .. b = {}
    OBVIOUS
  <2> QED
    BY <2>1, <2>2 DEF Carries
<1>4. b + 1 \in Nat /\ b <= b + 1 /\ b <= b
  OBVIOUS
<1>5. ASSUME line.kind = "chunk", line.id = p, line.nth = b + 1 PROVE Carries(q \o t, p, a, b + 1)
  BY <1>1, <1>2, <1>4, <1>5, CarriesConcat
<1>6. ASSUME ~(line.kind = "chunk" /\ line.id = p) PROVE Carries(q \o t, p, a, b)
  BY <1>1, <1>3, <1>4, <1>6, CarriesConcat
<1> QED
  BY <1>1, <1>5, <1>6

(* The first line taken: the first chunk, or none of p.                      *)
LEMMA CarriesTail ==
  ASSUME NEW q \in Seq(Line), q # <<>>, NEW p \in Prompt,
         NEW a \in Nat, NEW b \in Nat, a <= b, Carries(q, p, a, b)
  PROVE  /\ Head(q).kind = "chunk" /\ Head(q).id = p =>
              Head(q).nth = a + 1 /\ a + 1 <= b /\ Carries(Tail(q), p, a + 1, b)
         /\ ~(Head(q).kind = "chunk" /\ Head(q).id = p) => Carries(Tail(q), p, a, b)
<1>0. PICK t : t = Tail(q)
  OBVIOUS
<1>1. /\ Len(q) \in Nat \ {0} /\ DOMAIN q = 1 .. Len(q) /\ DOMAIN t = 1 .. Len(q) - 1
      /\ Head(q) = q[1] /\ \A i \in 1 .. Len(q) - 1 : t[i] = q[i + 1]
  BY <1>0
<1>2. \A i \in Own(t, p) : i + 1 \in Own(q, p) /\ t[i] = q[i + 1] /\ i \in Nat \ {0}
  BY <1>1 DEF Own
<1>3. ASSUME NEW i \in Own(q, p), i # 1 PROVE i - 1 \in Own(t, p) /\ t[i - 1] = q[i]
  <2>1. i \in 1 .. Len(q)
    BY <1>1 DEF Own
  <2>2. i - 1 \in 1 .. Len(q) - 1 /\ (i - 1) + 1 = i
    BY <1>1, <1>3, <2>1
  <2>3. t[i - 1] = q[i]
    BY <1>1, <2>2
  <2> QED
    BY <1>1, <2>2, <2>3 DEF Own
<1>4. ASSUME NEW i \in Own(t, p), NEW j \in Own(t, p), i < j PROVE t[i].nth < t[j].nth
  <2>1. /\ i + 1 \in Own(q, p) /\ t[i] = q[i + 1]
        /\ j + 1 \in Own(q, p) /\ t[j] = q[j + 1] /\ i + 1 < j + 1
    BY <1>2, <1>4
  <2>2. q[i + 1].nth < q[j + 1].nth
    BY <2>1 DEF Carries
  <2> QED
    BY <2>1, <2>2
<1>5. CASE Head(q).kind = "chunk" /\ Head(q).id = p
  <2>1. 1 \in Own(q, p)
    BY <1>1, <1>5 DEF Own
  <2>2. \A i \in Own(q, p) : q[i].nth \in a + 1 .. b
    BY DEF Carries
  <2>3. \A i \in Own(q, p) : i # 1 => q[1].nth < q[i].nth
    <3>1. \A i \in Own(q, p) : i \in Nat \ {0}
      BY <1>1 DEF Own
    <3> QED
      BY <2>1, <3>1 DEF Carries
  <2>4. q[1].nth \in a + 1 .. b /\ a + 1 <= b
    BY <2>1, <2>2
  <2>5. PICK i \in Own(q, p) : q[i].nth = a + 1
    <3>1. a + 1 \in a + 1 .. b
      BY <2>4
    <3> QED
      BY <3>1 DEF Carries
  <2>6. q[1].nth = a + 1
    BY <2>3, <2>4, <2>5
  <2>7. {t[j].nth : j \in Own(t, p)} = (a + 1) + 1 .. b
    <3>1. ASSUME NEW j \in Own(t, p) PROVE t[j].nth \in (a + 1) + 1 .. b
      <4> PICK k : k = j + 1
        OBVIOUS
      <4>1. k \in Own(q, p) /\ k # 1 /\ t[j] = q[k]
        BY <1>2
      <4>2. q[k].nth \in a + 1 .. b /\ a + 1 < q[k].nth
        BY <2>2, <2>3, <2>6, <4>1
      <4> QED
        BY <4>1, <4>2
    <3>2. ASSUME NEW n \in (a + 1) + 1 .. b PROVE \E j \in Own(t, p) : t[j].nth = n
      <4>1. n \in a + 1 .. b /\ n # a + 1
        OBVIOUS
      <4>2. PICK j \in Own(q, p) : q[j].nth = n
        BY <4>1 DEF Carries
      <4>3. j # 1
        BY <2>6, <4>1, <4>2
      <4> QED
        BY <1>3, <4>2, <4>3
    <3> QED
      BY <3>1, <3>2
  <2> QED
    BY <1>0, <1>1, <1>4, <1>5, <2>4, <2>6, <2>7 DEF Carries
<1>6. CASE ~(Head(q).kind = "chunk" /\ Head(q).id = p)
  <2>1. \A i \in Own(q, p) : i # 1
    BY <1>1, <1>6 DEF Own
  <2>2. {t[j].nth : j \in Own(t, p)} = {q[i].nth : i \in Own(q, p)}
    <3>1. ASSUME NEW j \in Own(t, p) PROVE \E k \in Own(q, p) : q[k].nth = t[j].nth
      <4>1. j + 1 \in Own(q, p) /\ t[j] = q[j + 1]
        BY <1>2
      <4> QED
        BY <4>1
    <3>2. ASSUME NEW k \in Own(q, p) PROVE \E j \in Own(t, p) : t[j].nth = q[k].nth
      <4>1. k - 1 \in Own(t, p) /\ t[k - 1] = q[k]
        BY <1>3, <2>1
      <4> QED
        BY <4>1
    <3> QED
      BY <3>1, <3>2
  <2> QED
    BY <1>0, <1>4, <1>6, <2>2 DEF Carries
<1> QED
  BY <1>5, <1>6

(* No chunk of p: the chunks before are all.                                 *)
LEMMA CarriesAll ==
  ASSUME NEW q \in Seq(Line), NEW p \in Prompt, NEW a \in Nat, NEW b \in Nat, a <= b,
         Carries(q, p, a, b), Own(q, p) = {}
  PROVE  a = b
<1>1. a + 1 .. b = {}
  BY DEF Carries
<1> QED
  BY <1>1

-----------------------------------------------------------------------------
(* A turn that met no other has its channel listed.                          *)

Alone ==
  \A p \in Prompt : pc[p] \notin {"idle", "cleanup", "over"} /\ p \notin overlapped => Rivals(p) = {}

Held ==
  \A p \in Prompt :
    pc[p] \in {"registered", "sent", "polled", "streaming"} /\ p \notin overlapped => Holds(p)

HeldInv == Alone /\ Held

(* A turn goes on, or another one does: who was alone and held the channel   *)
(* is and does, for the clean-up of a turn that was over finds none to take. *)
LEMMA HeldStep ==
  ASSUME TypeOK, HeldInv, [Next]_vars
  PROVE  HeldInv'
<1>0. /\ pc \in [Request -> {"idle", "cleared", "over"} \cup Waiting]
      /\ updates \in [Session -> Prompt \cup {NoPrompt}]
      /\ Prompt \subseteq Request /\ SessionOf \in [Prompt -> Session]
      /\ Prompt \cap Call = {} /\ Prompt \cap Cancel = {} /\ NoPrompt \notin Prompt
  BY StdioAgentAssumption DEF TypeOK, Request
<1> DEFINE Under == {"cleared", "registered", "sent", "polled", "streaming"}
<1>1. ASSUME UNCHANGED <<updates, overlapped>>,
             \A p \in Prompt : \/ pc'[p] = pc[p]
                               \/ pc[p] \in Under \ {"cleared"} /\ pc'[p] \in Under \ {"cleared"}
                               \/ pc'[p] \in {"cleanup", "over"} /\ pc[p] \in Under
      PROVE  HeldInv'
  <2>1. \A p \in Prompt : pc'[p] \notin {"idle", "cleanup", "over"} => pc[p] \notin {"idle", "cleanup", "over"}
    BY <1>1
  <2>2. \A p \in Prompt : pc'[p] \notin {"idle", "over"} => pc[p] \notin {"idle", "over"}
    BY <1>0, <1>1 DEF Waiting
  <2>3. Alone'
    BY <1>1, <2>1, <2>2 DEF HeldInv, Alone, Rivals
  <2>4. \A p \in Prompt : pc'[p] \in {"registered", "sent", "polled", "streaming"} =>
                            pc[p] \in {"registered", "sent", "polled", "streaming"}
    BY <1>1
  <2>5. Held'
    BY <1>1, <2>4 DEF HeldInv, Held, Holds
  <2> QED
    BY <2>3, <2>5 DEF HeldInv
<1>2. ASSUME NEW p \in Prompt, Begin(p) PROVE HeldInv'
  <2>1. /\ pc' = [pc EXCEPT ![p] = "cleared"] /\ pc[p] = "idle" /\ Unlist(p)
        /\ overlapped \subseteq overlapped' /\ (p \notin overlapped' => Rivals(p) = {})
        /\ \A q \in Rivals(p) : q \notin overlapped' => pc[q] = "cleanup"
    BY <1>2 DEF Begin, Goto
  <2>2. \A q \in Prompt : q # p => pc'[q] = pc[q]
    BY <1>0, <2>1
  <2>3. ASSUME NEW q \in Prompt, q # p, pc[q] \notin {"idle", "cleanup", "over"}, q \notin overlapped'
        PROVE  SessionOf[q] # SessionOf[p]
    BY <2>1, <2>3 DEF Rivals
  <2>4. ASSUME NEW q \in Prompt, pc'[q] \notin {"idle", "cleanup", "over"}, q \notin overlapped'
        PROVE  Rivals(q)' = {}
    <3>1. CASE q = p
      BY <2>1, <2>2, <2>4, <3>1 DEF Rivals
    <3>2. CASE q # p
      <4>1. Rivals(q) = {} /\ SessionOf[q] # SessionOf[p]
        BY <2>1, <2>2, <2>3, <2>4, <3>2 DEF HeldInv, Alone
      <4> QED
        BY <2>2, <4>1 DEF Rivals
    <3> QED
      BY <3>1, <3>2
  <2>5. ASSUME NEW q \in Prompt, pc'[q] \in {"registered", "sent", "polled", "streaming"}, q \notin overlapped'
        PROVE  Holds(q)'
    <3>1. q # p
      BY <1>0, <2>1, <2>5
    <3>2. Holds(q) /\ SessionOf[q] # SessionOf[p]
      BY <2>1, <2>2, <2>3, <2>5, <3>1 DEF HeldInv, Held
    <3> QED
      BY <1>0, <2>1, <3>2 DEF Holds, Unlist
  <2> QED
    BY <2>4, <2>5 DEF HeldInv, Alone, Held
<1>3. ASSUME NEW p \in Prompt, NEW entry \in {p, NoPrompt}, pc[p] \notin {"idle", "over"}, UNCHANGED overlapped,
             updates' = [updates EXCEPT ![SessionOf[p]] = entry],
             entry = p => pc[p] = "cleared",
             pc' = [pc EXCEPT ![p] = IF entry = p THEN "registered" ELSE "over"]
      PROVE  HeldInv'
  <2>1. \A q \in Prompt : q # p => pc'[q] = pc[q]
    BY <1>0, <1>3
  <2>2. \A q \in Prompt : pc'[q] \notin {"idle", "over"} => pc[q] \notin {"idle", "over"}
    BY <1>3, <2>1
  <2>3. \A q \in Prompt : pc'[q] \notin {"idle", "cleanup", "over"} => pc[q] \notin {"idle", "cleanup", "over"}
    BY <1>0, <1>3, <2>1
  <2>4. Alone'
    BY <1>3, <2>2, <2>3 DEF HeldInv, Alone, Rivals
  <2>5. ASSUME NEW q \in Prompt, pc'[q] \in {"registered", "sent", "polled", "streaming"}, q \notin overlapped
        PROVE  Holds(q)'
    <3>1. CASE q = p
      BY <1>0, <1>3, <2>5, <3>1 DEF Holds
    <3>2. CASE q # p
      <4>1. Rivals(q) = {} /\ Holds(q)
        BY <2>1, <2>5, <3>2 DEF HeldInv, Alone, Held
      <4>2. SessionOf[q] # SessionOf[p]
        BY <1>3, <3>2, <4>1 DEF Rivals
      <4> QED
        BY <1>0, <1>3, <4>1, <4>2 DEF Holds
    <3> QED
      BY <3>1, <3>2
  <2> QED
    BY <1>3, <2>4, <2>5 DEF HeldInv, Held
<1>4. ASSUME NEW p \in Prompt, Register(p) PROVE HeldInv'
  <2>1. pc[p] = "cleared" /\ pc' = [pc EXCEPT ![p] = "registered"] /\ UNCHANGED overlapped
    BY <1>4 DEF Register, Goto, agentVars
  <2> QED
    BY <1>3, <1>4, <2>1 DEF Register
<1>5. ASSUME NEW p \in Prompt, Complete(p) \/ FirstTimeout(p) \/ CleanUp(p)
      PROVE  HeldInv'
  <2>1. /\ pc[p] \notin {"idle", "over"} /\ pc' = [pc EXCEPT ![p] = "over"] /\ UNCHANGED overlapped
        /\ updates' = [updates EXCEPT ![SessionOf[p]] = NoPrompt]
    BY <1>5 DEF Complete, FirstTimeout, CleanUp, Leave, Goto, Unlist, agentVars
  <2>2. NoPrompt # p
    BY <1>0
  <2> QED
    BY <1>3, <2>1, <2>2
<1>6. ASSUME NEW p \in Prompt,
             \/ FirstChunk(p) \/ NoChunkYet(p) \/ PollAgain(p) \/ Refused(p) \/ RelayChunk(p)
             \/ RelayGone(p) \/ RelayClosed(p) \/ RelayFinish(p) \/ IdleTimeout(p)
      PROVE  HeldInv'
  <2>1. UNCHANGED <<updates, overlapped>>
    BY <1>6 DEF FirstChunk, NoChunkYet, PollAgain, Refused, RelayChunk, RelayGone, RelayClosed,
                RelayFinish, IdleTimeout, tables, agentVars
  <2>2. \/ UNCHANGED pc
        \/ /\ pc[p] \in {"sent", "polled", "streaming"}
           /\ \E place \in {"sent", "polled", "streaming", "cleanup", "over"} : pc' = [pc EXCEPT ![p] = place]
    BY <1>6 DEF FirstChunk, NoChunkYet, PollAgain, Refused, RelayChunk, RelayGone, RelayClosed,
                RelayFinish, IdleTimeout, Goto, Leave
  <2> QED
    BY <1>0, <1>1, <2>1, <2>2
<1>7. ASSUME NEW r \in Request, Write(r) \/ WriteFails(r) \/ Dropped(r)
      PROVE  HeldInv'
  <2>1. UNCHANGED <<updates, overlapped>>
    BY <1>7 DEF Write, WriteFails, Dropped, tables, agentVars
  <2>2. /\ pc[r] \in {"cleared", "registered", "sent", "polled"}
        /\ \E place \in {"over", "sent"} :
             pc' = [pc EXCEPT ![r] = place] /\ (place = "sent" => pc[r] = "registered")
    BY <1>7 DEF Write, WriteFails, Dropped, Goto, Leave
  <2> QED
    BY <1>0, <1>1, <2>1, <2>2
<1>8. ASSUME NEW c \in Call \cup Cancel,
             StartCall(c) \/ NotAlive(c) \/ (c \in Call /\ (CallReturns(c) \/ CallTimeout(c)))
      PROVE  HeldInv'
  <2>1. UNCHANGED <<updates, overlapped>> /\ \E place : pc' = [pc EXCEPT ![c] = place]
    BY <1>8 DEF StartCall, NotAlive, CallReturns, CallTimeout, Goto, Leave, tables, agentVars
  <2> QED
    BY <1>0, <1>1, <2>1
<1>9. CASE Reader
  <2>1. UNCHANGED <<pc, updates, overlapped>>
    BY <1>9 DEF Reader, ReadChunk, ReadAnswer, ReadAsk, ReplyToAsk, Eof, tables, agentVars
  <2> QED
    BY <1>1, <2>1
<1>10. CASE Agent
  <2>1. UNCHANGED <<pc, updates, overlapped>>
    BY <1>10 DEF Agent, AgentReads, AgentAsks, AgentDies, AgentStreams, AgentAnswers, tables
  <2> QED
    BY <1>1, <2>1
<1>11. CASE UNCHANGED vars
  BY <1>1, <1>11 DEF vars, tables, agentVars
<1> QED
  BY <1>2, <1>4, <1>5, <1>6, <1>7, <1>8, <1>9, <1>10, <1>11
     DEF Next, PromptStep, CallStep, NotifyStep

-----------------------------------------------------------------------------
(* A prompt is written, read by the agent and answered once.                 *)

Early == {"idle", "cleared", "registered"}

AskedOf(p) ==
  /\ pc[p] \in Early => p \notin working \cup answered /\ sent[p] = 0
  /\ \A i \in DOMAIN toAgent : toAgent[i] = p =>
       /\ pc[p] \notin Early /\ p \notin working \cup answered
       /\ \A j \in DOMAIN toAgent : toAgent[j] = p => j = i
  /\ p \in working => p \notin answered

AskedOnce == \A p \in Prompt : AskedOf(p)

(* The agent works on a prompt once, after its line is written.              *)
LEMMA AskedStep ==
  ASSUME TypeOK, AskedOnce, [Next]_vars
  PROVE  AskedOnce'
<1> SUFFICES ASSUME NEW p \in Prompt PROVE AskedOf(p)'
  BY DEF AskedOnce
<1>0. /\ AskedOf(p) /\ pc \in [Request -> {"idle", "cleared", "over"} \cup Waiting]
      /\ p \in Request /\ p \notin Call /\ p \notin Cancel /\ p # "reply"
      /\ toAgent \in Seq(Request \cup {"reply"})
  BY StdioAgentAssumption DEF TypeOK, Request, AskedOnce
<1>1. ASSUME UNCHANGED <<toAgent, working, sent, answered>>, pc'[p] \in Early => pc[p] \in Early,
             pc'[p] # pc[p] => pc[p] # "registered" \/ pc'[p] = "over"
      PROVE  AskedOf(p)'
  BY <1>0, <1>1 DEF AskedOf
<1>2. ASSUME NEW q \in Prompt, PromptStep(q) PROVE AskedOf(p)'
  <2>1. UNCHANGED <<toAgent, working, sent, answered>>
    BY <1>2 DEF PromptStep, Begin, Register, FirstChunk, NoChunkYet, PollAgain, Complete, Refused,
       FirstTimeout, RelayChunk, RelayGone, RelayClosed, RelayFinish, IdleTimeout, CleanUp, tables, agentVars
  <2>2. \/ UNCHANGED pc
        \/ \E place \in {"sent", "polled", "streaming", "cleanup", "over"} :
             pc' = [pc EXCEPT ![q] = place] /\ pc[q] \notin Early
        \/ pc[q] = "idle" /\ pc' = [pc EXCEPT ![q] = "cleared"]
        \/ pc[q] = "cleared" /\ pc' = [pc EXCEPT ![q] = "registered"]
    BY <1>2 DEF PromptStep, Begin, Register, FirstChunk, NoChunkYet, PollAgain, Complete, Refused,
       FirstTimeout, RelayChunk, RelayGone, RelayClosed, RelayFinish, IdleTimeout, CleanUp, Goto, Leave, Early
  <2>3. (pc'[p] \in Early => pc[p] \in Early) /\ (pc'[p] # pc[p] => pc[p] # "registered" \/ pc'[p] = "over")
    BY <1>0, <2>2 DEF Early
  <2> QED
    BY <1>1, <2>1, <2>3
<1>3. ASSUME NEW c \in Call \cup Cancel,
             StartCall(c) \/ NotAlive(c) \/ (c \in Call /\ (CallReturns(c) \/ CallTimeout(c)))
      PROVE  AskedOf(p)'
  <2>1. UNCHANGED <<toAgent, working, sent, answered>> /\ \E place : pc' = [pc EXCEPT ![c] = place]
    BY <1>3 DEF StartCall, NotAlive, CallReturns, CallTimeout, Goto, Leave, tables, agentVars
  <2>2. pc'[p] = pc[p]
    BY <1>0, <2>1
  <2> QED
    BY <1>1, <2>1, <2>2
<1>4. ASSUME NEW r \in Request, WriteFails(r) \/ Dropped(r) PROVE AskedOf(p)'
  <2>1. UNCHANGED <<toAgent, working, sent, answered>> /\ pc' = [pc EXCEPT ![r] = "over"]
    BY <1>4 DEF WriteFails, Dropped, Goto, Leave, agentVars
  <2>2. pc'[p] = pc[p] \/ pc'[p] = "over"
    BY <1>0, <2>1
  <2> QED
    BY <1>1, <2>1, <2>2 DEF Early
<1>5. ASSUME NEW r \in Request, Write(r) PROVE AskedOf(p)'
  <2>1. /\ pc[r] = "registered" /\ toAgent' = Append(toAgent, r)
        /\ UNCHANGED <<working, sent, answered>>
        /\ \E place \in {"over", "sent"} : pc' = [pc EXCEPT ![r] = place]
    BY <1>5 DEF Write, Goto, tables, agentVars
  <2>2. /\ Len(toAgent) \in Nat /\ DOMAIN toAgent = 1 .. Len(toAgent)
        /\ DOMAIN toAgent' = 1 .. Len(toAgent) + 1
        /\ \A i \in DOMAIN toAgent : toAgent'[i] = toAgent[i]
        /\ toAgent'[Len(toAgent) + 1] = r
    BY <1>0, <2>1
  <2>3. CASE r = p
    <3>1. pc[p] \in Early /\ pc'[p] \notin Early
      BY <1>0, <2>1, <2>3 DEF Early
    <3>2. \A i \in DOMAIN toAgent : toAgent[i] # p
      BY <1>0, <3>1 DEF AskedOf
    <3>3. \A i \in DOMAIN toAgent' : toAgent'[i] = p => i = Len(toAgent) + 1
      BY <2>2, <3>2
    <3> QED
      BY <1>0, <2>1, <3>1, <3>3 DEF AskedOf
  <2>4. CASE r # p
    <3>1. pc'[p] = pc[p]
      BY <1>0, <2>1, <2>4
    <3>2. \A i \in DOMAIN toAgent' : toAgent'[i] = p => i \in DOMAIN toAgent /\ toAgent[i] = p
      BY <2>2, <2>4
    <3> QED
      BY <1>0, <2>1, <3>1, <3>2 DEF AskedOf
  <2> QED
    BY <2>3, <2>4
<1>6. CASE ReadChunk \/ ReadAnswer \/ ReadAsk \/ Eof
  <2>1. UNCHANGED <<pc, toAgent, working, sent, answered>>
    BY <1>6 DEF ReadChunk, ReadAnswer, ReadAsk, Eof, agentVars
  <2> QED
    BY <1>1, <2>1
<1>7. CASE ReplyToAsk
  <2>1. UNCHANGED <<pc, working, sent, answered>>
    BY <1>7 DEF ReplyToAsk, agentVars
  <2>2. \A i \in DOMAIN toAgent' : toAgent'[i] = p => i \in DOMAIN toAgent /\ toAgent[i] = p
    <3>1. CASE toAgent' = toAgent
      BY <3>1
    <3>2. CASE toAgent' = Append(toAgent, "reply")
      <4>1. /\ Len(toAgent) \in Nat /\ DOMAIN toAgent = 1 .. Len(toAgent)
            /\ DOMAIN toAgent' = 1 .. Len(toAgent) + 1
            /\ \A i \in DOMAIN toAgent : toAgent'[i] = toAgent[i]
            /\ toAgent'[Len(toAgent) + 1] = "reply"
        BY <1>0, <3>2
      <4> QED
        BY <1>0, <4>1
    <3> QED
      BY <1>7, <3>1, <3>2 DEF ReplyToAsk
  <2> QED
    BY <1>0, <2>1, <2>2 DEF AskedOf
<1>8. CASE AgentReads
  <2>1. /\ toAgent # <<>> /\ toAgent' = Tail(toAgent) /\ UNCHANGED <<pc, sent, answered>>
        /\ working' = IF Head(toAgent) \in Prompt \cup Call THEN working \cup {Head(toAgent)} ELSE working
    BY <1>8 DEF AgentReads
  <2>2. /\ Len(toAgent) \in Nat \ {0} /\ DOMAIN toAgent = 1 .. Len(toAgent)
        /\ DOMAIN toAgent' = 1 .. Len(toAgent) - 1 /\ Head(toAgent) = toAgent[1]
        /\ \A i \in 1 .. Len(toAgent) - 1 : toAgent'[i] = toAgent[i + 1]
    BY <1>0, <2>1
  <2>3. \A i \in DOMAIN toAgent' : toAgent'[i] = p =>
          i + 1 \in DOMAIN toAgent /\ toAgent[i + 1] = p /\ i + 1 # 1
    BY <2>2
  <2>4. CASE Head(toAgent) = p
    <3>1. /\ pc[p] \notin Early /\ p \notin answered
          /\ \A j \in DOMAIN toAgent : toAgent[j] = p => j = 1
      BY <1>0, <2>2, <2>4 DEF AskedOf
    <3>2. \A i \in DOMAIN toAgent' : toAgent'[i] # p
      BY <2>3, <3>1
    <3> QED
      BY <2>1, <3>1, <3>2 DEF AskedOf
  <2>5. CASE Head(toAgent) # p
    <3>1. p \in working' <=> p \in working
      BY <2>1, <2>5
    <3>2. ASSUME NEW i \in DOMAIN toAgent', toAgent'[i] = p
          PROVE  /\ pc[p] \notin Early /\ p \notin working \cup answered
                 /\ \A j \in DOMAIN toAgent' : toAgent'[j] = p => j = i
      <4>1. /\ pc[p] \notin Early /\ p \notin working \cup answered
            /\ \A j \in DOMAIN toAgent : toAgent[j] = p => j = i + 1
        BY <1>0, <2>3, <3>2 DEF AskedOf
      <4>2. \A j \in DOMAIN toAgent' : toAgent'[j] = p => j + 1 = i + 1 /\ j \in Nat /\ i \in Nat
        BY <2>2, <2>3, <4>1
      <4> QED
        BY <4>1, <4>2
    <3> QED
      BY <1>0, <2>1, <3>1, <3>2 DEF AskedOf
  <2> QED
    BY <2>4, <2>5
<1>9. CASE AgentAsks
  <2>1. UNCHANGED <<pc, toAgent, working, sent, answered>>
    BY <1>9 DEF AgentAsks
  <2> QED
    BY <1>1, <2>1
<1>10. CASE AgentDies
  <2>1. UNCHANGED <<pc, sent, answered>> /\ toAgent' = <<>> /\ working' = {}
    BY <1>10 DEF AgentDies
  <2> QED
    BY <1>0, <2>1 DEF AskedOf
<1>11. ASSUME NEW q \in Prompt, AgentStreams(q) PROVE AskedOf(p)'
  <2>1. /\ UNCHANGED <<pc, toAgent, working, answered>> /\ q \in working
        /\ \E n : sent' = [sent EXCEPT ![q] = n]
    BY <1>11 DEF AgentStreams
  <2>2. pc[p] \in Early => sent'[p] = sent[p]
    BY <1>0, <2>1 DEF AskedOf, TypeOK
  <2> QED
    BY <1>0, <2>1, <2>2 DEF AskedOf
<1>12. ASSUME NEW r \in Prompt \cup Call, AgentAnswers(r) PROVE AskedOf(p)'
  <2>1. /\ UNCHANGED <<pc, toAgent, sent>> /\ r \in working
        /\ working' = working \ {r} /\ answered' = answered \cup {r}
    BY <1>12 DEF AgentAnswers
  <2> QED
    BY <1>0, <2>1 DEF AskedOf
<1>13. CASE UNCHANGED vars
  BY <1>1, <1>13 DEF vars, agentVars
<1> QED
  BY <1>2, <1>3, <1>4, <1>5, <1>6, <1>7, <1>8, <1>9, <1>10, <1>11, <1>12, <1>13
     DEF Next, CallStep, NotifyStep, Reader, Agent

-----------------------------------------------------------------------------
(* The agent's answer comes after the chunks of the prompt.                  *)

PipeChunks ==
  \A i \in DOMAIN fromAgent : fromAgent[i].kind = "chunk" => fromAgent[i].id \in Prompt

AnswerLast ==
  \A i, j \in DOMAIN fromAgent :
    i < j /\ fromAgent[i].kind = "answer" /\ fromAgent[j].kind = "chunk" =>
      fromAgent[i].id # fromAgent[j].id

RespLast == \A p \in Prompt : resp[p] = "ok" => Own(fromAgent, p) = {}

PipeInv == PipeChunks /\ AnswerLast /\ RespLast

(* One more line of the agent                                                *)
LEMMA PipeGrows ==
  ASSUME TypeOK, AnswerInv, PipeInv, NEW line \in Line, fromAgent' = Append(fromAgent, line),
         UNCHANGED resp, line.kind = "chunk" => line.id \in Prompt \ answered
  PROVE  PipeInv'
<1>1. /\ fromAgent \in Seq(Line) /\ Len(fromAgent) \in Nat /\ DOMAIN fromAgent = 1 .. Len(fromAgent)
      /\ DOMAIN fromAgent' = 1 .. Len(fromAgent) + 1
      /\ \A i \in DOMAIN fromAgent : fromAgent'[i] = fromAgent[i]
      /\ fromAgent'[Len(fromAgent) + 1] = line
  BY DEF TypeOK
<1>2. PipeChunks'
  BY <1>1 DEF PipeInv, PipeChunks
<1>3. AnswerLast'
  <2> SUFFICES ASSUME NEW i \in DOMAIN fromAgent', NEW j \in DOMAIN fromAgent', i < j,
                      fromAgent'[i].kind = "answer", fromAgent'[j].kind = "chunk"
               PROVE  fromAgent'[i].id # fromAgent'[j].id
    BY DEF AnswerLast
  <2>1. i \in DOMAIN fromAgent /\ fromAgent'[i] = fromAgent[i]
    BY <1>1
  <2>2. CASE j \in DOMAIN fromAgent
    BY <1>1, <2>1, <2>2 DEF PipeInv, AnswerLast
  <2>3. CASE j = Len(fromAgent) + 1
    BY <1>1, <2>1, <2>3 DEF AnswerInv, PipeAnswered
  <2> QED
    BY <1>1, <2>2, <2>3
<1>4. RespLast'
  <2> SUFFICES ASSUME NEW p \in Prompt, resp[p] = "ok", NEW i \in Own(fromAgent, p)' PROVE FALSE
    BY DEF RespLast
  <2>1. i \in DOMAIN fromAgent' /\ fromAgent'[i].kind = "chunk" /\ fromAgent'[i].id = p
    BY DEF Own
  <2>2. CASE i \in DOMAIN fromAgent
    BY <1>1, <2>1, <2>2 DEF PipeInv, RespLast, Own
  <2>3. CASE i = Len(fromAgent) + 1
    BY <1>1, <2>1, <2>3 DEF AnswerInv, RespAnswered, Request
  <2> QED
    BY <1>1, <2>1, <2>2, <2>3
<1> QED
  BY <1>2, <1>3, <1>4 DEF PipeInv

(* A line is read, and with the agent's answer the prompt is resolved.       *)
LEMMA PipeShrinks ==
  ASSUME TypeOK, PipeInv, fromAgent # <<>>, fromAgent' = Tail(fromAgent),
         \A p \in Prompt : resp'[p] = "ok" =>
           resp[p] = "ok" \/ (Head(fromAgent).kind = "answer" /\ Head(fromAgent).id = p)
  PROVE  PipeInv'
<1>1. /\ Len(fromAgent) \in Nat \ {0} /\ DOMAIN fromAgent = 1 .. Len(fromAgent)
      /\ DOMAIN fromAgent' = 1 .. Len(fromAgent) - 1 /\ Head(fromAgent) = fromAgent[1]
      /\ \A i \in 1 .. Len(fromAgent) - 1 : fromAgent'[i] = fromAgent[i + 1]
  BY DEF TypeOK
<1>2. \A i \in DOMAIN fromAgent' :
        i \in Nat \ {0} /\ i + 1 \in DOMAIN fromAgent /\ fromAgent'[i] = fromAgent[i + 1] /\ 1 < i + 1
  BY <1>1
<1>3. 1 \in DOMAIN fromAgent
  BY <1>1
<1>4. PipeChunks'
  BY <1>2 DEF PipeInv, PipeChunks
<1>5. AnswerLast'
  <2> SUFFICES ASSUME NEW i \in DOMAIN fromAgent', NEW j \in DOMAIN fromAgent', i < j,
                      fromAgent'[i].kind = "answer", fromAgent'[j].kind = "chunk"
               PROVE  fromAgent'[i].id # fromAgent'[j].id
    BY DEF AnswerLast
  <2>1. i + 1 < j + 1
    BY <1>2
  <2> QED
    BY <1>2, <2>1 DEF PipeInv, AnswerLast
<1>6. RespLast'
  <2> SUFFICES ASSUME NEW p \in Prompt, resp'[p] = "ok", NEW i \in Own(fromAgent, p)' PROVE FALSE
    BY DEF RespLast
  <2>1. i \in DOMAIN fromAgent' /\ fromAgent'[i].kind = "chunk" /\ fromAgent'[i].id = p
    BY DEF Own
  <2>2. i + 1 \in Own(fromAgent, p) /\ 1 < i + 1
    BY <1>2, <2>1 DEF Own
  <2>3. CASE resp[p] = "ok"
    BY <2>2, <2>3 DEF PipeInv, RespLast
  <2>4. CASE Head(fromAgent).kind = "answer" /\ Head(fromAgent).id = p
    BY <1>1, <1>3, <2>2, <2>4 DEF PipeInv, AnswerLast, Own
  <2> QED
    BY <2>3, <2>4
<1> QED
  BY <1>4, <1>5, <1>6 DEF PipeInv

(* What the agent writes                                                     *)
LEMMA Says ==
  ASSUME TypeOK, AskedOnce, AgentAsks \/ (\E r \in Prompt \cup Call : AgentAnswers(r))
                              \/ \E p \in Prompt : AgentStreams(p)
  PROVE  \E line \in Line : /\ fromAgent' = Append(fromAgent, line) /\ UNCHANGED <<pc, tables>>
                            /\ line.kind = "chunk" =>
                                 /\ line.id \in Prompt \ answered /\ line.nth = sent[line.id] + 1
                                 /\ sent' = [sent EXCEPT ![line.id] = @ + 1] /\ UNCHANGED answered
                            /\ line.kind # "chunk" => UNCHANGED sent /\ answered \subseteq answered'
<1>1. CASE AgentAsks
  <2>1. PICK r \in Request : AgentSays(Answer(r, "ask"))
    BY <1>1 DEF AgentAsks, Request
  <2>2. Answer(r, "ask") \in Line /\ Answer(r, "ask").kind # "chunk"
    BY AnswerIsLine DEF Answer
  <2> QED
    BY <1>1, <2>1, <2>2 DEF AgentAsks, AgentSays
<1>2. ASSUME NEW r \in Prompt \cup Call, AgentAnswers(r)
      PROVE  \E line \in Line : /\ fromAgent' = Append(fromAgent, line) /\ UNCHANGED <<pc, tables>>
                                /\ line.kind # "chunk" /\ UNCHANGED sent /\ answered \subseteq answered'
  <2>1. PICK kind \in {"answer", "error"} : AgentSays(Answer(r, kind))
    BY <1>2 DEF AgentAnswers
  <2>2. Answer(r, kind) \in Line /\ Answer(r, kind).kind # "chunk"
    BY AnswerIsLine DEF Answer, Request
  <2> QED
    BY <1>2, <2>1, <2>2 DEF AgentAnswers, AgentSays
<1>3. ASSUME NEW p \in Prompt, AgentStreams(p)
      PROVE  \E line \in Line : /\ fromAgent' = Append(fromAgent, line) /\ UNCHANGED <<pc, tables>>
                                /\ line.kind = "chunk" /\ line.id \in Prompt \ answered
                                /\ line.nth = sent[line.id] + 1 /\ UNCHANGED answered
                                /\ sent' = [sent EXCEPT ![line.id] = @ + 1]
  <2>1. PICK line : line = Chunk(p, sent[p] + 1)
    OBVIOUS
  <2>2. sent[p] + 1 \in 0 .. MaxChunks /\ p \notin answered
    BY <1>3, StdioAgentAssumption DEF AgentStreams, TypeOK, AskedOnce, AskedOf
  <2>3. line \in Line /\ line.kind = "chunk" /\ line.id = p /\ line.nth = sent[p] + 1
    BY <2>1, <2>2, ChunkIsLine DEF Chunk
  <2>4. /\ fromAgent' = Append(fromAgent, line) /\ UNCHANGED <<pc, tables, answered>>
        /\ sent' = [sent EXCEPT ![p] = @ + 1]
    BY <1>3, <2>1 DEF AgentStreams, AgentSays
  <2> QED
    BY <2>2, <2>3, <2>4
<1> QED
  BY <1>1, <1>2, <1>3

(* Answers stay behind the chunks they end.                                  *)
LEMMA PipeStep ==
  ASSUME TypeOK, AnswerInv, AskedOnce, PipeInv, [Next]_vars
  PROVE  PipeInv'
<1>0. resp \in [Request -> {"none", "ok", "error"}] /\ Prompt \subseteq Request
  BY DEF TypeOK, Request
<1>1. ASSUME UNCHANGED fromAgent, \A p \in Prompt : resp'[p] = "ok" => resp[p] = "ok" PROVE PipeInv'
  BY <1>1 DEF PipeInv, PipeChunks, AnswerLast, RespLast, Own
<1>11. ASSUME NEW r \in Request, NEW from, Leave(r, from), UNCHANGED fromAgent PROVE PipeInv'
  BY <1>0, <1>1, <1>11, Leaves
<1>12. Call \subseteq Request
  BY DEF Request
<1>2. CASE ReadChunk \/ ReadAsk
  <2>1. fromAgent # <<>> /\ fromAgent' = Tail(fromAgent) /\ UNCHANGED resp
    BY <1>2 DEF ReadChunk, ReadAsk, NextLine, tables
  <2> QED
    BY <2>1, PipeShrinks
<1>3. CASE ReadAnswer
  <2>1. /\ fromAgent # <<>> /\ fromAgent' = Tail(fromAgent)
        /\ Head(fromAgent).kind \in {"answer", "error"}
        /\ Resolve(Head(fromAgent).id, IF Head(fromAgent).kind = "answer" THEN "ok" ELSE "error")
    BY <1>3 DEF ReadAnswer, NextLine
  <2>2. \A p \in Prompt : resp'[p] = "ok" =>
          resp[p] = "ok" \/ (Head(fromAgent).kind = "answer" /\ Head(fromAgent).id = p)
    BY <1>0, <2>1 DEF Resolve, Awaited
  <2> QED
    BY <2>1, <2>2, PipeShrinks
<1>4. CASE Eof
  <2>1. UNCHANGED fromAgent /\ \A p \in Prompt : resp'[p] = "ok" => resp[p] = "ok"
    BY <1>0, <1>4 DEF Eof
  <2> QED
    BY <2>1 DEF PipeInv, PipeChunks, AnswerLast, RespLast
<1>5. CASE ReplyToAsk \/ AgentReads \/ AgentDies
  <2>1. UNCHANGED <<fromAgent, resp>>
    BY <1>5 DEF ReplyToAsk, AgentReads, AgentDies, tables
  <2> QED
    BY <1>1, <2>1
<1>6. CASE AgentAsks \/ (\E r \in Prompt \cup Call : AgentAnswers(r)) \/ \E p \in Prompt : AgentStreams(p)
  <2>1. PICK line \in Line : /\ fromAgent' = Append(fromAgent, line) /\ UNCHANGED <<pc, tables>>
                             /\ line.kind = "chunk" => line.id \in Prompt \ answered
    BY <1>6, Says
  <2>2. UNCHANGED resp
    BY <2>1 DEF tables
  <2> QED
    BY <2>1, <2>2, PipeGrows
<1>7. ASSUME NEW p \in Prompt, PromptStep(p) PROVE PipeInv'
  <2>1. CASE Complete(p) \/ Refused(p) \/ FirstTimeout(p) \/ CleanUp(p)
    BY <1>0, <1>11, <2>1 DEF Complete, Refused, FirstTimeout, CleanUp
  <2>2. CASE ~(Complete(p) \/ Refused(p) \/ FirstTimeout(p) \/ CleanUp(p))
    <3>1. UNCHANGED <<fromAgent, resp>>
      BY <1>7, <2>2 DEF PromptStep, Begin, Register, FirstChunk, NoChunkYet, PollAgain, RelayChunk, RelayGone,
         RelayClosed, RelayFinish, IdleTimeout, tables
    <3> QED
      BY <1>1, <3>1
  <2> QED
    BY <2>1, <2>2
<1>8. ASSUME NEW c \in Call \cup Cancel,
             StartCall(c) \/ NotAlive(c) \/ (c \in Call /\ (CallReturns(c) \/ CallTimeout(c)))
      PROVE  PipeInv'
  <2>1. CASE StartCall(c) \/ NotAlive(c)
    BY <1>1, <2>1 DEF StartCall, NotAlive, tables
  <2>2. CASE c \in Call /\ (CallReturns(c) \/ CallTimeout(c))
    BY <1>11, <1>12, <2>2 DEF CallReturns, CallTimeout
  <2> QED
    BY <1>8, <2>1, <2>2
<1>9. ASSUME NEW r \in Request, Write(r) \/ WriteFails(r) \/ Dropped(r) PROVE PipeInv'
  <2>1. CASE Write(r)
    BY <1>1, <2>1 DEF Write, tables
  <2>2. CASE WriteFails(r) \/ Dropped(r)
    BY <1>11, <2>2 DEF WriteFails, Dropped
  <2> QED
    BY <1>9, <2>1, <2>2
<1>10. CASE UNCHANGED vars
  BY <1>1, <1>10 DEF vars, tables
<1> QED
  BY <1>2, <1>3, <1>4, <1>5, <1>6, <1>7, <1>8, <1>9, <1>10 DEF Next, CallStep, NotifyStep, Reader, Agent

-----------------------------------------------------------------------------
(* The chunks of a turn are with its caller, in its channel, in the pipe.    *)

Ended == {"cleanup", "over"}

(* Up to its end, the a first are with the caller, those up to b are in the  *)
(* channel, and the others in the pipe as long as they can get there.        *)
Flows(p) ==
  \E a, b \in Nat : /\ a <= b /\ b <= sent[p] /\ Carries(out[p], p, 0, a) /\ Carries(chan[p], p, a, b)
                    /\ Holds(p) \/ pc[p] \in Early => Carries(fromAgent, p, b, sent[p])

CarryOf(p) ==
  /\ pc[p] \in Early \cup {"sent", "polled"} => out[p] = <<>>
  /\ pc[p] = "streaming" => \A i \in DOMAIN out[p] : out[p][i].kind = "chunk"
  /\ pc[p] \notin Ended => Flows(p)
  /\ pc[p] \in Ended => \E n \in 0 .. sent[p] : Carries(out[p], p, 0, n)
  /\ pc[p] \in Ended /\ Terminated(p) /\ p \notin overlapped =>
       p \in answered /\ Carries(out[p], p, 0, sent[p])

CarryInv == \A p \in Prompt : CarryOf(p)

(* Chunks alone are no end.                                                  *)
LEMMA NoTerminal ==
  ASSUME TypeOK, NEW p \in Prompt, \A i \in DOMAIN out[p] : out[p][i].kind = "chunk"
  PROVE  ~Terminated(p)
<1>1. out[p] \in Seq(Line)
  BY DEF TypeOK
<1>2. out[p] # <<>> => Len(out[p]) \in DOMAIN out[p]
  BY <1>1
<1> QED
  BY <1>2 DEF Terminated, Last

(* A turn that is given up has no end.                                       *)
LEMMA GivenUp ==
  ASSUME TypeOK, NEW p \in Prompt, CarryOf(p), pc'[p] \in Ended, out'[p] = out[p], sent'[p] = sent[p],
         pc[p] \notin Ended, pc[p] \in {"idle", "cleared"} \cup Waiting
  PROVE  CarryOf(p)'
<1>1. \A i \in DOMAIN out[p] : out[p][i].kind = "chunk"
  BY DEF CarryOf, Waiting, Early, Ended
<1>2. ~Terminated(p)'
  BY <1>1, NoTerminal DEF Terminated
<1>3. \E n \in 0 .. sent[p] : Carries(out[p], p, 0, n)
  <2>1. PICK a, b \in Nat : a <= b /\ b <= sent[p] /\ Carries(out[p], p, 0, a)
    BY DEF CarryOf, Flows
  <2>2. sent[p] \in Nat
    BY StdioAgentAssumption DEF TypeOK
  <2>3. a \in 0 .. sent[p]
    BY <2>1, <2>2
  <2> QED
    BY <2>1, <2>3
<1>4. pc'[p] \notin Early \cup {"sent", "polled", "streaming"}
  BY DEF Early, Ended
<1> QED
  BY <1>2, <1>3, <1>4 DEF CarryOf

(* Nothing happens to the turn's chunks.                                     *)
LEMMA CarryStays ==
  ASSUME NEW p \in Prompt, CarryOf(p), out'[p] = out[p], UNCHANGED fromAgent, sent'[p] = sent[p],
         answered \subseteq answered', overlapped \subseteq overlapped',
         pc'[p] \notin Ended => chan'[p] = chan[p],
         pc'[p] \notin Ended /\ (Holds(p)' \/ pc'[p] \in Early) => Holds(p) \/ pc[p] \in Early,
         \/ pc'[p] = pc[p]
         \/ pc[p] \in Early \cup {"sent", "polled"} /\ pc'[p] \in Early \cup {"sent", "polled"}
         \/ pc[p] = "cleanup" /\ pc'[p] = "over"
  PROVE  CarryOf(p)'
<1>1. pc'[p] \notin Ended => pc[p] \notin Ended
  BY DEF Early, Ended
<1>2. pc'[p] \notin Ended /\ Flows(p) => Flows(p)'
  BY DEF Flows
<1>3. Terminated(p)' <=> Terminated(p)
  BY DEF Terminated
<1> QED
  BY <1>1, <1>2, <1>3 DEF CarryOf, Early, Ended

(* One more line in the pipe                                                 *)
LEMMA CarryGrows ==
  ASSUME TypeOK, NEW p \in Prompt, CarryOf(p), UNCHANGED <<pc, out, chan, updates, overlapped>>,
         NEW line \in Line, fromAgent' = Append(fromAgent, line),
         line.kind = "chunk" =>
           /\ line.id \in Prompt \ answered /\ line.nth = sent[line.id] + 1
           /\ sent' = [sent EXCEPT ![line.id] = @ + 1] /\ UNCHANGED answered,
         line.kind # "chunk" => UNCHANGED sent /\ answered \subseteq answered'
  PROVE  CarryOf(p)'
<1>0. fromAgent \in Seq(Line) /\ sent[p] \in Nat
  BY StdioAgentAssumption DEF TypeOK
<1>1. (Terminated(p)' <=> Terminated(p)) /\ (Holds(p)' <=> Holds(p))
  BY DEF Terminated, Holds
<1>2. CASE line.kind = "chunk" /\ line.id = p
  <2>1. p \notin answered /\ sent'[p] = sent[p] + 1
    BY <1>2 DEF TypeOK
  <2>2. Flows(p) => Flows(p)'
    <3> SUFFICES ASSUME Flows(p) PROVE Flows(p)'
      OBVIOUS
    <3>1. PICK a, b \in Nat : /\ a <= b /\ b <= sent[p] /\ Carries(out[p], p, 0, a) /\ Carries(chan[p], p, a, b)
                              /\ Holds(p) \/ pc[p] \in Early => Carries(fromAgent, p, b, sent[p])
      BY DEF Flows
    <3>2. Carries(fromAgent, p, b, sent[p]) => Carries(Append(fromAgent, line), p, b, sent[p] + 1)
      BY <1>0, <1>2, <3>1, CarriesAppend
    <3>3. b <= sent'[p]
      BY <1>0, <2>1, <3>1
    <3>4. (Holds(p) \/ pc[p] \in Early)' => Carries(fromAgent, p, b, sent[p])'
      BY <1>1, <2>1, <3>1, <3>2
    <3> QED
      BY <3>1, <3>3, <3>4 DEF Flows
  <2>3. \A n \in 0 .. sent[p] : n \in 0 .. sent'[p]
    BY <1>0, <2>1
  <2> QED
    BY <1>1, <2>1, <2>2, <2>3 DEF CarryOf
<1>3. CASE ~(line.kind = "chunk" /\ line.id = p)
  <2>1. sent'[p] = sent[p] /\ answered \subseteq answered'
    BY <1>3 DEF TypeOK
  <2>2. Flows(p) => Flows(p)'
    <3> SUFFICES ASSUME Flows(p) PROVE Flows(p)'
      OBVIOUS
    <3>1. PICK a, b \in Nat : /\ a <= b /\ b <= sent[p] /\ Carries(out[p], p, 0, a) /\ Carries(chan[p], p, a, b)
                              /\ Holds(p) \/ pc[p] \in Early => Carries(fromAgent, p, b, sent[p])
      BY DEF Flows
    <3>2. Carries(fromAgent, p, b, sent[p]) => Carries(Append(fromAgent, line), p, b, sent[p])
      BY <1>0, <1>3, <3>1, CarriesAppend
    <3> QED
      BY <1>1, <2>1, <3>1, <3>2 DEF Flows
  <2> QED
    BY <1>1, <2>1, <2>2 DEF CarryOf
<1> QED
  BY <1>2, <1>3

(* A line of the pipe is read that is none of the turn's chunks.             *)
LEMMA CarrySkips ==
  ASSUME TypeOK, NEW p \in Prompt, CarryOf(p), UNCHANGED <<pc, out, updates, sent, answered, overlapped>>,
         fromAgent # <<>>, fromAgent' = Tail(fromAgent),
         ~(Head(fromAgent).kind = "chunk" /\ Head(fromAgent).id = p),
         chan'[p] \in {chan[p], Append(chan[p], Head(fromAgent))}
  PROVE  CarryOf(p)'
<1>0. fromAgent \in Seq(Line) /\ chan[p] \in Seq(Line) /\ sent[p] \in Nat /\ Head(fromAgent) \in Line
  BY StdioAgentAssumption DEF TypeOK
<1>1. (Terminated(p)' <=> Terminated(p)) /\ (Holds(p)' <=> Holds(p))
  BY DEF Terminated, Holds
<1>2. Flows(p) => Flows(p)'
  <2> SUFFICES ASSUME Flows(p) PROVE Flows(p)'
    OBVIOUS
  <2>1. PICK a, b \in Nat : /\ a <= b /\ b <= sent[p] /\ Carries(out[p], p, 0, a) /\ Carries(chan[p], p, a, b)
                            /\ Holds(p) \/ pc[p] \in Early => Carries(fromAgent, p, b, sent[p])
    BY DEF Flows
  <2>2. Carries(fromAgent, p, b, sent[p]) => Carries(Tail(fromAgent), p, b, sent[p])
    BY <1>0, <2>1, CarriesTail
  <2>3. Carries(Append(chan[p], Head(fromAgent)), p, a, b)
    BY <1>0, <2>1, CarriesAppend
  <2>4. Carries(chan'[p], p, a, b)
    BY <2>1, <2>3
  <2> QED
    BY <1>1, <2>1, <2>2, <2>4 DEF Flows
<1> QED
  BY <1>1, <1>2 DEF CarryOf

(* The reader puts a turn's chunk into its channel, or it is lost, and so    *)
(* are those behind it.                                                      *)
LEMMA CarryRouted ==
  ASSUME TypeOK, AskedOnce, NEW p \in Prompt, CarryOf(p), ReadChunk, Head(fromAgent).id = p
  PROVE  CarryOf(p)'
<1>0. fromAgent \in Seq(Line) /\ chan \in [Prompt -> Seq(Line)] /\ sent[p] \in Nat
  BY StdioAgentAssumption DEF TypeOK
<1>1. /\ fromAgent # <<>> /\ Head(fromAgent).kind = "chunk" /\ fromAgent' = Tail(fromAgent)
      /\ UNCHANGED <<pc, out, updates, sent, answered, overlapped>>
      /\ chan' = IF Listens(updates[SessionOf[p]])
                 THEN [chan EXCEPT ![updates[SessionOf[p]]] = Append(@, Head(fromAgent))] ELSE chan
  BY DEF ReadChunk, NextLine, agentVars
<1>2. (Terminated(p)' <=> Terminated(p)) /\ (Holds(p)' <=> Holds(p))
  BY <1>1 DEF Terminated, Holds
<1>3. ASSUME pc[p] \notin Ended PROVE Flows(p)'
  <2>1. PICK a, b \in Nat : /\ a <= b /\ b <= sent[p] /\ Carries(out[p], p, 0, a) /\ Carries(chan[p], p, a, b)
                            /\ Holds(p) \/ pc[p] \in Early => Carries(fromAgent, p, b, sent[p])
    BY <1>3 DEF CarryOf, Flows
  <2>2. ASSUME Carries(fromAgent, p, b, sent[p])
        PROVE  /\ Head(fromAgent).nth = b + 1 /\ b + 1 <= sent[p]
               /\ Carries(Tail(fromAgent), p, b + 1, sent[p])
    BY <1>0, <1>1, <2>1, <2>2, CarriesTail
  <2>3. pc[p] \notin Early
    <3> SUFFICES ASSUME pc[p] \in Early PROVE FALSE
      OBVIOUS
    <3>1. b + 1 <= sent[p] /\ sent[p] = 0
      BY <2>1, <2>2 DEF AskedOnce, AskedOf
    <3> QED
      BY <2>1, <3>1
  <2>4. CASE Holds(p)
    <3>1. p # NoPrompt /\ pc[p] \in {"sent", "polled", "streaming"}
      BY <1>3, <2>3, StdioAgentAssumption DEF TypeOK, Request, Early, Ended, Waiting
    <3>2. updates[SessionOf[p]] = p /\ Listens(p)
      BY <2>4, <3>1 DEF Holds, Listens
    <3>3. chan'[p] = Append(chan[p], Head(fromAgent))
      BY <1>0, <1>1, <3>2
    <3>4. Carries(Append(chan[p], Head(fromAgent)), p, a, b + 1)
      BY <1>0, <1>1, <2>1, <2>2, <2>4, CarriesAppend
    <3>5. a <= b + 1 /\ b + 1 \in Nat
      BY <2>1
    <3>6. b + 1 <= sent'[p] /\ Carries(fromAgent, p, b + 1, sent[p])'
      BY <1>1, <2>1, <2>2, <2>4
    <3> QED
      BY <1>1, <2>1, <3>3, <3>4, <3>5, <3>6 DEF Flows
  <2>5. CASE ~Holds(p)
    <3>1. chan'[p] = chan[p]
      BY <1>0, <1>1, <2>5 DEF Holds
    <3>2. ~(Holds(p) \/ pc[p] \in Early)'
      BY <1>1, <1>2, <2>3, <2>5
    <3> QED
      BY <1>1, <2>1, <3>1, <3>2 DEF Flows
  <2> QED
    BY <2>4, <2>5
<1> QED
  BY <1>1, <1>2, <1>3 DEF CarryOf

(* A chunk passes from the channel to the caller, the first or a later one.  *)
LEMMA CarryRelayed ==
  ASSUME TypeOK, AnswerInv, NEW p \in Prompt, CarryOf(p), FirstChunk(p) \/ RelayChunk(p)
  PROVE  CarryOf(p)'
<1> PICK head : head = Head(chan[p])
  OBVIOUS
<1>0. /\ chan[p] \in Seq(Line) /\ chan[p] # <<>> /\ out[p] \in Seq(Line) /\ sent[p] \in Nat
      /\ chan'[p] = Tail(chan[p]) /\ UNCHANGED <<fromAgent, updates, sent>> /\ pc'[p] = "streaming"
      /\ pc[p] \in {"sent", "streaming"} /\ head \in Line /\ head.kind = "chunk"
  <2>1. chan[p] \in Seq(Line) /\ chan[p] # <<>> /\ head = chan[p][1] /\ 1 \in DOMAIN chan[p] /\ head \in Line
    BY TailElements DEF FirstChunk, RelayChunk, TypeOK
  <2>2. head.kind = "chunk"
    BY <2>1 DEF AnswerInv, ChanIsChunks
  <2> QED
    BY <2>1, <2>2, StdioAgentAssumption DEF FirstChunk, RelayChunk, Goto, TypeOK, Request, agentVars
<1>1. out'[p] = Append(out[p], head)
  <2>1. CASE FirstChunk(p)
    <3>1. out[p] = <<>> /\ out'[p] = <<head>>
      BY <2>1 DEF FirstChunk, Goto, CarryOf, TypeOK
    <3> QED
      BY <1>0, <3>1
  <2>2. CASE RelayChunk(p)
    BY <2>2 DEF RelayChunk, TypeOK
  <2> QED
    BY <2>1, <2>2
<1>2. \A i \in DOMAIN out'[p] : out'[p][i].kind = "chunk"
  <2>1. \A i \in DOMAIN out[p] : out[p][i].kind = "chunk"
    BY DEF FirstChunk, RelayChunk, Goto, CarryOf
  <2>2. \A i \in DOMAIN Append(out[p], head) :
          (i \in DOMAIN out[p] /\ Append(out[p], head)[i] = out[p][i]) \/ Append(out[p], head)[i] = head
    BY <1>0, AppendElements
  <2> QED
    BY <1>0, <1>1, <2>1, <2>2
<1>3. Flows(p)'
  <2>0. pc[p] \notin Early \cup Ended /\ pc'[p] \notin Early /\ (Holds(p)' <=> Holds(p))
    BY <1>0 DEF Early, Ended, Holds
  <2>1. PICK a, b \in Nat : /\ a <= b /\ b <= sent[p] /\ Carries(out[p], p, 0, a) /\ Carries(chan[p], p, a, b)
                            /\ Holds(p) => Carries(fromAgent, p, b, sent[p])
    BY <2>0 DEF CarryOf, Flows
  <2>2. b <= sent'[p] /\ (Holds(p)' => Carries(fromAgent, p, b, sent[p])')
    BY <1>0, <2>0, <2>1
  <2>3. CASE head.id = p
    <3>1. head.nth = a + 1 /\ a + 1 <= b /\ Carries(Tail(chan[p]), p, a + 1, b)
      BY <1>0, <2>1, <2>3, CarriesTail
    <3>2. 0 \in Nat /\ 0 <= a /\ a + 1 \in Nat
      OBVIOUS
    <3>3. Carries(Append(out[p], head), p, 0, a + 1)
      BY <1>0, <2>1, <2>3, <3>1, <3>2, CarriesAppend
    <3> QED
      BY <1>0, <1>1, <2>0, <2>2, <3>1, <3>2, <3>3 DEF Flows
  <2>4. CASE head.id # p
    <3>1. Carries(Tail(chan[p]), p, a, b)
      BY <1>0, <2>1, <2>4, CarriesTail
    <3>2. 0 \in Nat /\ 0 <= a
      OBVIOUS
    <3>3. Carries(Append(out[p], head), p, 0, a)
      BY <1>0, <2>1, <2>4, <3>2, CarriesAppend
    <3> QED
      BY <1>0, <1>1, <2>0, <2>1, <2>2, <3>1, <3>3 DEF Flows
  <2> QED
    BY <2>3, <2>4
<1> QED
  BY <1>0, <1>2, <1>3 DEF CarryOf, Early, Ended

(* RelayFinish drains the channel, and the answer of a turn that holds it    *)
(* finds all its chunks with the caller or there.                            *)
LEMMA CarryFinished ==
  ASSUME TypeOK, AnswerInv, Held, PipeInv, NEW p \in Prompt, CarryOf(p), RelayFinish(p)
  PROVE  CarryOf(p)'
<1> DEFINE end == Answer(p, "answer")
<1>0. /\ chan[p] \in Seq(Line) /\ out[p] \in Seq(Line) /\ sent[p] \in Nat
      /\ UNCHANGED <<sent, answered, overlapped>> /\ pc'[p] = "cleanup" /\ pc[p] = "streaming"
      /\ resp[p] \in {"ok", "error"} /\ end \in Line /\ end.kind = "answer"
      /\ out'[p] = (out[p] \o chan[p]) \o IF resp[p] = "ok" THEN <<end>> ELSE <<>>
  <2>1. end \in Line /\ end.kind = "answer"
    BY AnswerIsLine DEF Answer, Request
  <2> HIDE DEF end
  <2>2. out'[p] = (out[p] \o chan[p]) \o IF resp[p] = "ok" THEN <<end>> ELSE <<>>
    BY DEF RelayFinish, TypeOK, end
  <2> QED
    BY <2>1, <2>2, StdioAgentAssumption DEF RelayFinish, Goto, TypeOK, Request, agentVars
<1> HIDE DEF end
<1>1. PICK u : u = out[p] \o chan[p]
  OBVIOUS
<1>2. u \in Seq(Line) /\ \A i \in DOMAIN u : u[i].kind = "chunk"
  <2>1. /\ \A i \in DOMAIN out[p] : out[p][i].kind = "chunk"
        /\ \A i \in DOMAIN chan[p] : chan[p][i].kind = "chunk"
    BY <1>0 DEF CarryOf, AnswerInv, ChanIsChunks
  <2>2. \A i \in DOMAIN (out[p] \o chan[p]) :
          \/ i \in DOMAIN out[p] /\ (out[p] \o chan[p])[i] = out[p][i]
          \/ i - Len(out[p]) \in DOMAIN chan[p] /\ (out[p] \o chan[p])[i] = chan[p][i - Len(out[p])]
    BY <1>0, ConcatElements
  <2>3. out[p] \o chan[p] \in Seq(Line)
    BY <1>0
  <2> QED
    BY <1>1, <2>1, <2>2, <2>3
<1>3. PICK a, b \in Nat : /\ a <= b /\ b <= sent[p] /\ Carries(out[p], p, 0, a) /\ Carries(chan[p], p, a, b)
                          /\ Holds(p) => Carries(fromAgent, p, b, sent[p])
  BY <1>0 DEF CarryOf, Flows, Ended
<1>4. Carries(u, p, 0, b) /\ b \in 0 .. sent[p]
  <2>1. 0 \in Nat /\ 0 <= a
    OBVIOUS
  <2>2. Carries(u, p, 0, b)
    BY <1>0, <1>1, <1>3, <2>1, CarriesConcat
  <2>3. b \in 0 .. sent[p]
    BY <1>0, <1>3
  <2> QED
    BY <2>2, <2>3
<1>5. pc'[p] \notin Early \cup {"sent", "polled", "streaming"} /\ pc'[p] \in Ended
  BY <1>0 DEF Early, Ended
<1>6. CASE resp[p] = "error"
  <2>1. out'[p] = u
    <3>1. out'[p] = u \o <<>>
      BY <1>0, <1>1, <1>6
    <3> QED
      BY <1>2, <3>1
  <2>2. out'[p] # <<>> => Len(out'[p]) \in DOMAIN out'[p]
    BY <1>2, <2>1
  <2>3. ~Terminated(p)'
    BY <1>2, <2>1, <2>2 DEF Terminated, Last
  <2>4. \E n \in 0 .. sent'[p] : Carries(out'[p], p, 0, n)
    BY <1>0, <1>4, <2>1
  <2> QED
    BY <1>5, <2>3, <2>4 DEF CarryOf
<1>7. CASE resp[p] = "ok"
  <2>1. p \in answered
    BY <1>7 DEF AnswerInv, RespAnswered, Request
  <2>2. p \notin overlapped => b = sent[p]
    <3> SUFFICES ASSUME p \notin overlapped PROVE b = sent[p]
      OBVIOUS
    <3>1. Holds(p)
      BY <1>0 DEF Held
    <3>2. Own(fromAgent, p) = {} /\ fromAgent \in Seq(Line)
      BY <1>7 DEF PipeInv, RespLast, TypeOK
    <3> QED
      BY <1>0, <1>3, <3>1, <3>2, CarriesAll
  <2>3. out'[p] = Append(u, end)
    <3>1. out'[p] = u \o <<end>>
      BY <1>0, <1>1, <1>7
    <3>2. \A v \in Seq(Line) : v \o <<end>> = Append(v, end)
      <4>1. end \in Line
        BY <1>0
      <4> QED
        BY <4>1
    <3> QED
      BY <1>2, <3>1, <3>2
  <2>4. Carries(Append(u, end), p, 0, b)
    <3>1. 0 \in Nat /\ 0 <= b /\ end.kind # "chunk"
      BY <1>0
    <3> QED
      BY <1>0, <1>2, <1>4, <3>1, CarriesAppend
  <2>5. \E n \in 0 .. sent'[p] : Carries(out'[p], p, 0, n)
    BY <1>0, <1>4, <2>3, <2>4
  <2>6. p \notin overlapped' => Carries(out'[p], p, 0, sent'[p])
    BY <1>0, <2>2, <2>3, <2>4
  <2> QED
    BY <1>0, <1>5, <2>1, <2>5, <2>6 DEF CarryOf
<1> QED
  BY <1>0, <1>6, <1>7

(* A step of another turn leaves p's caller and channel, and lists for p's   *)
(* session what it had, nobody, or itself.                                   *)
LEMMA OtherTurn ==
  ASSUME TypeOK, NEW p \in Prompt, NEW q \in Prompt, q # p, PromptStep(q)
  PROVE  /\ UNCHANGED <<fromAgent, sent, answered>> /\ overlapped \subseteq overlapped'
         /\ out'[p] = out[p] /\ chan'[p] = chan[p] /\ pc'[p] = pc[p] /\ (Holds(p)' => Holds(p))
<1>0. /\ pc \in [Request -> {"idle", "cleared", "over"} \cup Waiting] /\ p \in Request /\ p # NoPrompt
      /\ updates \in [Session -> Prompt \cup {NoPrompt}] /\ SessionOf \in [Prompt -> Session] /\ q \in Request
  BY StdioAgentAssumption DEF TypeOK, Request
<1>1. UNCHANGED <<fromAgent, sent, answered>>
  BY DEF PromptStep, Begin, Register, FirstChunk, NoChunkYet, PollAgain, Complete, Refused,
     FirstTimeout, RelayChunk, RelayGone, RelayClosed, RelayFinish, IdleTimeout, CleanUp, agentVars
<1>2. overlapped \subseteq overlapped'
  BY DEF PromptStep, Begin, Register, FirstChunk, NoChunkYet, PollAgain, Complete, Refused,
     FirstTimeout, RelayChunk, RelayGone, RelayClosed, RelayFinish, IdleTimeout, CleanUp, agentVars
<1>3. pc'[p] = pc[p]
  <2>1. (\E place : pc' = [pc EXCEPT ![q] = place]) \/ UNCHANGED pc
    BY DEF PromptStep, Begin, Register, FirstChunk, NoChunkYet, PollAgain, Complete, Refused,
       FirstTimeout, RelayChunk, RelayGone, RelayClosed, RelayFinish, IdleTimeout, CleanUp, Goto, Leave
  <2> QED
    BY <1>0, <2>1
<1>4. Holds(p)' => Holds(p)
  <2>1. (\E entry \in {q, NoPrompt} : updates' = [updates EXCEPT ![SessionOf[q]] = entry]) \/ UNCHANGED updates
    BY DEF PromptStep, Begin, Register, FirstChunk, NoChunkYet, PollAgain, Complete, Refused,
       FirstTimeout, RelayChunk, RelayGone, RelayClosed, RelayFinish, IdleTimeout, CleanUp, Unlist, tables
  <2> QED
    BY <1>0, <2>1 DEF Holds
<1>5. out'[p] = out[p] /\ chan'[p] = chan[p]
  <2>1. CASE Complete(q)
    <3>1. chan'[p] = chan[p]
      BY <1>0, <2>1, Leaves DEF Complete
    <3>2. out'[p] = out[p]
      BY <2>1 DEF Complete, TypeOK
    <3> QED
      BY <3>1, <3>2
  <2>2. CASE RelayFinish(q)
    BY <2>2 DEF RelayFinish, TypeOK
  <2>3. CASE FirstChunk(q) \/ RelayChunk(q)
    BY <2>3 DEF FirstChunk, RelayChunk, TypeOK
  <2>4. CASE Refused(q) \/ FirstTimeout(q) \/ CleanUp(q)
    <3>1. chan'[p] = chan[p]
      BY <1>0, <2>4, Leaves DEF Refused, FirstTimeout, CleanUp
    <3>2. out' = out
      BY <2>4 DEF Refused, FirstTimeout, CleanUp
    <3> QED
      BY <3>1, <3>2
  <2>5. CASE Begin(q) \/ Register(q) \/ NoChunkYet(q) \/ PollAgain(q)
             \/ RelayGone(q) \/ RelayClosed(q) \/ IdleTimeout(q)
    BY <2>5 DEF Begin, Register, NoChunkYet, PollAgain, RelayGone, RelayClosed, IdleTimeout, tables
  <2> QED
    BY <2>1, <2>2, <2>3, <2>4, <2>5 DEF PromptStep
<1> QED
  BY <1>1, <1>2, <1>3, <1>4, <1>5

(* Every step, for every prompt                                              *)
LEMMA CarryStep ==
  ASSUME TypeOK, AnswerInv, HeldInv, AskedOnce, PipeInv, CarryInv, [Next]_vars
  PROVE  CarryInv'
<1> SUFFICES ASSUME NEW p \in Prompt PROVE CarryOf(p)'
  BY DEF CarryInv
<1>0. /\ CarryOf(p) /\ pc \in [Request -> {"idle", "cleared", "over"} \cup Waiting]
      /\ p \in Request /\ p \notin Call /\ p \notin Cancel /\ Call \subseteq Request /\ Cancel \subseteq Request
  BY StdioAgentAssumption DEF TypeOK, Request, CarryInv
<1>1. ASSUME UNCHANGED <<fromAgent, sent, answered>>, overlapped \subseteq overlapped',
             out'[p] = out[p], chan'[p] = chan[p], pc'[p] = pc[p], Holds(p)' => Holds(p)
      PROVE  CarryOf(p)'
  BY <1>0, <1>1, CarryStays
<1>2. ASSUME NEW q \in Prompt, q # p, PromptStep(q) PROVE CarryOf(p)'
  BY <1>1, <1>2, OtherTurn
<1>3. CASE FirstChunk(p) \/ RelayChunk(p)
  BY <1>0, <1>3, CarryRelayed
<1>4. CASE RelayFinish(p)
  BY <1>0, <1>4, CarryFinished DEF HeldInv
<1>5. CASE Complete(p)
  <2>1. pc[p] = "polled" /\ pc'[p] = "over" /\ UNCHANGED sent
    BY <1>0, <1>5 DEF Complete, Leave, Goto, agentVars
  <2>2. out'[p] = <<Answer(p, "answer")>>
    BY <1>5 DEF Complete, TypeOK
  <2>3. ~Terminated(p)'
    BY <2>2 DEF Terminated, Answer
  <2>4. Carries(out'[p], p, 0, 0) /\ 0 \in 0 .. sent'[p]
    <3>1. sent[p] \in Nat /\ 0 \in Nat
      BY StdioAgentAssumption DEF TypeOK
    <3>2. Own(out'[p], p) = {}
      BY <2>2 DEF Own, Answer
    <3>3. Carries(out'[p], p, 0, 0)
      BY <3>2 DEF Carries
    <3> QED
      BY <2>1, <3>1, <3>3
  <2>5. pc'[p] \notin Early \cup {"sent", "polled", "streaming"} /\ pc'[p] \in Ended
    BY <2>1 DEF Early, Ended
  <2> QED
    BY <2>3, <2>4, <2>5 DEF CarryOf
<1>6. CASE Refused(p) \/ FirstTimeout(p) \/ RelayGone(p) \/ RelayClosed(p) \/ IdleTimeout(p)
  <2>1. /\ pc[p] \in {"polled", "streaming"} /\ pc'[p] \in Ended /\ out'[p] = out[p] /\ UNCHANGED sent
    BY <1>0, <1>6 DEF Refused, FirstTimeout, RelayGone, RelayClosed, IdleTimeout, Leave, Goto, tables, agentVars, Ended
  <2>2. pc[p] \notin Ended /\ pc[p] \in Waiting
    BY <2>1 DEF Ended, Waiting
  <2> QED
    BY <1>0, <2>1, <2>2, GivenUp
<1>7. CASE Begin(p) \/ Register(p) \/ NoChunkYet(p) \/ PollAgain(p) \/ CleanUp(p)
  <2>1. UNCHANGED <<out, fromAgent, sent, answered>> /\ overlapped \subseteq overlapped'
    BY <1>7 DEF Begin, Register, NoChunkYet, PollAgain, CleanUp, tables, agentVars
  <2>2. CASE Begin(p) \/ Register(p)
    <3>1. pc[p] \in Early /\ pc'[p] \in Early /\ UNCHANGED chan
      BY <1>0, <2>2 DEF Begin, Register, Goto, Early
    <3> QED
      BY <1>0, <2>1, <3>1, CarryStays
  <2>3. CASE NoChunkYet(p) \/ PollAgain(p)
    <3>1. pc[p] \in {"sent", "polled"} /\ pc'[p] \in {"sent", "polled"} /\ UNCHANGED <<chan, updates>>
      BY <1>0, <2>3 DEF NoChunkYet, PollAgain, Goto, tables
    <3>2. pc'[p] \notin Early /\ (Holds(p)' <=> Holds(p))
      BY <3>1 DEF Early, Holds
    <3> QED
      BY <1>0, <2>1, <3>1, <3>2, CarryStays
  <2>4. CASE CleanUp(p)
    <3>1. pc[p] = "cleanup" /\ pc'[p] = "over" /\ pc'[p] \in Ended
      BY <1>0, <2>4 DEF CleanUp, Leave, Goto, Ended
    <3> QED
      BY <1>0, <2>1, <3>1, CarryStays
  <2> QED
    BY <1>7, <2>2, <2>3, <2>4
<1>8. ASSUME NEW c \in Call \cup Cancel,
             StartCall(c) \/ NotAlive(c) \/ (c \in Call /\ (CallReturns(c) \/ CallTimeout(c)))
      PROVE  CarryOf(p)'
  <2>1. /\ UNCHANGED <<out, fromAgent, updates, sent, answered, overlapped>>
        /\ \E place : pc' = [pc EXCEPT ![c] = place]
    BY <1>8 DEF StartCall, NotAlive, CallReturns, CallTimeout, Leave, Goto, tables, agentVars
  <2>2. chan'[p] = chan[p]
    <3>1. CASE StartCall(c) \/ NotAlive(c)
      BY <3>1 DEF StartCall, NotAlive, tables
    <3>2. CASE c \in Call /\ (CallReturns(c) \/ CallTimeout(c))
      BY <1>0, <3>2, Leaves DEF CallReturns, CallTimeout
    <3> QED
      BY <1>8, <3>1, <3>2
  <2>3. pc'[p] = pc[p] /\ (Holds(p)' <=> Holds(p))
    BY <1>0, <2>1 DEF Holds
  <2> QED
    BY <1>1, <2>1, <2>2, <2>3
<1>9. ASSUME NEW r \in Request, Write(r) \/ WriteFails(r) \/ Dropped(r) PROVE CarryOf(p)'
  <2>1. UNCHANGED <<out, fromAgent, updates, sent, answered, overlapped>>
    BY <1>9 DEF Write, WriteFails, Dropped, tables, agentVars
  <2>2. Holds(p)' <=> Holds(p)
    BY <2>1 DEF Holds
  <2>3. CASE r = p
    <3>1. CASE Write(r)
      <4>1. pc[p] = "registered" /\ pc'[p] = "sent" /\ UNCHANGED chan
        BY <1>0, <2>3, <3>1 DEF Write, Goto, tables
      <4> QED
        BY <1>0, <2>1, <4>1, CarryStays DEF Early
    <3>2. CASE WriteFails(r) \/ Dropped(r)
      <4>1. pc[p] \in {"cleared", "registered", "sent", "polled"} /\ pc'[p] = "over"
        BY <1>0, <2>3, <3>2 DEF WriteFails, Dropped, Leave, Goto
      <4>2. pc[p] \notin Ended /\ pc[p] \in {"idle", "cleared"} \cup Waiting /\ pc'[p] \in Ended
        BY <4>1 DEF Ended, Waiting
      <4> QED
        BY <1>0, <2>1, <4>2, GivenUp
    <3> QED
      BY <1>9, <3>1, <3>2
  <2>4. CASE r # p
    <3>1. pc'[p] = pc[p]
      BY <1>0, <1>9, <2>4 DEF Write, WriteFails, Dropped, Leave, Goto
    <3>2. chan'[p] = chan[p]
      <4>1. CASE Write(r)
        BY <4>1 DEF Write, tables
      <4>2. CASE WriteFails(r) \/ Dropped(r)
        BY <2>4, <4>2, Leaves DEF WriteFails, Dropped
      <4> QED
        BY <1>9, <4>1, <4>2
    <3> QED
      BY <1>1, <2>1, <2>2, <3>1, <3>2
  <2> QED
    BY <2>3, <2>4
<1>10. CASE ReadChunk
  <2>1. CASE Head(fromAgent).id = p
    BY <1>0, <1>10, <2>1, CarryRouted
  <2>2. CASE Head(fromAgent).id # p
    <3>1. /\ fromAgent # <<>> /\ fromAgent' = Tail(fromAgent)
          /\ UNCHANGED <<pc, out, updates, sent, answered, overlapped>>
      BY <1>10 DEF ReadChunk, NextLine, agentVars
    <3>2. chan'[p] \in {chan[p], Append(chan[p], Head(fromAgent))}
      <4>1. PICK q : chan' = IF Listens(q) THEN [chan EXCEPT ![q] = Append(@, Head(fromAgent))] ELSE chan
        BY <1>10 DEF ReadChunk
      <4> QED
        BY <4>1 DEF TypeOK
    <3> QED
      BY <1>0, <2>2, <3>1, <3>2, CarrySkips
  <2> QED
    BY <2>1, <2>2
<1>11. CASE ReadAnswer \/ ReadAsk
  <2>1. /\ fromAgent # <<>> /\ fromAgent' = Tail(fromAgent) /\ Head(fromAgent).kind # "chunk"
        /\ UNCHANGED <<pc, out, chan, updates, sent, answered, overlapped>>
    BY <1>11 DEF ReadAnswer, ReadAsk, NextLine, tables, agentVars
  <2> QED
    BY <1>0, <2>1, CarrySkips
<1>12. CASE ReplyToAsk \/ Eof \/ AgentReads \/ AgentDies
  <2>1. UNCHANGED <<pc, out, chan, updates, fromAgent, sent, answered, overlapped>>
    BY <1>12 DEF ReplyToAsk, Eof, AgentReads, AgentDies, tables, agentVars
  <2> QED
    BY <1>1, <2>1 DEF Holds
<1>13. CASE AgentAsks \/ (\E r \in Prompt \cup Call : AgentAnswers(r)) \/ \E q \in Prompt : AgentStreams(q)
  <2>1. PICK line \in Line :
          /\ fromAgent' = Append(fromAgent, line) /\ UNCHANGED <<pc, tables>>
          /\ line.kind = "chunk" =>
               /\ line.id \in Prompt \ answered /\ line.nth = sent[line.id] + 1
               /\ sent' = [sent EXCEPT ![line.id] = @ + 1] /\ UNCHANGED answered
          /\ line.kind # "chunk" => UNCHANGED sent /\ answered \subseteq answered'
    BY <1>13, Says
  <2>2. UNCHANGED <<pc, out, chan, updates, overlapped>>
    BY <1>13, <2>1 DEF AgentAsks, AgentAnswers, AgentStreams, tables
  <2> QED
    BY <1>0, <2>1, <2>2, CarryGrows
<1>14. CASE UNCHANGED vars
  BY <1>1, <1>14 DEF vars, tables, agentVars, Holds
<1>15. ASSUME NEW q \in Prompt, PromptStep(q) PROVE CarryOf(p)'
  BY <1>2, <1>3, <1>4, <1>5, <1>6, <1>7, <1>15 DEF PromptStep
<1> QED
  BY <1>8, <1>9, <1>10, <1>11, <1>12, <1>13, <1>14, <1>15 DEF Next, CallStep, NotifyStep, Reader, Agent

(* Whatever turns overlap, a stream has the first chunks the agent wrote for *)
(* it, each once and in order, and all of them if it met no other turn and   *)
(* got its terminal: for any number of prompts and sessions, any pipes, late *)
(* or foreign lines, turns dropped or timed out.                             *)
THEOREM CompleteTurnHolds == Spec => []CompleteTurn
<1> DEFINE Inv == AnswerInv /\ HeldInv /\ AskedOnce /\ PipeInv /\ CarryInv
<1>1. Init => Inv
  <2> SUFFICES ASSUME Init PROVE Inv
    OBVIOUS
  <2>1. AnswerInv
    BY DEF Init, AnswerInv, PipeAnswered, RespAnswered, ChanIsChunks, OutAnswered
  <2>2. HeldInv
    BY DEF Init, HeldInv, Alone, Held, Request
  <2>3. AskedOnce
    BY DEF Init, AskedOnce, AskedOf, Request
  <2>4. PipeInv
    BY DEF Init, PipeInv, PipeChunks, AnswerLast, RespLast, Request
  <2>5. CarryInv
    <3> SUFFICES ASSUME NEW p \in Prompt PROVE CarryOf(p)
      BY DEF CarryInv
    <3>1. pc[p] = "idle" /\ out[p] = <<>> /\ chan[p] = <<>> /\ fromAgent = <<>> /\ sent[p] = 0
      BY DEF Init, Request
    <3>2. Carries(<<>>, p, 0, 0) /\ 0 \in Nat /\ 0 <= 0
      BY CarriesNone
    <3>3. Flows(p)
      BY <3>1, <3>2 DEF Flows
    <3> QED
      BY <3>1, <3>3 DEF CarryOf, Ended
  <2> QED
    BY <2>1, <2>2, <2>3, <2>4, <2>5
<1>2. TypeOK /\ Inv /\ [Next]_vars => Inv'
  BY AnswerStep, HeldStep, AskedStep, PipeStep, CarryStep
<1>3. TypeOK /\ Inv => CompleteTurn
  <2> SUFFICES ASSUME TypeOK, CarryInv, NEW p \in Prompt
               PROVE  /\ \E n \in 0 .. sent[p] : Carries(out[p], p, 0, n)
                      /\ Terminated(p) /\ p \notin overlapped => Carries(out[p], p, 0, sent[p])
    BY DEF CompleteTurn
  <2>1. CarryOf(p)
    BY DEF CarryInv
  <2>2. CASE pc[p] \in Ended
    BY <2>1, <2>2 DEF CarryOf
  <2>3. CASE pc[p] \notin Ended
    <3>1. PICK a, b \in Nat : a <= b /\ b <= sent[p] /\ Carries(out[p], p, 0, a)
      BY <2>1, <2>3 DEF CarryOf, Flows
    <3>2. sent[p] \in Nat
      BY StdioAgentAssumption DEF TypeOK
    <3>3. a \in 0 .. sent[p]
      BY <3>1, <3>2
    <3>4. pc[p] \in Early \cup {"sent", "polled", "streaming"}
      BY <2>3 DEF TypeOK, Early, Ended, Waiting, Request
    <3>5. \A i \in DOMAIN out[p] : out[p][i].kind = "chunk"
      BY <2>1, <3>4 DEF CarryOf
    <3>6. ~Terminated(p)
      BY <3>5, NoTerminal
    <3> QED
      BY <3>1, <3>3, <3>6
  <2> QED
    BY <2>2, <2>3
<1> QED
  BY <1>1, <1>2, <1>3, TypeCorrect, PTL DEF Spec

=============================================================================
