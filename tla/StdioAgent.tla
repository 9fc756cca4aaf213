------------------------------ MODULE StdioAgent ------------------------------
(***************************************************************************)
(* One agent process and the JSON-RPC multiplexer in front of it           *)
(* (core/src/stdio_agent.rs): concurrent requests register themselves in   *)
(* the tables pending (by request id) and updates (by session), write one  *)
(* line to the agent's stdin and wait; a reader task takes the lines of    *)
(* its stdout and routes answers by id and chunks by session.  A prompt    *)
(* that streams is continued by a background task that relays its chunks.  *)
(*                                                                         *)
(* A request stands for its id (next_id never repeats).  A critical        *)
(* section of a table is one action.  Writing a line under the mutex of    *)
(* stdin is one action too, enabled when the pipe has room: who holds the  *)
(* mutex meanwhile keeps the others waiting, as the full pipe would.       *)
(* Timeouts fire at any time.                                              *)
(***************************************************************************)
EXTENDS Naturals, Sequences, SequencesExt

CONSTANTS
  Prompt,        \* calls of prompt_streaming
  Call,          \* calls of call: session/new
  Cancel,        \* calls of notify: session/cancel
  NoPrompt,      \* no entry in the updates table
  Session,
  SessionOf,     \* the session of each prompt
  MaxChunks,     \* bound of the model: chunks of one prompt
  MaxAsks,       \* bound of the model: requests of the agent to the client
  PipeCapacity   \* lines a pipe holds

VARIABLES
  pc,        \* where each request is
  pending,   \* keys of the pending table
  updates,   \* updates table: the prompt whose channel a session's chunks go to
  chan,      \* that channel's chunks, per prompt
  resp,      \* the oneshot of each request: "none", "ok" or "error"
  out,       \* what the caller of a prompt has been given
  reader,    \* the reader task: "read", "reply" (to a request) or "gone"
  toAgent, fromAgent,   \* the lines in the pipes
  alive, working, sent, asks, \* the agent
  answered, overlapped  \* history: what it has answered, turns that met another

tables == <<pending, updates, chan, resp, out>>
agentVars == <<alive, working, sent, asks, answered, overlapped>>
vars == <<pc, tables, reader, toAgent, fromAgent, agentVars>>

Request == Prompt \cup Call \cup Cancel

ASSUME StdioAgentAssumption ==
  /\ Prompt \cap Call = {} /\ Prompt \cap Cancel = {} /\ Call \cap Cancel = {}
  /\ NoPrompt \notin Prompt /\ "reply" \notin Request
  /\ SessionOf \in [Prompt -> Session]
  /\ MaxChunks \in Nat /\ MaxAsks \in Nat
  /\ PipeCapacity \in Nat \ {0}

Line == [kind : {"chunk", "answer", "error", "ask"}, id : Request, nth : 0 .. MaxChunks]

Answer(r, kind) == [kind |-> kind, id |-> r, nth |-> 0]
Chunk(p, n) == [kind |-> "chunk", id |-> p, nth |-> n]

Init ==
  /\ pc = [r \in Request |-> "idle"]
  /\ pending = {}
  /\ updates = [s \in Session |-> NoPrompt]
  /\ chan = [p \in Prompt |-> <<>>]
  /\ resp = [r \in Request |-> "none"]
  /\ out = [p \in Prompt |-> <<>>]
  /\ reader = "read"
  /\ toAgent = <<>> /\ fromAgent = <<>>
  /\ alive = TRUE
  /\ working = {}
  /\ sent = [p \in Prompt |-> 0]
  /\ asks = 0
  /\ answered = {} /\ overlapped = {}

Room(pipe) == Len(pipe) < PipeCapacity

Goto(r, from, to) == pc[r] = from /\ pc' = [pc EXCEPT ![r] = to]

(* A future that ends drops its ends of the oneshot and of the channel.      *)
Leave(r, from) ==
  /\ Goto(r, from, "over")
  /\ resp' = [resp EXCEPT ![r] = "none"]
  /\ chan' = [p \in Prompt |-> IF p = r THEN <<>> ELSE chan[p]]

(* The channel of p's session, if it is still p's: its last sender.          *)
Holds(p) == updates[SessionOf[p]] = p

Unlist(p) == updates' = [updates EXCEPT ![SessionOf[p]] = NoPrompt]

-----------------------------------------------------------------------------
(* Requests up to the line in the pipe.                                      *)

(* The turns of p's session that are under way: nothing here keeps them out, *)
(* and the lease of a streamed turn ends before it does.                     *)
Rivals(p) == {q \in Prompt : q # p /\ SessionOf[q] = SessionOf[p] /\ pc[q] \notin {"idle", "over"}}

(* prompt_streaming: the channel of the last turn is dropped ... Two turns   *)
(* meet unless the first has only its clean-up left; the second meets that.  *)
Begin(p) ==
  /\ Goto(p, "idle", "cleared")
  /\ Unlist(p)
  /\ overlapped' = overlapped \cup {q \in Rivals(p) : pc[q] # "cleanup"}
                               \cup {q \in {p} : Rivals(p) # {}}
  /\ UNCHANGED <<pending, chan, resp, out, reader, toAgent, fromAgent>>
  /\ UNCHANGED <<alive, working, sent, asks, answered>>

(* ... and this turn's is entered, with the oneshot for the answer.          *)
Register(p) ==
  /\ Goto(p, "cleared", "registered")
  /\ updates' = [updates EXCEPT ![SessionOf[p]] = p]
  /\ pending' = pending \cup {p}
  /\ UNCHANGED <<chan, resp, out, reader, toAgent, fromAgent, agentVars>>

(* call and notify check ensure_alive first.                                 *)
StartCall(c) ==
  /\ alive
  /\ Goto(c, "idle", "registered")
  /\ pending' = IF c \in Call THEN pending \cup {c} ELSE pending
  /\ UNCHANGED <<updates, chan, resp, out, reader, toAgent, fromAgent, agentVars>>

NotAlive(c) ==
  /\ ~alive
  /\ Goto(c, "idle", "over")
  /\ UNCHANGED <<tables, reader, toAgent, fromAgent, agentVars>>

(* write_all: a notification is done with it, the others wait.               *)
Write(r) ==
  /\ alive /\ Room(toAgent)
  /\ Goto(r, "registered", IF r \in Cancel THEN "over" ELSE "sent")
  /\ toAgent' = Append(toAgent, r)
  /\ UNCHANGED <<tables, reader, fromAgent, agentVars>>

(* The error of write_all leaves the tables as they are.                     *)
WriteFails(r) ==
  /\ ~alive
  /\ Leave(r, "registered")
  /\ UNCHANGED <<pending, updates, out, reader, toAgent, fromAgent, agentVars>>

(* The future of the call is dropped at an await: the HTTP client hung up.   *)
Dropped(r) ==
  /\ \E from \in {"cleared", "registered", "sent", "polled"} : Leave(r, from)
  /\ UNCHANGED <<pending, updates, out, reader, toAgent, fromAgent, agentVars>>

-----------------------------------------------------------------------------
(* Waiting for the answer.                                                   *)

CallReturns(c) ==
  /\ resp[c] # "none"
  /\ Leave(c, "sent")
  /\ UNCHANGED <<pending, updates, out, reader, toAgent, fromAgent, agentVars>>

CallTimeout(c) ==
  /\ Leave(c, "sent")
  /\ pending' = pending \ {c}
  /\ UNCHANGED <<updates, out, reader, toAgent, fromAgent, agentVars>>

(* The biased select of prompt_streaming polls the channel first: a chunk    *)
(* makes the turn a stream, continued in the background ...                  *)
FirstChunk(p) ==
  /\ chan[p] # <<>>
  /\ Goto(p, "sent", "streaming")
  /\ out' = [out EXCEPT ![p] = <<Head(chan[p])>>]
  /\ chan' = [chan EXCEPT ![p] = Tail(@)]
  /\ UNCHANGED <<pending, updates, resp, reader, toAgent, fromAgent, agentVars>>

(* ... with none there it goes on to the oneshot, and polls again when       *)
(* either wakes it.                                                          *)
NoChunkYet(p) ==
  /\ chan[p] = <<>>
  /\ Goto(p, "sent", "polled")
  /\ UNCHANGED <<tables, reader, toAgent, fromAgent, agentVars>>

PollAgain(p) ==
  /\ resp[p] = "none" /\ chan[p] # <<>>
  /\ Goto(p, "polled", "sent")
  /\ UNCHANGED <<tables, reader, toAgent, fromAgent, agentVars>>

(* The answer came first: Reply::Complete, or an error that leaves updates.  *)
Complete(p) ==
  /\ resp[p] = "ok"
  /\ Leave(p, "polled")
  /\ out' = [out EXCEPT ![p] = <<Answer(p, "answer")>>]
  /\ Unlist(p)
  /\ UNCHANGED <<pending, reader, toAgent, fromAgent, agentVars>>

Refused(p) ==
  /\ resp[p] = "error"
  /\ Leave(p, "polled")
  /\ UNCHANGED <<pending, updates, out, reader, toAgent, fromAgent, agentVars>>

FirstTimeout(p) ==
  /\ Leave(p, "polled")
  /\ pending' = pending \ {p}
  /\ Unlist(p)
  /\ UNCHANGED <<out, reader, toAgent, fromAgent, agentVars>>

-----------------------------------------------------------------------------
(* The background task of a streamed turn.                                   *)

RelayChunk(p) ==
  /\ pc[p] = "streaming" /\ chan[p] # <<>>
  /\ out' = [out EXCEPT ![p] = Append(@, Head(chan[p]))]
  /\ chan' = [chan EXCEPT ![p] = Tail(@)]
  /\ UNCHANGED <<pc, pending, updates, resp, reader, toAgent, fromAgent, agentVars>>

(* The caller has dropped the stream.                                        *)
RelayGone(p) ==
  /\ chan[p] # <<>>
  /\ Goto(p, "streaming", "cleanup")
  /\ UNCHANGED <<tables, reader, toAgent, fromAgent, agentVars>>

(* Another turn has replaced the sender: closed without the terminal.        *)
RelayClosed(p) ==
  /\ chan[p] = <<>> /\ ~Holds(p)
  /\ Goto(p, "streaming", "cleanup")
  /\ UNCHANGED <<tables, reader, toAgent, fromAgent, agentVars>>

FinishAtOnce(p) ==
  /\ resp[p] # "none"
  /\ Goto(p, "streaming", "cleanup")
  /\ out' = [out EXCEPT ![p] = IF resp[p] = "ok" THEN Append(@, Answer(p, "answer")) ELSE @]
  /\ UNCHANGED <<pending, updates, chan, resp, reader, toAgent, fromAgent, agentVars>>

(* The answer: what is queued goes first, then the terminal.                 *)
RelayFinish(p) ==
  /\ resp[p] # "none"
  /\ Goto(p, "streaming", "cleanup")
  /\ out' = [out EXCEPT ![p] =
               @ \o chan[p] \o IF resp[p] = "ok" THEN <<Answer(p, "answer")>> ELSE <<>>]
  /\ chan' = [chan EXCEPT ![p] = <<>>]
  /\ UNCHANGED <<pending, updates, resp, reader, toAgent, fromAgent, agentVars>>

KeepWaiting(p) == pc[p] = "streaming" /\ chan[p] = <<>> /\ UNCHANGED vars

IdleTimeout(p) ==
  /\ chan[p] = <<>>
  /\ Goto(p, "streaming", "cleanup")
  /\ UNCHANGED <<tables, reader, toAgent, fromAgent, agentVars>>

(* updates.remove(&session_key), whosever entry that is by now.              *)
CleanUp(p) ==
  /\ Leave(p, "cleanup")
  /\ Unlist(p)
  /\ UNCHANGED <<pending, out, reader, toAgent, fromAgent, agentVars>>

-----------------------------------------------------------------------------
(* The reader task.                                                          *)

NextLine(kinds) ==
  /\ reader = "read" /\ fromAgent # <<>> /\ Head(fromAgent).kind \in kinds
  /\ fromAgent' = Tail(fromAgent)

Listens(p) == p # NoPrompt /\ pc[p] \in {"registered", "sent", "polled", "streaming"}

(* collect_session_update: lost when nobody holds the receiver.              *)
ReadChunk ==
  /\ NextLine({"chunk"})
  /\ LET p == updates[SessionOf[Head(fromAgent).id]]
     IN  chan' = IF Listens(p) THEN [chan EXCEPT ![p] = Append(@, Head(fromAgent))] ELSE chan
  /\ UNCHANGED <<pc, pending, updates, resp, out, reader, toAgent, agentVars>>

(* The oneshot is lost, too, when its request has gone.                      *)
Awaited == {r \in pending : pc[r] # "over"}

Resolve(r, outcome) ==
  /\ pending' = pending \ {r}
  /\ resp' = IF r \in Awaited THEN [resp EXCEPT ![r] = outcome] ELSE resp

ReadAnswer ==
  /\ NextLine({"answer", "error"})
  /\ Resolve(Head(fromAgent).id, IF Head(fromAgent).kind = "answer" THEN "ok" ELSE "error")
  /\ UNCHANGED <<pc, updates, chan, out, reader, toAgent, agentVars>>

ReadAskById ==
  /\ NextLine({"ask"})
  /\ Resolve(Head(fromAgent).id, "ok")
  /\ UNCHANGED <<pc, updates, chan, out, reader, toAgent, agentVars>>

(* A line with "method" and "id" is the agent's own request, even if a       *)
(* request of ours has the same id: reply_method_not_found answers it.       *)
ReadAsk ==
  /\ NextLine({"ask"})
  /\ reader' = "reply"
  /\ UNCHANGED <<pc, tables, toAgent, agentVars>>

ReplyToAsk ==
  /\ reader = "reply"
  /\ reader' = "read"
  /\ IF alive THEN Room(toAgent) /\ toAgent' = Append(toAgent, "reply") ELSE UNCHANGED toAgent
  /\ UNCHANGED <<pc, tables, fromAgent, agentVars>>

(* End of stdout: every waiter gets an error.                                *)
Eof ==
  /\ reader = "read" /\ ~alive /\ fromAgent = <<>>
  /\ reader' = "gone"
  /\ resp' = [r \in Request |-> IF r \in Awaited THEN "error" ELSE resp[r]]
  /\ pending' = {}
  /\ UNCHANGED <<pc, updates, chan, out, toAgent, fromAgent, agentVars>>

-----------------------------------------------------------------------------
(* The agent process.                                                        *)

AgentReads ==
  /\ alive /\ toAgent # <<>>
  /\ toAgent' = Tail(toAgent)
  /\ working' = IF Head(toAgent) \in Prompt \cup Call THEN working \cup {Head(toAgent)} ELSE working
  /\ UNCHANGED <<pc, tables, reader, fromAgent, alive, sent, asks, answered, overlapped>>

AgentSays(line) == alive /\ Room(fromAgent) /\ fromAgent' = Append(fromAgent, line)

AgentStreams(p) ==
  /\ p \in working /\ sent[p] < MaxChunks
  /\ AgentSays(Chunk(p, sent[p] + 1))
  /\ sent' = [sent EXCEPT ![p] = @ + 1]
  /\ UNCHANGED <<pc, tables, reader, toAgent, alive, working, asks, answered, overlapped>>

AgentAnswers(r) ==
  /\ r \in working
  /\ \E kind \in {"answer", "error"} : AgentSays(Answer(r, kind))
  /\ working' = working \ {r}
  /\ answered' = answered \cup {r}
  /\ UNCHANGED <<pc, tables, reader, toAgent, alive, sent, asks, overlapped>>

(* session/request_permission and the like, with an id of the agent's own    *)
(* numbering.                                                                *)
AgentAsks ==
  /\ working # {} /\ asks < MaxAsks
  /\ \E r \in Prompt \cup Call : AgentSays(Answer(r, "ask"))
  /\ asks' = asks + 1
  /\ UNCHANGED <<pc, tables, reader, toAgent, alive, working, sent, answered, overlapped>>

AgentDies ==
  /\ alive
  /\ alive' = FALSE
  /\ toAgent' = <<>> /\ working' = {}
  /\ UNCHANGED <<pc, tables, reader, fromAgent, sent, asks, answered, overlapped>>

-----------------------------------------------------------------------------
(* The gateway's steps for one request.                                      *)
PromptStep(p) ==
  \/ Begin(p) \/ Register(p)
  \/ FirstChunk(p) \/ NoChunkYet(p) \/ PollAgain(p)
  \/ Complete(p) \/ Refused(p) \/ FirstTimeout(p)
  \/ RelayChunk(p) \/ RelayGone(p) \/ RelayClosed(p) \/ RelayFinish(p) \/ IdleTimeout(p)
  \/ CleanUp(p)

CallStep(c) == StartCall(c) \/ NotAlive(c) \/ CallReturns(c) \/ CallTimeout(c)

NotifyStep(c) == StartCall(c) \/ NotAlive(c)

Reader == ReadChunk \/ ReadAnswer \/ ReadAsk \/ ReplyToAsk \/ Eof

Agent ==
  \/ AgentReads \/ AgentAsks \/ AgentDies
  \/ \E p \in Prompt : AgentStreams(p)
  \/ \E r \in Prompt \cup Call : AgentAnswers(r)

Next ==
  \/ \E p \in Prompt : PromptStep(p)
  \/ \E c \in Call : CallStep(c)
  \/ \E c \in Cancel : NotifyStep(c)
  \/ \E r \in Request : Write(r) \/ WriteFails(r) \/ Dropped(r)
  \/ Reader \/ Agent

Spec == Init /\ [][Next]_vars

(* Tasks run on, timers fire; the agent does what it likes.                  *)
FairSpec ==
  /\ Spec
  /\ \A p \in Prompt : WF_vars(PromptStep(p) /\ pc[p] # "idle")
  /\ \A c \in Call : WF_vars(CallStep(c) /\ pc[c] # "idle")
  /\ \A r \in Request : WF_vars(Write(r) \/ WriteFails(r))
  /\ WF_vars(Reader)

-----------------------------------------------------------------------------
(* Properties                                                                *)

Waiting == {"registered", "sent", "polled", "streaming", "cleanup"}

(* Type invariant of the tables, the pipes and the agent.                    *)
TypeOK ==
  /\ pc \in [Request -> {"idle", "cleared", "over"} \cup Waiting]
  /\ pending \in SUBSET (Prompt \cup Call)
  /\ updates \in [Session -> Prompt \cup {NoPrompt}]
  /\ chan \in [Prompt -> Seq(Line)]
  /\ resp \in [Request -> {"none", "ok", "error"}]
  /\ out \in [Prompt -> Seq(Line)]
  /\ reader \in {"read", "reply", "gone"}
  /\ toAgent \in Seq(Request \cup {"reply"}) /\ fromAgent \in Seq(Line)
  /\ alive \in BOOLEAN /\ working \in SUBSET (Prompt \cup Call)
  /\ sent \in [Prompt -> 0 .. MaxChunks] /\ asks \in 0 .. MaxAsks
  /\ answered \in SUBSET (Prompt \cup Call) /\ overlapped \in SUBSET Prompt

(* A request returns a result only if the agent has answered it, although    *)
(* the agent numbers its own requests from 1 as the gateway does, answers    *)
(* late, or dies (stdio_agent.rs:199-211: such a request once consumed the   *)
(* entry of a call).                                                         *)
AnswersAreOwn ==
  \A r \in Request :
    resp[r] = "ok" \/ (r \in Prompt /\ Answer(r, "answer") \in ToSet(out[r])) => r \in answered

(* A stream that got its terminal                                            *)
Terminated(p) ==
  out[p] # <<>> /\ Head(out[p]).kind = "chunk" /\ Last(out[p]).kind = "answer"

(* The chunks of p among the lines q                                         *)
Own(q, p) == {i \in DOMAIN q : q[i].kind = "chunk" /\ q[i].id = p}

(* They are the chunks after the a-th up to the b-th, in order, each once.   *)
Carries(q, p, a, b) ==
  /\ \A i, j \in Own(q, p) : i < j => q[i].nth < q[j].nth
  /\ {q[i].nth : i \in Own(q, p)} = a + 1 .. b

(* Whatever turns of a session overlap, a stream has the first chunks the    *)
(* agent wrote for it, in order and without a hole: another turn can cut     *)
(* it, for the channel is found by session and the clean-up of a turn        *)
(* removes whosever it is by then (stdio_agent.rs:468), but not thin it out. *)
(* A turn that met no other has all of them before its terminal, although    *)
(* answer and chunks come through different channels, and earlier turns of   *)
(* the session may have been given up with answer and chunks outstanding.    *)
CompleteTurn ==
  \A p \in Prompt :
    /\ \E n \in 0 .. sent[p] : Carries(out[p], p, 0, n)
    /\ Terminated(p) /\ p \notin overlapped => Carries(out[p], p, 0, sent[p])

(* Every request comes to its end, whatever the agent does.                  *)
Returns == \A r \in Request : pc[r] # "idle" ~> pc[r] = "over"

=============================================================================
