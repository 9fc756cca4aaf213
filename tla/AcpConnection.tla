----------------------------- MODULE AcpConnection -----------------------------
(***************************************************************************)
(* ACP clients on TCP in front of an A2A agent: the connection's loop      *)
(* (gatewayd/src/transport_tcp.rs), which handles one line after the       *)
(* other, its adapter A2aAsAcp with the sessions the connection has opened *)
(* (core/src/convert.rs), and the HTTP client HttpA2aAgent                 *)
(* (core/src/http_agent.rs), whose replies may be streams.                 *)
(*                                                                         *)
(* A streamed reply passes two channels, each fed by a task of its own:    *)
(* sse_to_a2a_events puts the agent's events into one, the converter       *)
(* spawned by prompt turns them into updates in the other, and the loop    *)
(* writes these to the socket.  What the client has sent is chosen when    *)
(* the loop uses it: nothing looks at a line before it is read.            *)
(***************************************************************************)
EXTENDS StreamSlots, Sequences

CONSTANTS
  Conn,          \* TCP connections
  Target,        \* the A2A agent they name in the handshake
  Session,       \* session ids, random: never issued twice
  MaxSessions,   \* MAX_SESSIONS_PER_CONNECTION (256 in the code)
  MaxRequests,   \* bound: lines read from a connection
  MaxChunks,     \* bound: chunks in a streamed reply
  MaxQueued      \* bound: events in the channel at a time

VARIABLES
  pc,        \* what the connection's task awaits
  cur,       \* number of the line it handles, or has handled last
  notes,     \* numbers of the lines without an id: notifications
  issued,    \* session ids handed out by any connection
  sessions,  \* A2aAsAcp::sessions of each connection
  stale,     \* those of them last used longer ago than the TTL
  leased,    \* sessions with an entry in its TurnLease
  sse,       \* the agent's response stream: "open" or "ended"
  events,    \* channel of the agent's events
  final,     \* the agent has sent its terminal event
  converter, \* the task that turns events into updates: "on" or "off"
  updates,   \* channel of the updates, each a chunk's number
  lines,     \* lines written to the socket
  streamed,  \* history: numbers of the lines whose reply was streamed
  emitted    \* history: chunks of the last one, before its terminal event

adapterVars == <<issued, sessions, stale, leased>>
streamVars == <<sse, events, final, converter, updates>>
histVars == <<lines, streamed, emitted>>
vars == <<pc, cur, notes, adapterVars, streamVars, histVars, free>>

ASSUME AcpConnectionAssumption ==
  /\ IsFiniteSet(Conn) /\ Target \in Agent
  /\ MaxSessions \in Nat /\ MaxRequests \in [Conn -> Nat] /\ MaxChunks \in Nat
  /\ MaxQueued \in Nat

Init ==
  /\ SlotsInit
  /\ pc = [c \in Conn |-> "handshake"]
  /\ cur = [c \in Conn |-> 0]
  /\ notes = [c \in Conn |-> {}]
  /\ issued = {}
  /\ sessions = [c \in Conn |-> {}]
  /\ stale = [c \in Conn |-> {}]
  /\ leased = [c \in Conn |-> {}]
  /\ sse = [c \in Conn |-> "ended"]
  /\ events = [c \in Conn |-> <<>>]
  /\ final = [c \in Conn |-> FALSE]
  /\ converter = [c \in Conn |-> "off"]
  /\ updates = [c \in Conn |-> <<>>]
  /\ lines = [c \in Conn |-> <<>>]
  /\ streamed = [c \in Conn |-> {}]
  /\ emitted = [c \in Conn |-> 0]

Goto(c, place) == pc' = [pc EXCEPT ![c] = place]

Write(c, line) == lines' = [lines EXCEPT ![c] = Append(@, line)]

(* The connection's task ends, and nothing of it or of its adapter is left.  *)
Close(c) ==
  /\ Goto(c, "closed")
  /\ cur' = [cur EXCEPT ![c] = 0]
  /\ notes' = [notes EXCEPT ![c] = {}]
  /\ sessions' = [sessions EXCEPT ![c] = {}]
  /\ stale' = [stale EXCEPT ![c] = {}]
  /\ leased' = [leased EXCEPT ![c] = {}]
  /\ lines' = [lines EXCEPT ![c] = <<>>]
  /\ streamed' = [streamed EXCEPT ![c] = {}]
  /\ emitted' = [emitted EXCEPT ![c] = 0]
  /\ UNCHANGED issued

-----------------------------------------------------------------------------
(* The sessions of a connection: A2aAsAcp.  The loop is alone in using them, *)
(* so neither the mutex around them nor a lease is ever waited for.          *)

Live(c) == sessions[c] \ stale[c]

(* Without forgetting the lease entries.                                     *)
EvictSessionsOnly(c, newSessions, newLeases) ==
  /\ sessions' = [sessions EXCEPT ![c] = Live(c) \cup newSessions]
  /\ stale' = [stale EXCEPT ![c] = {}]
  /\ leased' = [leased EXCEPT ![c] = @ \cup newLeases]
  /\ issued' = issued \cup newSessions

(* evict_expired, then what the caller adds                                  *)
EvictAnd(c, newSessions, newLeases) ==
  /\ sessions' = [sessions EXCEPT ![c] = Live(c) \cup newSessions]
  /\ stale' = [stale EXCEPT ![c] = {}]
  /\ leased' = [leased EXCEPT ![c] = (@ \ stale[c]) \cup newLeases]
  /\ issued' = issued \cup newSessions

(* register_session: the new session, or none at the cap                     *)
Register(c, s) == EvictAnd(c, {s}, {})

DropSession(c, s) ==
  /\ sessions' = [sessions EXCEPT ![c] = @ \ {s}]
  /\ stale' = [stale EXCEPT ![c] = @ \ {s}]
  /\ leased' = [leased EXCEPT ![c] = @ \ {s}]
  /\ UNCHANGED issued

Expire(c) ==
  /\ pc[c] = "read"
  /\ \E s \in Live(c) : stale' = [stale EXCEPT ![c] = @ \cup {s}]
  /\ UNCHANGED <<pc, cur, notes, issued, sessions, leased, streamVars, histVars, free>>

-----------------------------------------------------------------------------
(* The loop: one line at a time                                              *)

(* The first line names a valid token and an agent, within                   *)
(* HANDSHAKE_TIMEOUT, or the connection is over.                             *)
Handshake(c) ==
  /\ pc[c] = "handshake"
  /\ \/ Goto(c, "read") /\ UNCHANGED <<cur, notes, adapterVars, histVars>>
     \/ Close(c)
  /\ UNCHANGED <<streamVars, free>>

(* A line with an id, or a notification                                      *)
Read(c, isNote) ==
  /\ pc[c] = "read" /\ cur[c] < MaxRequests[c]
  /\ cur' = [cur EXCEPT ![c] = @ + 1]
  /\ notes' = [notes EXCEPT ![c] = IF isNote THEN @ \cup {cur'[c]} ELSE @]
  /\ emitted' = [emitted EXCEPT ![c] = 0]
  /\ UNCHANGED <<streamVars, streamed, free>>

AnswerAll(c) ==
  Goto(c, "read") /\ Write(c, [of |-> cur'[c], says |-> "answer", n |-> 0])

(* A notification is not answered.  Should the client be gone, the answer is *)
(* lost, or the write fails and the connection ends as it does in ReadEnds.  *)
Answer(c) ==
  /\ Goto(c, "read")
  /\ IF cur'[c] \in notes'[c] THEN UNCHANGED lines
     ELSE Write(c, [of |-> cur'[c], says |-> "answer", n |-> 0])

(* Not JSON-RPC, which counts as a request with the id null, an unknown      *)
(* method or parameters of a wrong form.                                     *)
Reject(c) ==
  /\ \E isNote \in BOOLEAN : Read(c, isNote)
  /\ Answer(c)
  /\ UNCHANGED adapterVars

Initialize(c) ==
  /\ \E isNote \in BOOLEAN : Read(c, isNote)
  /\ Goto(c, "card")
  /\ UNCHANGED <<adapterVars, lines>>

(* The agent's card is there, or not within the timeout of 30 s.             *)
CardFetched(c) ==
  /\ pc[c] = "card"
  /\ UNCHANGED <<cur, notes, adapterVars, streamVars, streamed, emitted, free>>
  /\ Answer(c)

NewSession(c) ==
  /\ \E isNote \in BOOLEAN : Read(c, isNote)
  /\ IF Cardinality(Live(c)) >= MaxSessions
     THEN EvictAnd(c, {}, {}) /\ Answer(c)
     ELSE (\E s \in Session \ issued : Register(c, s)) /\ Answer(c)

(* touch_session, then the lease, then the task is sent; the lease's guard   *)
(* is held until the reply is there.                                         *)
Prompt(c) ==
  /\ \E isNote \in BOOLEAN : Read(c, isNote)
  /\ \E s \in Session :
       IF s \in Live(c)
       THEN EvictAnd(c, {}, {s}) /\ Goto(c, "sent") /\ UNCHANGED lines
       ELSE EvictAnd(c, {}, {}) /\ Answer(c)

(* A whole reply: the stop reason of the task; an error for a task that is   *)
(* not over, for one the agent refuses, and after the 30 s timeout.          *)
ReplyWhole(c) ==
  /\ pc[c] = "sent"
  /\ UNCHANGED <<cur, notes, adapterVars, streamVars, streamed, emitted, free>>
  /\ Answer(c)

(* A stream: dropped if nobody waits for the reply, refused if the agent has *)
(* no slot left, although its turn has begun.                                *)
ReplyDropped(c) ==
  /\ pc[c] = "sent"
  /\ cur[c] \in notes[c] \/ ~HasSlot(Target)
  /\ UNCHANGED <<cur, notes, adapterVars, streamVars, streamed, emitted, free>>
  /\ Answer(c)

ReplyStream(c) ==
  /\ pc[c] = "sent" /\ cur[c] \notin notes[c]
  /\ TakeSlot(Target)
  /\ Goto(c, "relay")
  /\ sse' = [sse EXCEPT ![c] = "open"]
  /\ events' = [events EXCEPT ![c] = <<>>]
  /\ final' = [final EXCEPT ![c] = FALSE]
  /\ converter' = [converter EXCEPT ![c] = "on"]
  /\ updates' = [updates EXCEPT ![c] = <<>>]
  /\ streamed' = [streamed EXCEPT ![c] = @ \cup {cur[c]}]
  /\ emitted' = [emitted EXCEPT ![c] = 0]
  /\ UNCHANGED <<cur, notes, adapterVars, lines>>

(* The agent's task is cancelled under the session's id, whether it runs or  *)
(* not; then the session is forgotten, whatever the agent has said.          *)
Cancel(c) ==
  /\ \E isNote \in BOOLEAN : Read(c, isNote)
  /\ Goto(c, "cancelling")
  /\ UNCHANGED <<adapterVars, lines>>

Cancelled(c) ==
  /\ pc[c] = "cancelling"
  /\ UNCHANGED <<cur, notes, streamVars, streamed, emitted, free>>
  /\ \E s \in Session : DropSession(c, s)
  /\ Answer(c)

(* The end of the client's lines, a line beyond MAX_LINE_BYTES or an error.  *)
ReadEnds(c) ==
  /\ pc[c] = "read"
  /\ Close(c)
  /\ UNCHANGED <<streamVars, free>>

-----------------------------------------------------------------------------
(* A streamed reply                                                          *)

(* sse_to_a2a_events: one more event of the agent.  The status of a working  *)
(* task has no text.  The agent may go on after its terminal event.          *)
Arrive(c) ==
  /\ sse[c] = "open" /\ converter[c] = "on" /\ Len(events[c]) < MaxQueued
  /\ \E kind \in {"chunk", "status", "final"} :
       /\ kind = "chunk" => emitted[c] < MaxChunks
       /\ kind # "chunk" => ~final[c]
       /\ events' = [events EXCEPT ![c] = Append(@, [kind |-> kind, n |-> emitted[c] + 1])]
       /\ final' = [final EXCEPT ![c] = @ \/ kind = "final"]
       /\ emitted' = [emitted EXCEPT ![c] = IF kind = "chunk" /\ ~final[c] THEN @ + 1 ELSE @]
  /\ UNCHANGED <<pc, cur, notes, adapterVars, sse, converter, updates, lines, streamed, free>>

(* The response is over, broken, or cut by the client's timeout of 30 s.     *)
ResponseEnds(c) ==
  /\ sse[c] = "open"
  /\ sse' = [sse EXCEPT ![c] = "ended"]
  /\ UNCHANGED <<pc, cur, notes, adapterVars, events, final, converter, updates, histVars, free>>

(* a2a_event_to_session_update: an event with text becomes an update.        *)
Updates(event) == IF event.kind = "chunk" THEN <<event.n>> ELSE <<>>

EndsOnAnyStatus(event) == event.kind # "chunk"

(* The converter ends with the terminal event ...                            *)
EndsConverter(event) == event.kind = "final"

Convert(c) ==
  /\ converter[c] = "on" /\ events[c] # <<>>
  /\ LET event == Head(events[c]) IN
       /\ events' = [events EXCEPT ![c] = Tail(@)]
       /\ updates' = [updates EXCEPT ![c] = @ \o Updates(event)]
       /\ converter' = [converter EXCEPT ![c] = IF EndsConverter(event) THEN "off" ELSE @]
  /\ UNCHANGED <<pc, cur, notes, adapterVars, sse, final, histVars, free>>

ConverterEndsIfFinal(c) ==
  /\ converter[c] = "on" /\ events[c] = <<>> /\ sse[c] = "ended" /\ final[c]
  /\ converter' = [converter EXCEPT ![c] = "off"]
  /\ UNCHANGED <<pc, cur, notes, adapterVars, sse, events, final, updates, histVars, free>>

(* ... or, once it has taken all events, with the response.                  *)
ConverterEnds(c) ==
  /\ converter[c] = "on" /\ events[c] = <<>> /\ sse[c] = "ended"
  /\ converter' = [converter EXCEPT ![c] = "off"]
  /\ UNCHANGED <<pc, cur, notes, adapterVars, sse, events, final, updates, histVars, free>>

(* The end of a stream, for whichever reason, leaves its channels behind and *)
(* drops the permit.                                                         *)
StreamOver(c) ==
  /\ sse' = [sse EXCEPT ![c] = "ended"]
  /\ events' = [events EXCEPT ![c] = <<>>]
  /\ final' = [final EXCEPT ![c] = FALSE]
  /\ converter' = [converter EXCEPT ![c] = "off"]
  /\ updates' = [updates EXCEPT ![c] = <<>>]
  /\ ReturnSlot(Target)

Relay(c) ==
  /\ pc[c] = "relay" /\ updates[c] # <<>>
  /\ Write(c, [of |-> cur[c], says |-> "update", n |-> Head(updates[c])])
  /\ updates' = [updates EXCEPT ![c] = Tail(@)]
  /\ UNCHANGED <<pc, cur, notes, adapterVars, sse, events, final, converter, emitted,
                 streamed, free>>

(* The client has closed the socket.                                         *)
RelayFails(c) ==
  /\ pc[c] = "relay" /\ updates[c] # <<>>
  /\ Close(c)
  /\ StreamOver(c)

(* The channel is closed and empty: the loop reads on.  Nothing tells the    *)
(* client that the stream is over, or why.                                   *)
RelayEnds(c) ==
  /\ pc[c] = "relay" /\ updates[c] = <<>> /\ converter[c] = "off"
  /\ Goto(c, "read")
  /\ StreamOver(c)
  /\ UNCHANGED <<cur, notes, adapterVars, histVars>>

-----------------------------------------------------------------------------
Step(c) ==
  \/ Handshake(c) \/ CardFetched(c) \/ ReplyWhole(c) \/ ReplyDropped(c) \/ ReplyStream(c)
  \/ Cancelled(c) \/ ResponseEnds(c) \/ Convert(c) \/ ConverterEnds(c)
  \/ Relay(c) \/ RelayFails(c) \/ RelayEnds(c)

Environment(c) ==
  \/ Reject(c) \/ Initialize(c) \/ NewSession(c) \/ Prompt(c) \/ Cancel(c)
  \/ ReadEnds(c) \/ Arrive(c) \/ Expire(c)

Next == \E c \in Conn : Step(c) \/ Environment(c)

Spec == Init /\ [][Next]_vars

(* What the agent is asked ends within the HTTP client's timeout, the        *)
(* handshake within its own; a client that stays reads what it is sent.      *)
Fairness == \A c \in Conn :
  /\ WF_vars(Handshake(c)) /\ WF_vars(CardFetched(c)) /\ WF_vars(Cancelled(c))
  /\ WF_vars(ReplyWhole(c) \/ ReplyDropped(c) \/ ReplyStream(c))
  /\ WF_vars(ResponseEnds(c)) /\ WF_vars(Convert(c)) /\ WF_vars(ConverterEnds(c))
  /\ WF_vars(Relay(c) \/ RelayFails(c)) /\ WF_vars(RelayEnds(c))

FairSpec == Spec /\ Fairness

-----------------------------------------------------------------------------
(* Properties                                                                *)

Line == [of : Nat, says : {"answer", "update"}, n : 0 .. MaxChunks + 1]

Event == [kind : {"chunk", "status", "final"}, n : 1 .. MaxChunks + 1]

(* Every variable has its type, and no connection holds more sessions than   *)
(* the cap of register_session.                                              *)
TypeOK ==
  /\ free \in [Agent -> 0 .. StreamLimit]
  /\ pc \in [Conn -> {"handshake", "read", "card", "sent", "cancelling", "relay", "closed"}]
  /\ \A c \in Conn : cur[c] \in 0 .. MaxRequests[c]
  /\ \A c \in Conn : notes[c] \subseteq 1 .. cur[c]
  /\ issued \subseteq Session
  /\ sessions \in [Conn -> SUBSET issued]
  /\ \A c \in Conn : stale[c] \subseteq sessions[c] /\ Cardinality(sessions[c]) <= MaxSessions
  /\ leased \in [Conn -> SUBSET Session]
  /\ sse \in [Conn -> {"open", "ended"}]
  /\ events \in [Conn -> Seq(Event)]
  /\ final \in [Conn -> BOOLEAN]
  /\ converter \in [Conn -> {"on", "off"}]
  /\ updates \in [Conn -> Seq(1 .. MaxChunks + 1)]
  /\ lines \in [Conn -> Seq(Line)]
  /\ \A c \in Conn : streamed[c] \subseteq 1 .. cur[c]
  /\ emitted \in [Conn -> 0 .. MaxChunks]

(* What leased_sessions is there to measure: TurnLease tracks no session the *)
(* connection does not have, whatever ids the client names and however its   *)
(* sessions end.                                                             *)
LeasesAreSessions == \A c \in Conn : leased[c] \subseteq sessions[c]

(* The lines of the socket that belong to line k of the client.              *)
Of(c, k) == {i \in DOMAIN lines[c] : lines[c][i].of = k}

Handled(c) == 1 .. (IF pc[c] = "read" THEN cur[c] ELSE cur[c] - 1)

(* handle_http_target answers line by line: what is in the socket is in the  *)
(* order of the lines read, and for each of them there is one answer, none   *)
(* for a notification, and nothing but updates, in order, for a streamed     *)
(* turn, whose end lets the next line be read.                               *)
Transcript == \A c \in Conn :
  /\ \A i, j \in DOMAIN lines[c] : i < j =>
       \/ lines[c][i].of < lines[c][j].of
       \/ lines[c][i].of = lines[c][j].of /\ lines[c][i].n < lines[c][j].n
  /\ \A k \in Handled(c) :
       IF k \in notes[c] THEN Of(c, k) = {}
       ELSE IF k \in streamed[c] THEN \A i \in Of(c, k) : lines[c][i].says = "update"
       ELSE \E i \in DOMAIN lines[c] : Of(c, k) = {i} /\ lines[c][i].says = "answer"

(* The chunks written for line k; Transcript has them in order, each once.   *)
Chunks(c, k) == {lines[c][i].n : i \in Of(c, k)}

(* Two channels and three tasks lie between the agent's response and the     *)
(* socket.  When the loop leaves a stream to read on, everything that came   *)
(* before the terminal event, or the end of the response, has been written.  *)
StreamWhole == \A c \in Conn :
  pc[c] = "read" /\ cur[c] \in streamed[c] => Chunks(c, cur[c]) = 1 .. emitted[c]

(* The permits of try_acquire_stream: a slot is out exactly as long as a     *)
(* connection writes a stream, also if the write fails.                      *)
SlotsAccounted ==
  \A a \in Agent : SlotsInUse(a) =
    IF a = Target THEN Cardinality({c \in Conn : pc[c] = "relay"}) ELSE 0

(* Every wait of a connection for the agent ends, and a stream gives back    *)
(* its slot.                                                                 *)
Served == \A c \in Conn :
  pc[c] \notin {"read", "closed"} ~> pc[c] \in {"read", "closed"}
=============================================================================
