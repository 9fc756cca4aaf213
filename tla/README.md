# TLA+ models of the ACP/A2A gateway

The gateway connects two agent protocols: ACP (JSON-RPC lines over stdio or TCP) and A2A (JSON-RPC and
REST over HTTP, with server-sent events). It has four directions:

1. ACP client on TCP → ACP agent on stdio: the bytes are passed through;
2. A2A client → A2A agent: a reverse proxy;
3. ACP client on TCP → A2A agent on HTTP (`A2aAsAcp` over `HttpA2aAgent`);
4. A2A client on HTTP → ACP agent on stdio (`AcpAsA2a` over `SupervisedStdioAgent`).

Direction 4 holds most of the program's own state: conversations, turns, a supervised process with a
request multiplexer, streams that survive their connection, stored tasks. It is modelled first and in
most detail, direction 3 next, then the two passthroughs and what serves the operator. Each module below is translated from the source; `PROJECT.json` maps
its definitions to lines.

## 1. Inventory

| Component (source) | State | Operations | Meets | What is hard | What makes it correct |
|---|---|---|---|---|---|
| Conversation table, `AcpAsA2a` (`core/src/convert.rs`), `TurnLease` (`lease.rs`), `SupervisedStdioAgent` (`supervisor.rs`) | `sessions` under a tokio mutex, a lock per session, process and generation | `send_task_as`, `ensure_session`, `cancel_task_as`, `evict_expired`, `acquire`, `forget`, `healthy` | HTTP handlers call it, it calls the stdio agent | the mutex is held over awaits, a generation is read before an await and used after it, leases are forgotten while held, processes die anywhere | one client and context per session, one waited-for turn per session, no session of a dead process, cap, termination |
| Stdio agent (`core/src/stdio_agent.rs`) | `pending` by request id, `updates` by session, oneshots and channels, pipes | `call`, `notify`, `prompt_streaming` and its relay task, the reader task | shared by all calls of an agent | answer and chunks come through different channels, timeouts leave the agent working, the agent numbers its own requests like ours, pipes fill | answers complete their own request, a stream has no hole and, undisturbed, is whole before its terminal, every request ends |
| Event log (`gatewayd/src/event_log.rs`) | SQLite rows (task, seq, event), a counter | `append` with clean-up, `events_after`, `last_seq` | one writer task, commands through a channel | clean-up goes by seq over all tasks, numbering starts from what is left | a task keeps a suffix of its events |
| Stream delivery (`gatewayd/src/transport_http.rs`: `spawn_stream_relay`, `StreamHub`, `stream_to_sse`, `resubscribe_stream`) | relay, broadcast channels, SSE connections | persist, publish, deliver, replay, subscribe, catch up | reads the log and the hub, which the relay writes | replay overlaps the live tail, the ring overflows, the channel closes during a subscription, restarts | in order, at most once, complete while connected, an end for every response |
| Task store (`core/src/task_store.rs`), detached sends, sweeper (`main.rs`) | files `<id>.json`, `<id>.json.tmp` | `save`, `load`, sweep | turns, cancels and the sweeper write one file | all saves of a task share a temporary name; crashes | readers see whole records, an outcome is not undone, nothing stays working |
| HTTP front end (`transport_http.rs`), registry (`registry.rs`) | adapter cache under a mutex, semaphore per agent | `get_or_spawn_adapter`, `rpc_handler`, `rest_send_message_core`, `start_detached_send` | all agents meet at one mutex | a process is started under the mutex, clients hang up at any await, permits move between tasks | one process per agent, no slot lost, requests settle |
| `A2aAsAcp` (`convert.rs`), `HttpA2aAgent` (`http_agent.rs`), TCP loop (`transport_tcp.rs`) | sessions and leases per connection, two channels per stream | initialize, session/new, session/prompt, session/cancel | the loop is alone on its adapter; slots are shared | three tasks and two channels behind a stream, the client's timeout cuts bodies, broken sockets | one answer per line, in order, a stream written whole, slots come back |
| Stdio passthrough (`transport_tcp.rs`) | a line in hand per copy loop, the child's pipes | two copy loops under one select | a process per connection | the end of one loop drops the other and kills the agent | order without gaps, an end for both sides |
| A2A passthrough (`transport_a2a_passthrough.rs`), dialect probe (`dialect_probe.rs`) | cache of dialects | proxy, probe, invalidate | HTTP agents | probes overlap, fail halfway and race with invalidations | a cached dialect is what one whole probe found, a failed probe stops no request |
| Content mapping (`convert.rs`, `protocol`) | – | conversions of blocks, parts, reasons, updates | every adapter | A2A has fewer kinds than ACP, streams carry no reason, and gateways are chained | payload and kind survive, nothing changes after the first hop, no refusal or cancellation is made up |
| Approvals (`approvals.rs`, start-up and CLI in `main.rs`, `cli.rs`) | SQLite rows of fingerprints | register, set | start-up against the CLI | two connections, configs that change between starts | nothing is served that was not approved as it is |
| Journal (`journal.rs`), health monitor (`health.rs`) | SQLite rows, the page count | append with clean-up; a periodic check | start-up and monitor append | two clean-ups, by age and by size; a clock set back; a size that does not shrink | the newest rows are kept, answers rise, the monitor survives the journal |
| Log level (`main.rs`: `set_debug_level`) | the filter, the level reported | post, timed rollback | – | requests and timers overlap | a raised level is taken back |
| Log directory (`main.rs`: `prune_log_dir`; the appender) | files by age and size | compress, remove; write, roll over | the appender works in the same directory | midnight in the middle of a prune | the file written to stays |
| Configuration, CLI output, setup wizard, mock agent | – | – | – | I/O | – |

How a message of direction 4 passes: `rpc_handler` gets the adapter (FrontEnd), `send_task_as` gets
a session, its lease and a process (Conversations), `prompt_streaming` talks to the process
(StdioAgent), a streamed reply takes a slot (FrontEnd) and goes through the relay, the log and the hub
(StreamDelivery over EventLog), and the outcome, or the state of a detached send, is stored (Tasks).

`PROJECT.json` lists the components with their status and, under `hazards`, everything found hard to
test at its line, with the properties that cover it or why none does.

## 2. Modules

| Module | Stands for | State ↔ code | Actions ↔ code |
|---|---|---|---|
| `Conversations` | `AcpAsA2a`, `TurnLease`, supervisor | `sessions`, `sessionsMutex`, `leases` are the tables; `pc`, `sid`, `seen`, `lock`, `proc` the locals of a request; `generation`, `alive` the supervisor; `origin` what the agent knows of a session | one action per stretch between two awaits of `send_task_as`/`ensure_session`/`cancel_task_as`; `Crash`, `GoIdle` are the environment |
| `ConversationsInv` | – | the inductive invariants `IInv`, `CapInv` | – |
| `StdioAgent` | one process and its multiplexer | `pending`, `updates`, `chan`, `resp`, `out`; the pipes `toAgent`, `fromAgent` | one action per critical section, write, poll of the select or timeout; the reader task; a free agent |
| `EventLog` | the writer's table | `log`, `pages`, `sinceCheck` | `DoAppend` with its clean-up, `Reopen` |
| `StreamDelivery` | relay, hub, SSE responses | `relay`, `item`, `wire`, `hub`, `channel`; `queue`, `rx`, `lastSeq` are the fields of the resubscription's `State` | `Persist`, `Publish`, `Deliver`, `Close` of the relay; the phases of the `unfold`; `Restart` |
| `EventFeed` | abstract: what delivery promises | `feed`, `got` | `Yield`, `Get` |
| `Tasks` | one task's files and writers | `tmp`, `final`, `content`: names and inodes; `pc`, `value`, `fd` per writer | the system calls of `save`, `load`, the steps of sends, cancels and the sweeper; `Crash` |
| `StreamSlots` | the semaphores of the registry | `free` | `TakeSlot`, `ReturnSlot` |
| `FrontEnd` | HTTP handlers and detached jobs | `mutex`, `adapters`, `procs`; `pc`, `job` per request | the awaits of the handlers; `HangUp` drops one |
| `AcpConnection` | direction 3 with its TCP loop | `sessions`, `stale`, `leased`; `events`, `updates`: the two channels; `lines`: the socket | the loop, the converter task, the HTTP client |
| `RespawnPacing` | `healthy` in time | `spawnedAt`, `generation`, `alive`: the supervisor's `current`; `holder` its lock; `instant` the clock | lock, look, spawn, handshake; a caller dropped on the way |
| `StdioPassthrough` | `handle_stdio_passthrough` | `socketIn`, `stdin`, `stdout`, `socketOut`: the four channels; `inHeld`, `outHeld` what a loop has read and not written | a read or a write of either loop, their ends; client and agent |
| `DialectCache` | `proxy_handler`, `probe_dialect` | `cache`; `proxyPc` per request; `answer` what came back from the agent | the awaits of the handler |
| `ContentMapping` | the conversions, as operators | – | – |
| `Translation` | a prompt through gateways, a turn's updates into a record | `carried`, `hops`, `ways`; `updates`, `record` | `Hop`, by one of three replies; the steps of `send_task_as`'s stream and of `run_detached_turn` |
| `Approvals` | store, start-up, CLI | `row` per agent; `startPc`, `found`, `allowed` per gateway; `command` per CLI call | the statements of `register` and `set`, `build_registry` |
| `Journal` | journal and monitor | `events` with ids and stamps, `pages`; `monitorPc` | start-up notes, the monitor's loop, one step per append; crash, clock, checkpoint |
| `LogLevel` | `set_debug_level` | `filter`, `current`; `postPc`, `timer` per request | the awaits of the handler and of its timer |
| `LogFiles` | `prune_log_dir`, `gzip_file`, appender | `size`: the directory; `written`, `born`: its files in the order of their times; `prunePc` | each file-system call; `WriteLine`, `Rollover` of the appender |
| `MC_*` | – | instances for TLC; `MC_Paths` and `MC_Operations` put small components side by side | – |
| `*_proof` | – | theorems and their proofs | – |

Composition: `StreamDelivery` extends `EventLog` (the relay's commands are the log's actions, and
the other tasks' appends interleave) and refines `EventFeed`; `FrontEnd` and `AcpConnection` extend
`StreamSlots`. `Translation` extends `ContentMapping`. `MC_Paths` and `MC_Operations` run components that share no
state: a behaviour is one of the part its `part` names, the others stand still. The components of direction 4 are otherwise kept apart at the points where the code hands
over a value and no state is shared. Conversations takes from StdioAgent that a prompt
ends in a reply, an error or a stream (there: `Returns`); FrontEnd takes the same of a turn from
Conversations (there: `Returns`). StdioAgent assumes nothing of its callers: Conversations keeps waited-for turns of a session apart
(`TurnExclusion`), but not streamed ones (`conversations_streamed`), so turns of a session overlap there as they like.

Modelling decisions that matter:

- An action is what a task does between two awaits or inside one critical section. A tokio runtime with
  several threads interleaves these freely, and so does the model.
- A handler whose client hangs up is dropped at the await it is in: its guards and permits go, what it
  has spawned goes on (`FrontEnd!HangUp`, `StdioAgent!Dropped`, `Tasks!Dropped`; in Conversations as
  `PromptFails`, `EndTurn`, `NewSessionFails`).
- Timeouts fire at any time: nothing relies on them being long, except that the session TTL (24 h)
  outlasts the few instructions between `ensure_session` and the lease table.
- Agents behave freely: they crash, answer late, in any order, or not at all, stream any number of
  chunks up to a bound and send requests of their own. `IdsRestart = FALSE` is the one assumption about them in
  Conversations: a session id is never handed out twice. See section 6 for TRUE.
- Data is a model value or a number: contexts, owners, sessions; a chunk is its number.
- `EventLog` and `Journal` count one row per page; a clean-up's limit is compared as the code does it.
- `Tasks` keeps a torn file apart from an empty one: a short write over a longer text leaves its tail.

## 3. Runs

| Run | Asks | Instance | Distinct states |
|---|---|---|---|
| `conversations` | Isolation, TurnExclusion, FreshHandOut | two calls of A and one of B in one context, 3 session ids, 4 locks, 2 respawns, cap 1 | 516 000 |
| `conversations_cap` | SessionCap, Returns | the third call in a second context, cap 1 | 61 000 |
| `conversations_streamed` | violation: OneTurnPerSession | as the first, smaller | counterexample |
| `stdio` | AnswersAreOwn, CompleteTurn | two prompts of a session, overlapping or not, and a call, pipes of one line, 2 chunks, 1 request of the agent | 7 415 000 |
| `stdio_live` | Returns | two overlapping prompts and a notification, pipes of 3 | 235 000 |
| `stream` | InOrderOnce (refinement), DirectComplete, KeepsNewest, ResubscriptionEnds, TypeOK | a streamed task of 3 events and another one, the sender and a second connection, ring of 1, replay limit 2, clean-up of 2 rows every 2 appends | 101 000 |
| `stream_holes` | violation: NoHoles | no clean-up | counterexample |
| `tasks` | WholeFile, Settled, NeverBackToWorking, TypeOK | a turn, two cancels, the sweeper, 5 inodes | 231 000 |
| `acp` | Transcript, StreamWhole, LeasesAreSessions, Served | two connections of 3 and 2 lines, one slot, cap 1, 2 session ids, 2 chunks | 475 000 |
| `frontend` | OneProcess, SlotsAccounted, Settles | three requests of any kind, two agents, one slot each | 76 000 |
| `operations` | Consent, AdmitsStanding; SeqsRise, KeptNewest, MonitorReturns; TakenBack; TodayKept; TypeOK | one gateway, two agents, three config entries, two commands; 4 events, a retention of 1 tick, a size limit of 1 page; three posts; 5 days, 3 files kept, files of 3 units | 712 000 |
| `paths` | InOrder, Ended; CachedWasProbed, Forwarded; Paced; Carried, RecordWhole; TypeOK | 4 lines each way, pipes of 2; two requests; three callers, backoff 2, 4 attempts; all blocks, all ways of reply, 3 pairs of gateways, 4 updates | 102 000 |

Why the bounds are enough for the cases that matter:

- *Conversations.* Two calls of a client overlap in a session while a third, foreign one meets the same
  context; three session ids let an entry be evicted, lost and re-created; two respawns put a third
  process after a stale one; four locks are one more than can be referenced by calls at once. A cap of
  1 makes the second context meet a full table.
- *StdioAgent.* A pipe of one line makes every writer wait for it. The second turn of a session comes while the first is in any of its
  phases, its clean-up included, or after the first was given up with answer and chunks outstanding; two chunks make a hole possible.
- *StreamDelivery.* A ring of 1 overflows with the second unread event, a limit of 2 cuts a replay
  of 3; `CheckEvery` 2 puts a clean-up in the middle of the stream; with two tasks a clean-up by seq takes
  rows of both; a restart (one is enough: no stream is resumed after it) leaves the log alone.
- *Tasks.* Two cancels and the turn give three overlapping saves; an inode is renamed away while another
  writer has it open; five inodes never run out.
- *AcpConnection.* Three lines are a session, a prompt and what follows it; the other
  connection competes for the slot or holds it; a second session id serves as an unknown or a cancelled one.
- *FrontEnd.* Three requests for two agents: two race for one adapter while the third waits behind
  another agent's start, and two want one slot.
- *Approvals.* Two commands and two starts of one gateway interleave around one row; two of the three entries share a print, so a
  config can change with and without its fingerprint.
- *Journal.* With a limit of one page and a batch of two, a clean-up empties the table under the rows just written; a clock of 3 ticks
  goes forward, expires rows and is set back.
- *LogLevel.* Three requests: one raises, one replaces it, one is dropped, with two timers still to run.
- *LogFiles.* Five days give a prune at least one midnight in its middle with more old files than the appender keeps.
- *StdioPassthrough.* Four lines fill a pipe of two, the hand of the loop and the pipe's far end.
- *DialectCache.* Two probes overlap; one fills the table, the other request's answer empties it, before or after that.
- *RespawnPacing.* Three callers find the agent dead at once; four attempts hold a success, failures after it and a second success.
- *Translation.* Every kind of block with every kind of MIME type; a second hop would change what a third changes.

The bounds `MaxGeneration`, `MaxEvents`, `MaxChunks`, `MaxAsks`, `MaxRequests`, `MaxQueued`, `MaxTime`, `MaxLines`,
`MaxInstant`, `MaxAttempts`, `MaxUpdates`, `MaxHops`, `MaxSize`, `MaxDays` stand in
guards of the environment; nothing the gateway does is bounded except the respawns at `MaxGeneration`,
after which the agent stays unhealthy, which is what the code's `Unhealthy` outcomes are like anyway.

Symmetry is used only in runs without liveness properties: sessions, locks and the two equal calls in `conversations`,
prompts in `stdio`, cancels and inodes in `tasks` (none is told apart by a constant). `operations` has
liveness and no SYMMETRY; its first command is for the first of the two agents, which are interchangeable.

Deadlock is checked in Conversations. The other configurations say `CHECK_DEADLOCK FALSE`, for their systems
stop: every request is over, or the gateway has gone down.

Each property of a passing run has a mutant of the code's definition in `PROJECT.json`, an operator
beside the true one (`WaitsForever` beside `LeaseTimeout`, `FinishAtOnce` beside `RelayFinish`, …)
that breaks it in that run.

### Fairness

Weak fairness is given to what the runtime drives: a task that can go on does. A wait for something
outside counts as able to end because the code bounds it:

- Conversations: `call_timeout`, `first_chunk_timeout`, `lease_timeout`. A streamed turn has only an idle
  timeout between chunks, so `EndStream` is not fair, and a call that streams counts as returned.
- StdioAgent: the same timeouts and the idle timeout of the relay. No timeout covers `write_all`
  to the agent's stdin: `Returns` is checked with pipes that have room for every line. The agent is never
  fair; `Begin` and the start of calls neither.
- StreamDelivery: the relay and a response whose client reads. The agent, and clients coming back, are not fair.
- AcpConnection: `HANDSHAKE_TIMEOUT`, and the HTTP client's 30 s for requests and for whole bodies, which is
  why `ResponseEnds` is fair; a client that stays reads its socket, one that closed it makes the write fail.
- FrontEnd: a start is bounded by `call_timeout`, turns by Conversations' `Returns`, a relay by its idle
  timeout and the agent's end (that an agent does not stream for ever is assumed), a response by its relay.
- Journal: the monitor's task goes on (`MonitorStep`), for an append is answered or fails; the journal itself is not fair.
- LogLevel: requests and timers go on; a hang-up is not fair, and excepted in `TakenBack`.
- StdioPassthrough: the two loops, and the readers at both ends: `Ended` does not hold of a client or an agent that stops
  reading, for the code has no timeout there.
- DialectCache: the proxying of a request goes on, for probe and call are under 10 s and the client's timeout; the agent is not fair.
- Tasks and the safety runs have no fairness and need none.

## 4. What the runs show

**Conversations.** A session is reached only by the client and context it was made for, through eviction,
loss and re-creation. No two *waited-for* turns of a session overlap, although leases are forgotten
while they are held: a forgotten session is never handed out again by the same process. A stored session is handed
out only if its process lives. The cap holds over the awaits between check and insertion, for the mutex is kept.
Calls return.

One run ends in a counterexample, listed as a finding. `conversations_streamed`: the lease of a
streamed turn is released when `send_task_as` returns the stream, while the agent is still answering; the next
call prompts the same session, against `lease.rs:3` and `docs/FINAL-ARCHITECTURE-minimal-reliable.md:131`.

**StdioAgent.** Whatever turns of a session overlap, a stream has the first chunks the agent wrote for it, in order and without a hole.
A turn that met no other one in progress has all of them before its terminal: the relay drains its channel first, also when turns before it were given up
with their answer and chunks outstanding. What overlap does break is in section 6. Requests the agent numbers like ours do not complete our calls. All requests end.

**StreamDelivery.** Over any number of connections a client never gets an event twice or out of order, even
if clean-ups make the numbering begin again; the connected sender gets everything also when the log
refuses; resubscriptions end. `stream_holes` is the second finding: an event persisted and published between
the read of the history and the subscription reaches a resubscribed client by neither.

**Tasks.** Records are whole as long as no two saves of the task overlap, over crashes and full disks in the middle of
them; outcomes do not turn back to working; detached tasks settle. Saves that do overlap are in section 6.

**AcpConnection.** The socket holds the answers in the order of the lines, each once; before the loop reads on, all of
a stream up to its terminal event has been written; the lease table tracks only the connection's sessions;
all waits end.

**FrontEnd.** One process per agent however requests race, fail or hang up while it starts; no slot lost;
everything accepted settles, also behind another agent that does not start.

**Approvals.** No interleaving of starts, config changes and commands makes a gateway admit an agent whose fingerprint nobody has approved;
an agent admitted was approved at some instant of that start, one approved all along is admitted.

**Journal.** What appends report rises over crashes and emptied tables; an event is missing while an older one is there only if its
time was up. A journal that fails does not stop the monitor.

**LogLevel, LogFiles.** A raised level goes back or is replaced unless its request was dropped before the timer began; the file written to
survives every prune, also when midnight falls into it.

**StdioPassthrough, DialectCache, RespawnPacing.** What was read is what was sent, without gaps, and a connection ends on both sides; a request goes out whatever
becomes of its probe; the cache holds what one probe found in full, and one not over at the last invalidation (which is not that the agent speaks the dialect, section 6); attempts do not overlap and keep the backoff after a success.

**Translation.** A prompt keeps its payload through any chain of gateways, and after the first hop everything. A client is told of a
refusal or a cancellation only if the turn ended so, and then is as long as every reply on the way was the finished task: a stream tells no
reason, a task still working becomes an error. The record of a detached turn has all texts in order.

## 5. What is proved

Every safety property of every passing run, and every type invariant, is a theorem. TLAPS checks these for every
value of the constants, under the modules' named assumptions: types of the constants, model values outside the
sets they complete (in StdioAgent also: no request is called `"reply"`, which stands for
the reader's own lines in `toAgent`), limits in Nat, finite sets of requests, of connections where they are counted, files and
days of at least 1 in LogFiles.

| Theorem | Needs besides | Argument |
|---|---|---|
| `Conversations_proof!TypeCorrect` | – | one step per action |
| `IsolationHolds`, `TurnExclusionHolds`, `FreshHandOutHolds` | `~IdsRestart` | the invariant `IInv` below |
| `SessionCapHolds` | – | `CapInv` |
| `StreamDelivery_proof!LogKeepsNewest` (for `LogSpec`), `KeepsNewestHolds` | – | `LogInv` |
| `StreamDelivery_proof!TypeCorrect`, `DirectCompleteHolds`, `InOrderOnceHolds` | – | `DeliveryInv` |
| `StdioAgent_proof!TypeCorrect`, `AnswersAreOwnHolds` | – | an answer is followed from the agent to the caller |
| `StdioAgent_proof!CompleteTurnHolds` | – | `HeldInv`, `AskedOnce`, `PipeInv`, `CarryInv` |
| `FrontEnd_proof!TypeCorrect`, `OneProcessHolds`, `SlotsAccountedHolds` | – | `IInv` there |
| `AcpConnection_proof!LeasesHold`, `SlotsAccountedHolds` | – | `LeaseInv`, `SlotInv` |
| `AcpConnection_proof!TypeCorrect` | – | `TalkInv`, `ChannelInv`, `CapInv` besides |
| `AcpConnection_proof!TranscriptHolds`, `StreamWholeHolds` | – | `SocketInv`; `FlowInv` |
| `Tasks_proof!TypeCorrect`, `WholeFileHolds`, `SettledHolds`, `NeverBackToWorkingHolds` | – | `SaveInv`, `ValueInv`, `Fresh \/ Late` |
| `Operations_proof!ApprovalsTypeCorrect`, `OnlyApproved`, `OnlyStanding` | – | `ConsentInv`, `StandingInv` |
| `Operations_proof!AnswersRise`, `NewestKept` | – | `TableInv` |
| `Operations_proof!TodayIsThere` | `MaxFiles >= 3` (the default is 10) | `DayInv`, `PruneInv` |
| `Operations_proof!OperationsTypeCorrect` | – | of all parts side by side, by `Parts` |
| `Paths_proof!AttemptsPaced` | – | `PacingInv` |
| `Paths_proof!CacheIsOfAProbe` | – | `ProxyInv` |
| `Paths_proof!PromptCarried` | – | `CarriedInv` |
| `Paths_proof!CopiedInOrder` | – | `CopyInv` |
| `Paths_proof!RecordIsWhole` | – | `AnswerInv` |
| `Paths_proof!PathsTypeCorrect` | – | of all parts side by side, by `Parts` |

*Conversations.* `TurnExclusion` is not inductive: the lock of a session may be forgotten and a new one
made while a turn holds the old one. What saves it is that this happens only to entries that are leaving
the table. `IInv` therefore says who is inside the mutex (`MutexInv`), that generations only grow
(`ClockInv`), that entries and calls carry sessions made for them (`EntryInv`, `CallInv`: this is Isolation),
that holders hold (`LockInv`), that an entry with too old a stamp was handed to its maker only
(`HandOutInv`, which is also what makes a false loss harmless), that all calls at the lease of a session of the current
process share a lock, which the table has as long as another can come (`LeaseInv`), and the same for
prompts already written (`TurnInv`). `CapInv` adds that the table is finite and has room while a call is
in `new_session`. TLC also finds `IInv` and `CapInv` to hold on the instances of `MC_Conversations`.

*StreamDelivery.* The log first: the rows of a task in the table are the last ones appended, with consecutive seqs; the strengthening
(`Rising`, finiteness) says that the events of a task's rows rise, so that no two rows are equal and taking the lowest seqs of all tasks
takes a prefix of each. It follows that of two rows of the task, one of them still in the table, the one with the greater seq is the later event
(`LaterRow`), although numbering may restart, and that a replay exists, in order (`RankExists`, `ReplayIs`). Then the clients: what has an id is a
row that was appended, the channel holds such rows in the order of their events, and the wire what follows the sender's last event
(`ItemInv`, `ChannelInv`, `WireInv`). What makes the delivery exact is `Ahead`: whatever the table, the relay's hands and the unread part of
the channel hold above a client's last id is later than all the client has received, also what it received without an id. A replay
from that id is then due as it is, and so is a live item that passes the check of `last_seq`. That every step yields, gets or stutters
gives the refinement of EventFeed. TLC also finds `DeliveryInv` to hold on the instance of `MC_StreamDelivery`.

*StdioAgent.* `AnswersAreOwn`: what completes a request is an answer the agent gave to it, wherever it is on its way. `CompleteTurn` needs
more. Chunks and answer of a prompt leave the agent through one pipe but reach the caller through two channels, and the
channel is found by session. The history variable `overlapped` says which turns met another in progress. `HeldInv`: of the others
each is the only one of its session in progress (`Alone`), and its channel is listed until it ends (`Held`). `AskedOnce`: a prompt is written once, and is where one copy
of it can be: in the pipe, with the agent, answered. `PipeInv`: the answer lies behind the chunks of its prompt. `CarryInv`: what
the caller has, what the channel holds and, while the channel is listed, what the pipe holds are, one after the other, the chunks from the first on; once
it is not, the pipe's are lost, but nothing comes after them, which is why overlap cuts and never holes. That the relay empties its channel before it
looks at the answer does the rest for a turn that met no other.

*FrontEnd.* `OneProcess` needs that the mutex is held by the one request in `spawn`, for an agent
without an adapter (`LockInv`); `SlotsAccounted` that a detached send's job starts when its handler is over
and only sends stream (`JobInv`). The counting is in three lemmas: the holders stay, one takes, one returns; an action is one of these cases.

*AcpConnection.* `LeaseInv` and `SlotInv` are inductive with the types of the variables they mention. The type invariant needs three parts:
the loop's place and lines (`TalkInv`), what the channels of a stream may hold in each of its phases (`ChannelInv`), and that no
connection has more than `MaxSessions` sessions (`CapInv`), by the cardinality of what is evicted. `Transcript` is in `SocketInv`, which
says of each place of the loop what the socket holds: of the lines before the current one the whole answer, of the current one nothing yet or, while
it relays, updates only. `StreamWhole` needs `FlowInv`: while a stream is relayed there is a number up to which its chunks are in the socket;
the updates follow that wait in the channel of `prompt`'s task, then the events in the channel of the HTTP agent up to the terminal one. The loop leaves
the stream only when its channel is closed and empty, and the task closes it only after the terminal event or the end of the response.

*Tasks.* `WholeFile`: until two saves overlap, the one under way has `.json.tmp` to itself (`SaveInv`), and what it renames is what it
has written. The other two: `working` is saved by the first save of a detached send only (`ValueInv`). Before it is in place no cancel has
anything to load and the temporary file is that record or nothing (`Fresh`); afterwards, or when it could not be made, neither the temporary
file nor any writer holds `working` (`Late`). The step from one to the other happens once.

*Approvals.* `ConsentInv`: a row that says approved was approved with the print it holds, and what a start has read of a row, or means to
write, is as good. `StandingInv`: an agent approved at every instant of a start is still to be registered, in hand with its approval read, or admitted.

*Journal.* `TableInv` relates the rows to their history: ids up to the last one given, the stamp of an event in the table is the one it was
given, what was reported is an id. What a clean-up takes has expired or is older than all it leaves; by itself a new event goes only when the
table is emptied, and then the answer is 0.

*LogFiles.* `TodayKept` is the claim that "the active (newest) file is left untouched", though compressing writes the archive and so
changes which file is newest, and though midnight may change the appender's file between any two steps. `DayInv`: today's file
is there, no file is of a later day, and only the archive can have been created after it; so the appender, which keeps the youngest, keeps it
at the next midnight. `PruneInv`: what the prune holds for active is today's file, or yesterday's after a midnight in
its middle. In the second case today's was written to later than yesterday's, and yesterday's is still there: the
appender keeps `MaxFiles - 1` files before it adds the new one, and with two of them kept, at most the archive is younger than
yesterday's. With `MaxFiles = 2` that fails, and TLC finds the prune removing today's file (§6), hence the hypothesis of the theorem.
So the oldest file is never today's: either it is the active one, where the prune stops, or the active one is older. The inductive invariant
`LogFilesInv` also holds in TLC, for 3 and 4 files kept, with and without compression.

*Translation.* `AnswerInv` follows a turn's updates through the two tasks behind a non-blocking send: at any time the texts gathered are those of
the first updates, the queue holds the events of the next ones in order, those after are still to be translated, and the final event is the last
of all. A record is made when the queue is empty and the translating task over, so nothing is left between. Each of the three
pieces is stated with a rising function that says which update an element is of (`AreTextsOf`, `Queued`), so no step needs induction.

*Paths.* `PacingInv`: who spawns holds the lock, and between the read of `spawned_at` and the end of the attempt nobody writes it. `ProxyInv`: what a
probe has in hand is what it was told at the method it is at, and at the second one it was refused the first. `CarriedInv`: what the first hop makes of a block
the second leaves as it is (`ThroughOnce`), and the ways the replies took say what is left of the reason. `CopyInv`: in each direction what was read, the pipe, the hand and the queue are consecutive pieces of what was sent (`Flow`).

`MC_Operations` and `MC_Paths` put parts side by side; that each part still moves as its own specification says (`Parts`, in both
proof modules) carries the parts' theorems over to the specifications the runs check (`OperationsSafe`, `PathsSafe`).

Only model-checked: all liveness (`Returns` of Conversations and of StdioAgent, `Served`, `Settles`, `ResubscriptionEnds`, `MonitorReturns`, `TakenBack`,
`Ended`, `Forwarded`), for liveness under fairness is beyond the prover. What the recursive functions of the model compute is proved
only where their input has a bounded size: `TextsOf` of the messages an answer is made of, which have one part or none. The type invariants of
Conversations, StdioAgent, FrontEnd and AcpConnection, and the latter's SlotsAccounted, are proved and in no run any more.

## 6. Known behaviours no run states

Counterexamples found while modelling, listed as hazards rather than runs because no line
of the repository promises otherwise, or because the property would repeat another. Nine do contradict a line:

- an entry is stamped with a generation read before `new_session` respawns the agent (`convert.rs:255`), so the next access
  may report `ContextLost` for a live session, against `supervisor.rs:35` ("because the agent process was restarted");
- all saves of a task share one temporary path, so of two that overlap (a cancel makes the turn store its outcome at the same time)
  one renames what the other has begun to write, and readers can see an empty or torn record, against `task_store.rs:78`
  (`NeverPartial` without the exception that `WholeFile` makes);
- a failed respawn leaves `spawned_at`, so the next attempt follows at once, against the "minimum pause between spawn attempts" of `supervisor.rs:87`;
- `with_extension("log.gz")` names the archive of every day `gateway.log.gz`, and each overwrites the one before, against "file -> file.gz" of `main.rs:734`;
- with `max_files: 2` and `compress_rotated`, a midnight during a prune may remove the file the prune holds for active: the archive, created after
  it, counts as the younger of the two. If the prune then rewrites the archive, the new day's file is the oldest, and the prune removes
  it, against "the active (newest) file is left untouched" of `main.rs:758` (`TodayKept` with `MaxFiles = 2`, `Limit = 2`);
- chunks are routed by session, so those of a turn given up by a timeout, which is not cancelled at the agent, and those of a
  streamed turn that overlaps another (as `conversations_streamed` shows they do) go to the other's response, against "Tail of the previous turn must not leak into the
  current response" of `stdio_agent.rs:338`;
- the probe takes any JSON but method-not-found for understood, without a look at the status or at what it says: a 401 or 404 body, another JSON-RPC
  error, a body without `error`. A dialect the agent has never spoken is then cached, against "False = the server understood the method" of
  `dialect_probe.rs:159`;
- a probe under way when a dialect is invalidated stores, after that, what it was told before, so the next request does not probe, against "The next
  request to agent_id runs the probe again" of `dialect_probe.rs:68`;
- requests that find no dialect at once each probe, against "one probe per first contact" of `dialect_probe.rs:11`.

The others:

- an agent that numbers its sessions anew in every process (`IdsRestart = TRUE`) lets a cancel for a lost session
  reach another client's (`cancel_task_as` compares no generation);
- a prompt may go to a process that was respawned after the hand-out and does not know the session; the agent refuses it;
- a call whose session is evicted between the hand-out and the lease would leave an entry in the lease table (excluded by the TTL);
- a streamed turn whose channel another turn of the session has displaced, or removed with its clean-up (`stdio_agent.rs:468`), is cut, and may be
  completed with its terminal all the same;
- a stream ends with `completed` whatever the agent's reason, or death (`convert.rs:490` says "closed without error" and calls the lost distinction
  deliberate), and so does the record of a detached turn; on the ACP side a streamed reply has no stop reason;
- the first chunk and the answer arriving between the two polls of the biased select complete the turn without
  the chunk; a dropped call leaves its entry in `pending` until the agent answers;
- an agent that stops reading blocks writers, and the reader's own reply, for good;
- a task all of whose rows were cleaned up is numbered from 1 again, and a client's last id hides what follows;
  a clean-up deletes as many rows as `max_size_mb` says, so fewer than 64 let the table grow;
- a resubscription before the first event finds no channel and is told the stream is over;
- the sweeper removes a record saved since it looked; a cancel may overwrite `completed` by `canceled`;
- a client that leaves a stream frees its slot while the turn goes on, so more turns than
  `max_concurrent_streams` run (`docs/06-gateway-guide.md:265` calls it a cap); a refused stream's turn has begun already;
- a TCP prompt whose reply streams is never answered under its id, and its updates name the session `unknown`;
- chained gateways: `HttpA2aAgent` always sends `blocking: false` (`http_agent.rs:136`), which this gateway's own server answers with a task in
  `working`; the prompt becomes an error;
- an approval may land on a fingerprint the operator has not seen (a start registers it between list and approve); one given before the first
  start has an empty print, and that start drops it to pending; an agent rejected during a start is served;
- an oversized journal loses rows on every append, for pages are not returned, at last the row just written, whose seq is reported as 0;
  the health check's size leaves out the WAL, which `health.rs:29` counts in;
- concurrent posts may leave a filter other than the level reported; a stale timer takes a later level back; a request dropped between
  raising the level and its timer leaves it raised; the level first reported is `info` whatever the config says;
- the monitor watches the directory above `logging.file.path` unless that ends with a slash, while the appender takes the path itself for a directory;
  a fresh archive is young, so pruning may stop at the active file with the limit exceeded;
- a client that closes its writing side first loses what the stdio agent still had to say;
- a cached dialect may be one the agent no longer speaks; it decides only whether to probe;
- the `uri` of an image or a resource is lost in an A2A part, and a detached record keeps text parts only.

## 7. Not modelled

Formats, wording and parsing; authentication (stateless: a wrong token ends a request at `Arrive`);
the non-streaming `prompt` (tests and the trait's default only); `initialize` of the stdio agent (a call before
the agent is shared); `TaskStore::delete` (no caller), the old file format and its owner check; reads that change nothing (`recent`, `list`, the health
snapshot's sizes, `load_task`). Of configuration, CLI and setup wizard (`config.rs`, `cli.rs`, `setup.rs`) only what decides
approvals is modelled: the rest reads files, asks and prints, with no state that outlives a call, and no concurrency. The mock agent
is a test double; the agents of the models behave more freely.

Left out of parts that are modelled, for no property depends on them: the reader's exit on a read error while the process lives
(`stdio_agent.rs:191`; `Eof` is its exit on the end of the pipe); a line torn because the write of a dropped call stops in the middle
(`stdio_agent.rs:360`; `Write` puts whole lines); a failing size query or DELETE of the log's clean-up, which then removes nothing (`event_log.rs:272`, `:287`);
that the directory or the temporary file of a save cannot be made (`task_store.rs:66`, `:76`), which leaves less behind than `WriteFails`; frames of a stream that do not parse and are
skipped (`http_agent.rs:237`).

## 8. Plan

Done, in this order: Conversations with its proofs; EventLog, then StreamDelivery over it with the abstract
EventFeed; StdioAgent; Tasks; StreamSlots with AcpConnection and FrontEnd; the proofs of EventLog,
StdioAgent, FrontEnd, AcpConnection; RespawnPacing, StdioPassthrough, DialectCache, ContentMapping and Translation with their
proofs; Approvals and Journal with theirs; LogLevel and LogFiles; the type invariant of AcpConnection; the proofs of Tasks
and of StreamDelivery with its refinement of EventFeed; the proofs of `CompleteTurn`, `Transcript`, `StreamWhole`, `TodayKept`, `RecordWhole`
and of the types of all parts.

What is left, by importance:

1. Compositions: two gateways in a chain, direction 3 of one against direction 4 of the other; Conversations over
   StdioAgent, for chunks that reach another turn.
2. Proofs: a refinement of Conversations to an abstract table of who may reach a session, so that `Isolation` can be used by name elsewhere.
