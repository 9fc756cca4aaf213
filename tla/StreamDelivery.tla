---------------------------- MODULE StreamDelivery ----------------------------
(***************************************************************************)
(* How the events of one streamed task reach its clients                   *)
(* (gatewayd/src/transport_http.rs): the relay task of the stream          *)
(* (spawn_stream_relay) persists each event in the EventLog, publishes it  *)
(* in the task's broadcast channel (StreamHub) and passes it on to the     *)
(* connection that sent the message; a client whose connection dropped     *)
(* continues with tasks/resubscribe (resubscribe_stream) from the last id  *)
(* it has seen: first the log, then the hub.  Other tasks fill the same    *)
(* log, and the gateway may restart, which only the log survives.          *)
(*                                                                         *)
(* The events of the task are numbered 1, 2, ... in the order in which the *)
(* agent's stream yields them.  An item is [seq, event], with seq 0 for an *)
(* event that could not be persisted and goes out without an id.           *)
(***************************************************************************)
EXTENDS EventLog

CONSTANTS
  Client,        \* connections that read the task's events
  Sender,        \* the one that sent the message
  Detached,      \* TRUE: sent with blocking = false, no live stream for it
  Streamed,      \* the task
  HubCapacity,   \* HUB_CAPACITY (1024 in the code)
  HistoryLimit   \* rows one replay reads at most (10 000 in the code)

VARIABLES
  produced,      \* events the agent's stream has yielded
  ended,         \* whether the agent's stream is closed
  relayed,       \* events the relay has taken from the channel
  relay,         \* where the relay is
  item,          \* the item in its hands
  wire,          \* client_tx: items on the way to the sender's connection
  hub,           \* the hub's entry of the task: "none", "open", "closed"
  channel,       \* the items ever sent through its broadcast channel
  conn,          \* a client's connection: "direct", "resub" or "off"
  queue,         \* State.queue of its resubscription: items still to replay
  rx,            \* State.live: items of the channel consumed, NotSubscribed
  lastSeq,       \* State.last_seq
  received       \* history: the items a client has received, oldest first

relayVars == <<produced, ended, relayed, relay, item, wire, hub, channel>>
readerVars == <<conn, queue, rx, lastSeq, received>>
vars == <<logVars, relayVars, readerVars>>

ASSUME StreamDeliveryAssumption ==
  /\ Sender \in Client
  /\ Streamed \in Task
  /\ Detached \in BOOLEAN
  /\ HubCapacity \in Nat \ {0}
  /\ HistoryLimit \in Nat \ {0}

Item == [seq : Nat, event : Nat]
NoItem == [seq |-> 0, event |-> 0]

AsRow(row) == row

AsItem(row) == [seq |-> row.seq, event |-> row.event]

NotSubscribed == MaxEvents + 1

Init ==
  /\ LogInit
  /\ produced = 0 /\ ended = FALSE
  /\ relayed = 0 /\ relay = "recv" /\ item = NoItem
  /\ wire = <<>>
  /\ hub = "none" /\ channel = <<>>
  /\ conn = [c \in Client |-> IF c = Sender /\ ~Detached THEN "direct" ELSE "off"]
  /\ queue = [c \in Client |-> <<>>]
  /\ rx = [c \in Client |-> NotSubscribed]
  /\ lastSeq = [c \in Client |-> 0]
  /\ received = [c \in Client |-> <<>>]

-----------------------------------------------------------------------------
(* The forwarder of send_task_as yields events and closes the channel.       *)
Produce ==
  /\ ~ended /\ relay # "dead"
  /\ produced < MaxEvents
  /\ produced' = produced + 1
  /\ UNCHANGED <<logVars, ended, relayed, relay, item, wire, hub, channel, readerVars>>

EndStream ==
  /\ ~ended /\ relay # "dead"
  /\ ended' = TRUE
  /\ UNCHANGED <<logVars, produced, relayed, relay, item, wire, hub, channel, readerVars>>

-----------------------------------------------------------------------------
(* spawn_stream_relay: persist, publish, pass on.                            *)

Persist ==
  /\ relay = "recv" /\ relayed < produced
  /\ relayed' = relayed + 1
  /\ DoAppend(Streamed, relayed')
  /\ item' = [seq |-> NextSeq(Streamed), event |-> relayed']
  /\ relay' = "publish"
  /\ UNCHANGED <<produced, ended, wire, hub, channel, readerVars>>

SkipEvent ==
  /\ relay = "recv" /\ relayed < produced
  /\ relayed' = relayed + 1
  /\ UNCHANGED <<logVars, produced, ended, relay, item, wire, hub, channel, readerVars>>

(* The insert failed: the event goes on without a seq.                       *)
PersistFails ==
  /\ relay = "recv" /\ relayed < produced
  /\ relayed' = relayed + 1
  /\ item' = [seq |-> 0, event |-> relayed']
  /\ relay' = "deliver"
  /\ UNCHANGED <<logVars, produced, ended, wire, hub, channel, readerVars>>

(* StreamHub::publish creates the channel on the first event.                *)
Publish ==
  /\ relay = "publish"
  /\ hub' = "open"
  /\ channel' = Append(channel, item)
  /\ relay' = "deliver"
  /\ UNCHANGED <<logVars, produced, ended, relayed, item, wire, readerVars>>

(* client_tx.send: ignored when the connection is gone.                      *)
Deliver ==
  /\ relay = "deliver"
  /\ wire' = IF conn[Sender] = "direct" THEN Append(wire, item) ELSE wire
  /\ item' = NoItem
  /\ relay' = "recv"
  /\ UNCHANGED <<logVars, produced, ended, relayed, hub, channel, readerVars>>

LeaveOpen ==
  /\ relay = "recv" /\ ended /\ relayed = produced
  /\ relay' = "done"
  /\ UNCHANGED <<logVars, produced, ended, relayed, item, wire, hub, channel, readerVars>>

(* The agent's channel is closed: StreamHub::close.                          *)
Close ==
  /\ relay = "recv" /\ ended /\ relayed = produced
  /\ hub' = IF hub = "open" THEN "closed" ELSE hub
  /\ relay' = "done"
  /\ UNCHANGED <<logVars, produced, ended, relayed, item, wire, channel, readerVars>>

-----------------------------------------------------------------------------
(* The clients.                                                              *)

(* The id: of the last SSE frame that had one: what after_seq will be.       *)
LastId(c) ==
  LET ids == {k \in DOMAIN received[c] : received[c][k].seq > 0}
  IN  IF ids = {} THEN 0 ELSE received[c][Max(ids)].seq

Receive(c, i) == received' = [received EXCEPT ![c] = Append(@, i)]

HangUp(c) ==
  /\ conn' = [conn EXCEPT ![c] = "off"]
  /\ queue' = [queue EXCEPT ![c] = <<>>]
  /\ rx' = [rx EXCEPT ![c] = NotSubscribed]
  /\ lastSeq' = [lastSeq EXCEPT ![c] = 0]
  /\ UNCHANGED received

(* stream_to_sse                                                             *)
ReadDirect(c) ==
  /\ conn[c] = "direct" /\ wire # <<>>
  /\ Receive(c, Head(wire))
  /\ wire' = Tail(wire)
  /\ UNCHANGED <<logVars, produced, ended, relayed, relay, item, hub, channel,
                 conn, queue, rx, lastSeq>>

DirectEnds(c) ==
  /\ conn[c] = "direct" /\ wire = <<>> /\ relay = "done"
  /\ HangUp(c)
  /\ UNCHANGED <<logVars, relayVars>>

Disconnect(c) ==
  /\ conn[c] # "off"
  /\ HangUp(c)
  /\ wire' = IF conn[c] = "direct" THEN <<>> ELSE wire
  /\ UNCHANGED <<logVars, produced, ended, relayed, relay, item, hub, channel>>

(* A client learns the task's id from the answer or from its first event.    *)
TaskKnown == Detached \/ \E c \in Client : received[c] # <<>>

Replay(after) ==
  LET rows == EventsAfter(Streamed, after, HistoryLimit)
  IN  [i \in DOMAIN rows |-> AsItem(rows[i])]

Resubscribe(c) ==
  /\ conn[c] = "off" /\ TaskKnown
  /\ conn' = [conn EXCEPT ![c] = "resub"]
  /\ queue' = [queue EXCEPT ![c] = Replay(LastId(c))]
  /\ lastSeq' = [lastSeq EXCEPT ![c] = IF queue'[c] = <<>> THEN LastId(c) ELSE Last(queue'[c]).seq]
  /\ UNCHANGED <<logVars, relayVars, rx, received>>

(* The phases of the unfold: history while there is any ...                  *)
ServeHistory(c) ==
  /\ conn[c] = "resub" /\ queue[c] # <<>>
  /\ Receive(c, Head(queue[c]))
  /\ lastSeq' = [lastSeq EXCEPT ![c] = Head(queue[c]).seq]
  /\ queue' = [queue EXCEPT ![c] = Tail(@)]
  /\ UNCHANGED <<logVars, relayVars, conn, rx>>

(* ... then a subscription, from the next item on ...                        *)
Subscribe(c) ==
  /\ conn[c] = "resub" /\ queue[c] = <<>> /\ rx[c] = NotSubscribed
  /\ hub = "open"
  /\ rx' = [rx EXCEPT ![c] = Len(channel)]
  /\ UNCHANGED <<logVars, relayVars, conn, queue, lastSeq, received>>

(* ... or the end of the response when the hub has no channel ...            *)
NoLiveTail(c) ==
  /\ conn[c] = "resub" /\ queue[c] = <<>> /\ rx[c] = NotSubscribed
  /\ hub # "open"
  /\ HangUp(c)
  /\ UNCHANGED <<logVars, relayVars>>

(* ... and live items, as long as the channel still buffers the next one.    *)
Overflowed(c) == Len(channel) - rx[c] > HubCapacity

Live(c) == conn[c] = "resub" /\ rx[c] # NotSubscribed

AlwaysFresh(c, i) == TRUE

Fresh(c, i) == i.seq > lastSeq[c]

ServeLive(c) ==
  /\ Live(c) /\ rx[c] < Len(channel) /\ ~Overflowed(c)
  /\ LET next == channel[rx[c] + 1]
     IN  IF Fresh(c, next)
           THEN Receive(c, next) /\ lastSeq' = [lastSeq EXCEPT ![c] = next.seq]
           ELSE UNCHANGED <<received, lastSeq>>
  /\ rx' = [rx EXCEPT ![c] = @ + 1]
  /\ UNCHANGED <<logVars, relayVars, conn, queue>>

(* Lagged: catch up from the log, then subscribe anew.                       *)
CatchUp(c) ==
  /\ Live(c) /\ Overflowed(c)
  /\ queue' = [queue EXCEPT ![c] = Replay(lastSeq[c])]
  /\ rx' = [rx EXCEPT ![c] = NotSubscribed]
  /\ UNCHANGED <<logVars, relayVars, conn, lastSeq, received>>

CatchUpFails(c) ==
  /\ Live(c) /\ Overflowed(c)
  /\ HangUp(c)
  /\ UNCHANGED <<logVars, relayVars>>

TailEnds(c) ==
  /\ Live(c) /\ rx[c] = Len(channel) /\ hub = "closed"
  /\ HangUp(c)
  /\ UNCHANGED <<logVars, relayVars>>

-----------------------------------------------------------------------------
OtherTask ==
  /\ \E t \in Task \ {Streamed} :
       /\ Len(issued[t]) < MaxEvents
       /\ DoAppend(t, Len(issued[t]) + 1)
  /\ UNCHANGED <<relayVars, readerVars>>

(* The gateway restarts: the stream, its hub and all connections are gone.   *)
Restart ==
  /\ relay # "dead"
  /\ relay' = "dead"
  /\ Reopen
  /\ item' = NoItem /\ wire' = <<>>
  /\ hub' = "none" /\ channel' = <<>>
  /\ conn' = [c \in Client |-> "off"]
  /\ queue' = [c \in Client |-> <<>>]
  /\ rx' = [c \in Client |-> NotSubscribed]
  /\ lastSeq' = [c \in Client |-> 0]
  /\ UNCHANGED <<produced, ended, relayed, received>>

Relay == Persist \/ PersistFails \/ Publish \/ Deliver \/ Close

(* What the gateway does for a resubscribed client that keeps reading.       *)
Serve(c) ==
  \/ ServeHistory(c) \/ Subscribe(c) \/ NoLiveTail(c)
  \/ ServeLive(c) \/ CatchUp(c) \/ CatchUpFails(c) \/ TailEnds(c)

Next ==
  \/ Produce \/ EndStream \/ Relay
  \/ \E c \in Client :
       ReadDirect(c) \/ DirectEnds(c) \/ Disconnect(c) \/ Resubscribe(c) \/ Serve(c)
  \/ OtherTask \/ Restart

Spec == Init /\ [][Next]_vars

(* The relay and a response that is being read go on; nothing forces the     *)
(* agent to answer or a client to come back.                                 *)
FairSpec == Spec /\ WF_vars(Relay) /\ \A c \in Client : WF_vars(Serve(c))

-----------------------------------------------------------------------------
(* Properties                                                                *)

(* Type invariant of the relay, the hub and the resubscriptions.             *)
TypeOK ==
  /\ LogTypeOK
  /\ produced \in 0 .. MaxEvents /\ relayed \in 0 .. produced /\ ended \in BOOLEAN
  /\ relay \in {"recv", "publish", "deliver", "done", "dead"}
  /\ item \in Item
  /\ wire \in Seq(Item)
  /\ hub \in {"none", "open", "closed"} /\ channel \in Seq(Item)
  /\ conn \in [Client -> {"direct", "resub", "off"}]
  /\ queue \in [Client -> Seq(Item)]
  /\ rx \in [Client -> 0 .. NotSubscribed]
  /\ lastSeq \in [Client -> Nat]
  /\ received \in [Client -> Seq(Item)]

Events(items) == [i \in DOMAIN items |-> items[i].event]

(* Every client gets the events in order and none twice, over any number of  *)
(* dropped and resumed connections, although history and live events overlap *)
(* and a cleaned-up log may number later events from 1 again: the delivery   *)
(* implements EventFeed.                                                     *)
Feed == INSTANCE EventFeed WITH feed <- relayed, got <- [c \in Client |-> Events(received[c])]
InOrderOnce == Feed!FeedSpec

(* A sender that stays connected misses nothing, whatever the log and the    *)
(* hub do (spawn_stream_relay: a failure to persist "doesn't break the       *)
(* stream").                                                                 *)
DirectComplete ==
  conn[Sender] = "direct" =>
    LET seen == received[Sender] \o wire
        upTo == IF relay \in {"publish", "deliver"} THEN relayed - 1 ELSE relayed
    IN  Events(seen) = [i \in 1 .. upTo |-> i]

(* Once the stream is over every resubscription comes to its end, also one   *)
(* that subscribes while the relay closes the channel (StreamHub::close).    *)
ResubscriptionEnds ==
  \A c \in Client :
    conn[c] = "resub" /\ relay \in {"done", "dead"} ~> conn[c] # "resub"

(* transport_http.rs:718: after a drop "resubscribe will catch up": no       *)
(* persisted event is left out between two a client received.                *)
NoHoles ==
  \A c \in Client :
    LET ids == SelectSeq(received[c], LAMBDA i : i.seq > 0)
    IN  \A i \in 1 .. Len(ids) - 1 : ids[i + 1].seq = ids[i].seq + 1

=============================================================================
