------------------------------ MODULE Translation ------------------------------
(***************************************************************************)
(* What becomes of the content of a turn.  The prompt goes from an ACP     *)
(* client through pairs of gateways, the first of which makes parts of its *)
(* blocks (direction 3) and the second blocks of the parts (direction 4);  *)
(* the reason the turn ended with comes back by the replies of the second. *)
(* The answer of the agent is translated by the task of send_task_as, one  *)
(* update at a time, and gathered by run_detached_turn into the record of  *)
(* a non-blocking send (gatewayd/src/transport_http.rs).  The relay        *)
(* between these two, which StreamDelivery models, is a channel here.      *)
(***************************************************************************)
EXTENDS ContentMapping, Naturals

CONSTANTS
  Prompts,      \* the blocks clients prompt with, some of ContentBlock
  Says,         \* the updates the agent sends, some of SessionUpdate
  MaxUpdates,   \* bound of the model: updates of the turn
  MaxHops       \* bound of the model: pairs of gateways

ASSUME TranslationAssumption ==
  /\ Prompts \subseteq ContentBlock
  /\ Says \subseteq SessionUpdate
  /\ MaxHops \in Nat

VARIABLES
  original,     \* a block of the prompt, and the reason the turn ended with
  carried,      \* what the last agent is given, and the first client told
  hops,
  ways,         \* history: the ways replies took
  agentDone,    \* the agent has answered, or died: the channel is closed
  said,         \* history: all it has sent
  updates,      \* what of that the gateway has not translated
  events,       \* the A2A events on their way to run_detached_turn
  translated,   \* the task of send_task_as has ended
  text,         \* String::push_str: the texts gathered so far
  finalState,   \* the state of the final event, or "none"
  record        \* the task run_detached_turn has returned, or NoRecord

path == <<original, carried, hops, ways>>
answerVars == <<agentDone, said, updates, events, translated, text, finalState, record>>
translationVars == <<path, answerVars>>

Carriage == [block : Prompts, reason : StopReason]
NoRecord == [state |-> "none", text |-> <<>>]

TranslationInit ==
  /\ original \in Carriage
  /\ carried = original
  /\ hops = 0
  /\ ways = {}
  /\ agentDone = FALSE /\ said = <<>> /\ updates = <<>>
  /\ events = <<>> /\ translated = FALSE
  /\ text = <<>> /\ finalState = "none" /\ record = NoRecord

-----------------------------------------------------------------------------
(* How the A2A side replies to prompt: with the task when it is over; with a *)
(* stream; or, as this gateway does to the "blocking: false" every message   *)
(* of HttpA2aAgent has, with the task in the state working.                  *)
Way == {"whole", "streamed", "working"}

(* A stream ends with the same event whatever the reason was, and prompt     *)
(* makes no stop reason of that event: the client is told none.  An ACP      *)
(* agent that streams is streamed on, one that fails fails the prompt.       *)
ReasonThrough(way, reason) ==
  CASE way = "whole" -> TaskStateToStopReason(StopReasonToTaskState(reason))
    [] way = "working" \/ reason = "error" -> TaskStateToStopReason("working")
    [] OTHER -> "unsaid"

(* prompt_to_message and message_to_prompt on the way in, a reply on the way *)
(* out.                                                                      *)
Hop ==
  /\ hops < MaxHops
  /\ \E way \in Way :
       /\ way = "whole" => carried.reason \in StopReason
       /\ carried' = [block |-> Through(carried.block),
                      reason |-> ReasonThrough(way, carried.reason)]
       /\ ways' = ways \union {way}
  /\ hops' = hops + 1
  /\ UNCHANGED <<original, answerVars>>

-----------------------------------------------------------------------------
AgentUpdates ==
  /\ ~agentDone /\ Len(said) < MaxUpdates
  /\ \E u \in Says : said' = Append(said, u) /\ updates' = Append(updates, u)
  /\ UNCHANGED <<path, agentDone, events, translated, text, finalState, record>>

AgentEnds ==
  /\ ~agentDone
  /\ agentDone' = TRUE
  /\ UNCHANGED <<path, said, updates, events, translated, text, finalState, record>>

(* The task of send_task_as.                                                 *)
TranslateUpdate ==
  /\ updates # <<>>
  /\ events' = events \o ToEvents(Head(updates))
  /\ updates' = Tail(updates)
  /\ UNCHANGED <<path, agentDone, said, translated, text, finalState, record>>

(* The channel is empty and closed.                                          *)
SendTerminal ==
  /\ agentDone /\ updates = <<>> /\ ~translated
  /\ events' = Append(events, Terminal)
  /\ translated' = TRUE
  /\ UNCHANGED <<path, agentDone, said, updates, text, finalState, record>>

(* The texts among parts, which is all a record keeps of them.               *)
TextsOf(parts) ==
  LET upTo[n \in 0 .. Len(parts)] ==
        IF n = 0 THEN <<>>
        ELSE IF parts[n].kind = "text" THEN Append(upTo[n - 1], parts[n].data)
        ELSE upTo[n - 1]
  IN  upTo[Len(parts)]

(* The loop of run_detached_turn.                                            *)
PushFront(texts) == texts \o text
PushStr(texts) == text \o texts

Gather ==
  /\ events # <<>>
  /\ text' = PushStr(TextsOf(Head(events).parts))
  /\ finalState' = IF Head(events).final THEN Head(events).state ELSE finalState
  /\ events' = Tail(events)
  /\ UNCHANGED <<path, agentDone, said, updates, translated, record>>

(* The relay is closed.                                                      *)
Store ==
  /\ translated /\ events = <<>> /\ record = NoRecord
  /\ record' = IF finalState = "none" THEN [state |-> "failed", text |-> <<>>]
                                      ELSE [state |-> finalState, text |-> text]
  /\ UNCHANGED <<path, agentDone, said, updates, events, translated, text, finalState>>

AnswerStep == AgentUpdates \/ AgentEnds \/ TranslateUpdate \/ SendTerminal \/ Gather \/ Store

TranslationNext == Hop \/ AnswerStep

TranslationSpec == TranslationInit /\ [][TranslationNext]_translationVars

-----------------------------------------------------------------------------
TranslationTypeOK ==
  /\ original \in Carriage
  /\ carried \in [block : ContentBlock, reason : StopReason \union {"unsaid", "error"}]
  /\ hops \in 0 .. MaxHops
  /\ ways \subseteq Way
  /\ agentDone \in BOOLEAN /\ translated \in BOOLEAN
  /\ said \in Seq(Says) /\ updates \in Seq(Says)
  /\ text \in Seq(Data)
  /\ finalState \in TaskState \union {"none"}
  /\ record \in [state : TaskState \union {"none"}, text : Seq(Data)]

(* However many pairs of gateways a turn goes through, no prompt loses its   *)
(* payload or its kind where its MIME type names one, and the second pair    *)
(* and all after it change nothing.  The client is told of a refusal or a    *)
(* cancellation only if the turn ended so, and then is unless a reply on the *)
(* way was a stream (convert.rs:490) or came before the turn's end; only the *)
(* latter makes an error of it.                                              *)
Carried ==
  /\ carried.block.data = original.block.data
  /\ original.block.kind = "text" => carried.block = original.block
  /\ original.block.mime \in ImageMime /\ original.block.kind = "image"
       => carried.block.kind = "image"
  /\ original.block.mime \in AudioMime /\ original.block.kind = "audio"
       => carried.block = original.block
  /\ hops > 0 => carried.block = Through(original.block)
  /\ \A r \in {"refusal", "cancelled"} :
       carried.reason = r <=> original.reason = r /\ ways \subseteq {"whole"}
  /\ carried.reason = "error" <=> "working" \in ways

(* The texts are those of the first n updates of s: from says which update   *)
(* each is of.                                                               *)
IsText(u) == u.type # "usage" /\ ContentBlockToPart(u.content).kind = "text"
AreTextsOf(texts, s, n) == \E from \in [1 .. Len(texts) -> 1 .. n] :
  /\ \A i, j \in 1 .. Len(texts) : i < j => from[i] < from[j]
  /\ \A k \in 1 .. n : IsText(s[k]) <=> \E i \in 1 .. Len(texts) : from[i] = k
  /\ \A i \in 1 .. Len(texts) : texts[i] = ContentBlockToPart(s[from[i]].content).data

(* The record of a non-blocking send has every text of the agent, each once  *)
(* and in the order it was said, and is completed, for every stream ends     *)
(* with the same final event, that of a turn whose agent died too            *)
(* (convert.rs:488).                                                         *)
RecordWhole == record # NoRecord =>
  /\ agentDone
  /\ record.state = "completed"
  /\ AreTextsOf(record.text, said, Len(said))
===============================================================================
