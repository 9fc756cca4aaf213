---------------------------- MODULE ContentMapping ----------------------------
(***************************************************************************)
(* The pure conversions between ACP and A2A (core/src/convert.rs): content *)
(* blocks and parts, stop reasons and task states, updates and events.     *)
(*                                                                         *)
(* A block or a part is a record of the fields the conversions look at; a  *)
(* field it has not is None.  The wording of a text made of a link, a tool *)
(* call or a plan is left out: the text is what it is made of.             *)
(***************************************************************************)
EXTENDS Sequences

CONSTANTS
  Data,         \* texts, and bytes of files
  Empty,        \* "" among them
  ImageMime,    \* MIME types that begin with image/
  AudioMime,    \* ... with audio/
  OtherMime,    \* all others
  OctetStream,  \* application/octet-stream, one of them
  Uri,
  NoUri,        \* ""
  None          \* a field that is absent

Mime == ImageMime \union AudioMime \union OtherMime

ASSUME ContentAssumption ==
  /\ Empty \in Data
  /\ OctetStream \in OtherMime
  /\ NoUri \in Uri
  /\ None \notin Mime \union Uri \union Data
  /\ ImageMime \intersect AudioMime = {}
  /\ OtherMime \intersect (ImageMime \union AudioMime) = {}

(* acp::ContentBlock and acp::EmbeddedResource.                              *)
Block(kinds, mimes, uris) == [kind : kinds, data : Data, mime : mimes, uri : uris]
ContentBlock ==
  Block({"text"}, {None}, {None})
    \union Block({"image"}, Mime, Uri \union {None})
    \union Block({"audio"}, Mime, {None})
    \union Block({"resourceText", "resourceBlob"}, Mime \union {None}, Uri)
    \union Block({"resourceLink"}, Mime \union {None}, Uri)

(* a2a::Part and a2a::FilePart.                                              *)
Part ==
  Block({"text", "data"}, {None}, {None})
    \union [kind : {"file"}, data : Data \union {None}, mime : Mime \union {None},
            uri : Uri \union {None}]

TextOf(d) == [kind |-> "text", data |-> d, mime |-> None, uri |-> None]
FileOf(d, m) == [kind |-> "file", data |-> d, mime |-> m, uri |-> None]

-----------------------------------------------------------------------------
ContentBlockToPart(b) ==
  IF b.kind \in {"image", "audio", "resourceBlob"}
  THEN FileOf(b.data, b.mime)
  ELSE TextOf(b.data)

FileBytes(p) == IF p.data = None THEN Empty ELSE p.data
FileMime(p) == IF p.mime = None THEN OctetStream ELSE p.mime

(* The kind of a file goes by its MIME type.                                 *)
FileToImage(p) ==
  [kind |-> "image", data |-> FileBytes(p), mime |-> FileMime(p), uri |-> p.uri]
FileToBlock(p) ==
  CASE FileMime(p) \in ImageMime ->
         [kind |-> "image", data |-> FileBytes(p), mime |-> FileMime(p), uri |-> p.uri]
    [] FileMime(p) \in AudioMime ->
         [kind |-> "audio", data |-> FileBytes(p), mime |-> FileMime(p), uri |-> None]
    [] OTHER ->
         [kind |-> "resourceBlob", data |-> FileBytes(p), mime |-> FileMime(p),
          uri |-> IF p.uri = None THEN NoUri ELSE p.uri]

PartToContentBlock(p) == IF p.kind = "file" THEN FileToBlock(p) ELSE TextOf(p.data)

(* What a block is after one gateway has turned it into a part and another   *)
(* one has turned the part back.                                             *)
Through(b) == PartToContentBlock(ContentBlockToPart(b))

-----------------------------------------------------------------------------
StopReason == {"end_turn", "max_tokens", "max_turn_requests", "refusal", "cancelled"}
TaskState == {"submitted", "working", "completed", "canceled", "failed", "rejected",
              "input_required", "auth_required", "unspecified"}

StopReasonToTaskState(r) ==
  CASE r \in {"end_turn", "max_tokens", "max_turn_requests"} -> "completed"
    [] r = "refusal" -> "failed"
    [] r = "cancelled" -> "canceled"

(* "error": the prompt fails, for the task is not over.                      *)
TaskStateToStopReason(s) ==
  CASE s \in {"completed", "input_required", "auth_required"} -> "end_turn"
    [] s = "canceled" -> "cancelled"
    [] s \in {"failed", "rejected"} -> "refusal"
    [] s \in {"submitted", "working", "unspecified"} -> "error"

-----------------------------------------------------------------------------
(* acp::SessionUpdate: a chunk has content, the others a text they come to.  *)
SessionUpdate ==
  [type : {"chunk"}, content : ContentBlock]
    \union [type : {"tool_call", "tool_call_update", "plan", "usage"},
            content : {TextOf(d) : d \in Data}]

(* session_update_to_a2a_event: a status update that is not final, or        *)
(* nothing for a usage update.                                               *)
ToEvents(u) ==
  IF u.type = "usage" THEN <<>>
  ELSE <<[final |-> FALSE, parts |-> <<ContentBlockToPart(u.content)>>, state |-> "working"]>>

(* The event send_task_as ends a stream with, whatever the agent's reason.   *)
Terminal == [final |-> TRUE, parts |-> <<>>, state |-> "completed"]
===============================================================================
