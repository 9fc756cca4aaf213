------------------------------- MODULE MC_Paths -------------------------------
(* An instance of the paths past and under the adapters: the two             *)
(* passthroughs, the pace at which a dead agent is replaced, and what        *)
(* becomes of the content of a turn.  They share no state; a behaviour is    *)
(* one of the part it begins with.                                           *)
EXTENDS StdioPassthrough, DialectCache, RespawnPacing, Translation, TLC

CONSTANTS r1, r2, h1, h2, h3, nobody

Chunk(b) == [type |-> "chunk", content |-> b]
Image == [kind |-> "image", data |-> "bytes", mime |-> "image/png", uri |-> "file:"]
Clip == [kind |-> "audio", data |-> "bytes", mime |-> "audio/wav", uri |-> None]

(* Of these a stdio agent's turn passes on only the chunks; the conversion   *)
(* is made for all.                                                          *)
SomeSays == {Chunk(TextOf("one")), Chunk(TextOf("two")), Chunk(Image),
             [type |-> "tool_call", content |-> TextOf("tool")],
             [type |-> "usage", content |-> TextOf("")]}

VARIABLE part

vars == <<part, copyVars, proxyVars, pacingVars, translationVars>>

Of(p) ==
  /\ part = p
  /\ part' = p
  /\ p # "stdio" => UNCHANGED copyVars
  /\ p # "proxy" => UNCHANGED proxyVars
  /\ p # "respawn" => UNCHANGED pacingVars
  /\ p # "prompt" => UNCHANGED path
  /\ p # "answer" => UNCHANGED answerVars

(* A part that is not looked at is in one initial state.                     *)
Init ==
  /\ CopyInit /\ ProxyInit /\ PacingInit /\ TranslationInit
  /\ part \in {"stdio", "proxy", "respawn", "prompt", "answer"}
  /\ part # "prompt" => original = [block |-> Image, reason |-> "end_turn"]

Next ==
  \/ Of("stdio") /\ CopyNext
  \/ Of("proxy") /\ ProxyNext
  \/ Of("respawn") /\ PacingNext
  \/ Of("prompt") /\ Hop
  \/ Of("answer") /\ AnswerStep

(* Loops that are ready to go on do, those at both ends of a copied          *)
(* connection read, and calls end or time out.                               *)
Fairness ==
  /\ WF_vars(Of("stdio") /\ (ReadSocket \/ WriteStdin \/ ClientGone \/ WriteToDead))
  /\ WF_vars(Of("stdio") /\ (ReadStdout \/ WriteSocket \/ AgentGone))
  /\ WF_vars(Of("stdio") /\ AgentReads)
  /\ WF_vars(Of("stdio") /\ ClientReads)
  /\ \A r \in Requests : WF_vars(Of("proxy") /\ ProxyStep(r))

Spec == Init /\ [][Next]_vars /\ Fairness

(* The type invariants of the parts.                                         *)
TypeOK == CopyTypeOK /\ ProxyTypeOK /\ PacingTypeOK /\ TranslationTypeOK
===============================================================================
