----------------------------- MODULE DialectCache -----------------------------
(***************************************************************************)
(* Direction 2 (gatewayd/src/transport_a2a_passthrough.rs with             *)
(* dialect_probe.rs): requests for one HTTP agent are proxied as they are. *)
(* A request that finds no dialect cached probes the agent first, with the *)
(* SDK method and then with the Spec method; a JSON answer "method not     *)
(* found" to a proxied request takes the cached dialect out.  Probes and   *)
(* proxied requests of several clients overlap.  The agent, which may be   *)
(* replaced at any time, answers each call as it likes.                    *)
(***************************************************************************)
CONSTANT Requests    \* requests of clients

Dialect == {"Sdk", "Spec"}

VARIABLES
  cache,       \* DialectCache for this agent: a dialect or "none"
  proxyPc,     \* where proxy_handler of a request is
  answer,      \* the JSON that came back from the call under way, or "none"
  told,        \* history: what the agent has told each probe, by method
  fresh,       \* history: the probes since the cache was last invalidated,
               \* those under way then included
  forwarded    \* history: requests sent on to the agent

proxyVars == <<cache, proxyPc, answer, told, fresh, forwarded>>

Probing == {"probeSdk", "probeSpec"}

(* response_indicates_method_not_found tells these two apart, whatever the   *)
(* status of the response: "other" is a result, an error of another kind, or *)
(* no JSON-RPC at all.                                                       *)
Json == {"notFound", "other"}

ProxyTo(r, where) == proxyPc' = [proxyPc EXCEPT ![r] = where]

ProxyInit ==
  /\ cache = "none"
  /\ proxyPc = [r \in Requests |-> "start"]
  /\ answer = [r \in Requests |-> "none"]
  /\ told = [r \in Requests |-> [d \in Dialect |-> "none"]]
  /\ fresh = {}
  /\ forwarded = {}

-----------------------------------------------------------------------------
(* 401, 404, 400: no valid token, an unknown agent, a stdio agent.           *)
RefuseProxy(r) ==
  /\ proxyPc[r] = "start"
  /\ ProxyTo(r, "over")
  /\ UNCHANGED <<cache, answer, told, fresh, forwarded>>

AdmitCached(r) ==
  /\ proxyPc[r] = "start" /\ cache # "none"
  /\ ProxyTo(r, "proxy")
  /\ UNCHANGED <<cache, answer, told, fresh, forwarded>>

AdmitToProbe(r) ==
  /\ proxyPc[r] = "start" /\ cache = "none"
  /\ ProxyTo(r, "probeSdk")
  /\ fresh' = fresh \union {r}
  /\ UNCHANGED <<cache, answer, told, forwarded>>

(* The agent answers the call of r under way.                                *)
AgentAnswersCall(r) ==
  /\ answer[r] = "none"
  /\ proxyPc[r] \in Probing \union {"sent"}
  /\ \E json \in Json :
       /\ answer' = [answer EXCEPT ![r] = json]
       /\ told' = CASE proxyPc[r] = "probeSdk" -> [told EXCEPT ![r]["Sdk"] = json]
                    [] proxyPc[r] = "probeSpec" -> [told EXCEPT ![r]["Spec"] = json]
                    [] OTHER -> told
  /\ UNCHANGED <<cache, proxyPc, fresh, forwarded>>

Took(r) == answer' = [answer EXCEPT ![r] = "none"]

(* probe_dialect: the first of the two methods whose answer is not "method   *)
(* not found" is taken for understood; neither is Unrecognized, after which  *)
(* the request is proxied all the same.                                      *)
Candidate(r) == IF proxyPc[r] = "probeSdk" THEN "Sdk" ELSE "Spec"

Understood(r) ==
  /\ proxyPc[r] \in Probing
  /\ answer[r] = "other"
  /\ cache' = Candidate(r)
  /\ ProxyTo(r, "proxy")
  /\ Took(r)
  /\ UNCHANGED <<told, fresh, forwarded>>

NotUnderstood(r) ==
  /\ proxyPc[r] \in Probing
  /\ answer[r] = "notFound"
  /\ ProxyTo(r, IF proxyPc[r] = "probeSdk" THEN "probeSpec" ELSE "proxy")
  /\ Took(r)
  /\ UNCHANGED <<cache, told, fresh, forwarded>>

(* The probe fails: no connection, no JSON, or 10 s without an answer.  It   *)
(* is not counted against the request.                                       *)
EndsRequest(r) == ProxyTo(r, "over")
ProxiesAnyway(r) == ProxyTo(r, "proxy")
ProbeFails(r) ==
  /\ proxyPc[r] \in Probing
  /\ ProxiesAnyway(r)
  /\ Took(r)
  /\ UNCHANGED <<cache, told, fresh, forwarded>>

(* 413: the body is too large, or its client stopped sending it.             *)
BodyFails(r) ==
  /\ proxyPc[r] = "proxy"
  /\ ProxyTo(r, "noBody")
  /\ UNCHANGED <<cache, answer, told, fresh, forwarded>>

SendOn(r) ==
  /\ proxyPc[r] = "proxy"
  /\ ProxyTo(r, "sent")
  /\ forwarded' = forwarded \union {r}
  /\ UNCHANGED <<cache, answer, told, fresh>>

(* DialectCache::remove.                                                     *)
KeepsDialect == UNCHANGED cache
Invalidate == cache' = "none"

(* The answer is passed on, and was read because its content type is JSON.   *)
PassOnJson(r) ==
  /\ proxyPc[r] = "sent"
  /\ \/ answer[r] = "other" /\ UNCHANGED <<cache, fresh>>
     \/ /\ answer[r] = "notFound"
        /\ Invalidate
        /\ fresh' = {q \in Requests : proxyPc[q] \in Probing}
  /\ ProxyTo(r, "over")
  /\ Took(r)
  /\ UNCHANGED <<told, forwarded>>

(* A stream goes through unread, whatever it says.                           *)
PassOnStream(r) ==
  /\ proxyPc[r] = "sent" /\ answer[r] # "none"
  /\ ProxyTo(r, "over")
  /\ Took(r)
  /\ UNCHANGED <<cache, told, fresh, forwarded>>

(* 502: no connection, or no answer in time.                                 *)
UpstreamFails(r) ==
  /\ proxyPc[r] = "sent"
  /\ ProxyTo(r, "over")
  /\ Took(r)
  /\ UNCHANGED <<cache, told, fresh, forwarded>>

(* The client hangs up: the handler is dropped where it awaits.              *)
ClientLeaves(r) ==
  /\ proxyPc[r] \in Probing \union {"proxy", "sent"}
  /\ ProxyTo(r, "left")
  /\ Took(r)
  /\ UNCHANGED <<cache, told, fresh, forwarded>>

ProbeStep(r) == Understood(r) \/ NotUnderstood(r) \/ ProbeFails(r)
ProxyStep(r) ==
  ProbeStep(r) \/ SendOn(r) \/ PassOnJson(r) \/ PassOnStream(r) \/ UpstreamFails(r)

ProxyNext == \E r \in Requests :
  \/ RefuseProxy(r) \/ AdmitCached(r) \/ AdmitToProbe(r) \/ AgentAnswersCall(r)
  \/ ProxyStep(r) \/ BodyFails(r) \/ ClientLeaves(r)

ProxySpec == ProxyInit /\ [][ProxyNext]_proxyVars

-----------------------------------------------------------------------------
ProxyTypeOK ==
  /\ cache \in Dialect \union {"none"}
  /\ proxyPc \in [Requests -> Probing \union {"start", "proxy", "sent",
                                              "noBody", "over", "left"}]
  /\ answer \in [Requests -> Json \union {"none"}]
  /\ told \in [Requests -> [Dialect -> Json \union {"none"}]]
  /\ fresh \subseteq Requests
  /\ forwarded \subseteq Requests

(* Probes of several requests overlap with each other and with               *)
(* invalidations, fail halfway or lose their client.  What is cached is      *)
(* still what one probe found, and found in full: JSON other than "method    *)
(* not found" for the dialect's method and, for the Spec one, "method not    *)
(* found" for the SDK one; and this probe was not over when a proxied        *)
(* request last took a dialect out.                                          *)
CachedWasProbed == cache # "none" => \E r \in fresh :
  /\ told[r][cache] = "other"
  /\ cache = "Spec" => told[r]["Sdk"] = "notFound"

(* "proxying request anyway" (transport_a2a_passthrough.rs:101): a request    *)
(* that was admitted is sent to the agent whatever becomes of its probe,     *)
(* unless its own client fails to send the body or leaves.                   *)
Forwarded == \A r \in Requests :
  (proxyPc[r] \in Probing \union {"proxy"})
    ~> (r \in forwarded \/ proxyPc[r] \in {"noBody", "left"})
===============================================================================
