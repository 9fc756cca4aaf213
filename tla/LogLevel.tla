-------------------------------- MODULE LogLevel --------------------------------
(***************************************************************************)
(* POST /debug/level (gatewayd/src/main.rs): changes the filter of the log *)
(* at run time.  debug and trace are taken back by a timer, which is       *)
(* started at the end of the handler.  Filter and reported level are two   *)
(* cells written one after the other, with an await in between, at which   *)
(* the server drops the handler of a client that hangs up.                 *)
(***************************************************************************)
EXTENDS Naturals

CONSTANTS
  Posts,       \* requests with a valid token
  TtlMinutes,  \* debug_ttl_minutes; 0 = no rollback
  StartLevel   \* logging.level

Levels == {"error", "warn", "info", "debug", "trace"}

ASSUME LogLevelAssumption ==
  /\ TtlMinutes \in Nat
  /\ StartLevel \in Levels

VARIABLES
  installed,   \* whether the subscriber is (try_init): else there is no filter
  filter,      \* the EnvFilter behind the reload handle
  current,     \* DebugLevelState.current, what GET /debug/level answers
  postPc,      \* where the handler of a request is
  posted,      \* the level in its body
  timer,       \* its rollback timer
  raisedBy     \* history: the request that set the filter last, or "nobody"

logLevelVars == <<installed, filter, current, postPc, posted, timer, raisedBy>>

(* The levels that are taken back.                                           *)
RaisedDebugOnly(level) == level = "debug"
Raised(level) == level \in {"debug", "trace"}

LogLevelInit ==
  /\ installed \in BOOLEAN
  /\ filter = StartLevel
  /\ current = "info"
  /\ postPc = [p \in Posts |-> "ready"]
  /\ posted \in [Posts -> Levels \union {"invalid"}]
  /\ timer = [p \in Posts |-> "none"]
  /\ raisedBy = "nobody"

(* 400: not one of VALID_LEVELS.                                             *)
RefuseLevel(p) ==
  /\ postPc[p] = "ready"
  /\ posted[p] \notin Levels
  /\ postPc' = [postPc EXCEPT ![p] = "over"]
  /\ UNCHANGED <<installed, filter, current, posted, timer, raisedBy>>

(* handle.modify.                                                            *)
Modify(p) ==
  /\ installed
  /\ postPc[p] = "ready"
  /\ posted[p] \in Levels
  /\ filter' = posted[p]
  /\ raisedBy' = p
  /\ postPc' = [postPc EXCEPT ![p] = "publish"]
  /\ UNCHANGED <<installed, current, posted, timer>>

(* 500: there is no subscriber behind the handle.                            *)
ModifyFails(p) ==
  /\ ~installed
  /\ postPc[p] = "ready"
  /\ posted[p] \in Levels
  /\ postPc' = [postPc EXCEPT ![p] = "over"]
  /\ UNCHANGED <<installed, filter, current, posted, timer, raisedBy>>

(* current.write().await, and all that follows without another await.        *)
Publish(p) ==
  /\ postPc[p] = "publish"
  /\ current' = posted[p]
  /\ postPc' = [postPc EXCEPT ![p] = "over"]
  /\ timer' = IF Raised(posted[p]) /\ TtlMinutes > 0 THEN [timer EXCEPT ![p] = "running"]
                                                     ELSE timer
  /\ UNCHANGED <<installed, filter, posted, raisedBy>>

(* The client hangs up while the handler waits for the lock.                 *)
HangUpPost(p) ==
  /\ postPc[p] = "publish"
  /\ postPc' = [postPc EXCEPT ![p] = "dropped"]
  /\ UNCHANGED <<installed, filter, current, posted, timer, raisedBy>>

(* The timer: sleep, modify, and the write of current.                       *)
RollBack(p) ==
  /\ timer[p] = "running"
  /\ filter' = "info"
  /\ raisedBy' = "nobody"
  /\ timer' = [timer EXCEPT ![p] = "publish"]
  /\ UNCHANGED <<installed, current, postPc, posted>>

RollBackPublish(p) ==
  /\ timer[p] = "publish"
  /\ current' = "info"
  /\ timer' = [timer EXCEPT ![p] = "over"]
  /\ UNCHANGED <<installed, filter, postPc, posted, raisedBy>>

Handle(p) == Publish(p) \/ RollBack(p) \/ RollBackPublish(p)

LogLevelNext == \E p \in Posts :
  RefuseLevel(p) \/ Modify(p) \/ ModifyFails(p) \/ HangUpPost(p) \/ Handle(p)

LogLevelSpec == LogLevelInit /\ [][LogLevelNext]_logLevelVars

-----------------------------------------------------------------------------
LogLevelTypeOK ==
  /\ installed \in BOOLEAN
  /\ filter \in Levels /\ current \in Levels
  /\ postPc \in [Posts -> {"ready", "publish", "over", "dropped"}]
  /\ posted \in [Posts -> Levels \union {"invalid"}]
  /\ timer \in [Posts -> {"none", "running", "publish", "over"}]
  /\ raisedBy \in Posts \union {"nobody"}

(* "POST /debug/level with level debug or trace keeps it for at most this    *)
(* many minutes" (main.rs:85): whatever other requests and older timers do   *)
(* meanwhile, a raised filter is taken back or replaced, unless the one who  *)
(* raised it hung up before its timer was started.                           *)
TakenBack == \A p \in Posts :
  (raisedBy = p /\ filter \in {"debug", "trace"} /\ TtlMinutes > 0)
    ~> (raisedBy # p \/ postPc[p] = "dropped")
===============================================================================
