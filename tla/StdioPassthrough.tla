--------------------------- MODULE StdioPassthrough ---------------------------
(***************************************************************************)
(* Direction 1 (handle_stdio_passthrough of gatewayd/src/transport_tcp.rs):*)
(* an ACP client on a TCP connection talks to an agent process of its own, *)
(* line by line, through two copy loops that one select! polls.  When one  *)
(* loop ends the other is dropped where it is, and the agent is killed.    *)
(*                                                                         *)
(* The n-th line a side sends is the number n, so what reached a side is   *)
(* right when it counts 1, 2, 3 ...                                        *)
(***************************************************************************)
EXTENDS Naturals, Sequences

CONSTANTS
  MaxLines,    \* bound of the model: lines a side sends
  Buffer       \* lines a pipe or a socket buffer holds

ASSUME StdioPassthroughAssumption ==
  /\ MaxLines \in Nat
  /\ Buffer \in Nat \ {0}

VARIABLES
  clientSent,  \* how many lines the client has sent
  socketIn,    \* what of them the gateway has not read
  clientOpen,  \* whether the client may send more
  inHeld,      \* socket_to_child: the line it is writing, if any
  stdin,       \* the pipe to the agent
  agentGot,    \* the lines the agent has read
  agentAlive,
  agentSaid,   \* how many lines the agent has written
  stdout,      \* the pipe from the agent
  outHeld,     \* child_to_socket: the line it is writing, if any
  socketOut,   \* what the client has not read yet
  clientGot,   \* the lines the client has read
  link         \* "open", or why the select! ended

copyVars == <<clientSent, socketIn, clientOpen, inHeld, stdin, agentGot, agentAlive,
              agentSaid, stdout, outHeld, socketOut, clientGot, link>>

clientSide == <<clientSent, clientOpen, clientGot>>
agentSide == <<agentGot, agentAlive, agentSaid>>
inLoop == <<socketIn, inHeld, stdin>>
outLoop == <<stdout, outHeld, socketOut>>

Room(pipe) == Len(pipe) < Buffer

CopyInit ==
  /\ clientSent = 0 /\ socketIn = <<>> /\ clientOpen = TRUE
  /\ inHeld = <<>> /\ stdin = <<>> /\ agentGot = <<>>
  /\ agentAlive = TRUE /\ agentSaid = 0 /\ stdout = <<>>
  /\ outHeld = <<>> /\ socketOut = <<>> /\ clientGot = <<>>
  /\ link = "open"

-----------------------------------------------------------------------------
(* The two sides                                                             *)

ClientSends ==
  /\ clientOpen /\ clientSent < MaxLines /\ Room(socketIn)
  /\ clientSent' = clientSent + 1
  /\ socketIn' = Append(socketIn, clientSent + 1)
  /\ UNCHANGED <<clientOpen, inHeld, stdin, agentSide, outLoop, clientGot, link>>

(* Its last line is sent: it closes its writing side.                        *)
ClientCloses ==
  /\ clientOpen
  /\ clientOpen' = FALSE
  /\ UNCHANGED <<clientSent, clientGot, inLoop, agentSide, outLoop, link>>

ClientReads ==
  /\ socketOut # <<>>
  /\ clientGot' = Append(clientGot, Head(socketOut))
  /\ socketOut' = Tail(socketOut)
  /\ UNCHANGED <<clientSent, clientOpen, inLoop, agentSide, stdout, outHeld, link>>

AgentReads ==
  /\ agentAlive /\ stdin # <<>>
  /\ agentGot' = Append(agentGot, Head(stdin))
  /\ stdin' = Tail(stdin)
  /\ UNCHANGED <<clientSide, socketIn, inHeld, agentAlive, agentSaid, outLoop, link>>

AgentSpeaks ==
  /\ agentAlive /\ agentSaid < MaxLines /\ Room(stdout)
  /\ agentSaid' = agentSaid + 1
  /\ stdout' = Append(stdout, agentSaid + 1)
  /\ UNCHANGED <<clientSide, inLoop, agentGot, agentAlive, outHeld, socketOut, link>>

AgentExits ==
  /\ agentAlive
  /\ agentAlive' = FALSE
  /\ UNCHANGED <<clientSide, inLoop, agentGot, agentSaid, outLoop, link>>

-----------------------------------------------------------------------------
(* socket_to_child                                                           *)

(* (Without line.clear() the line still has what was written before.)        *)
ReadSocketKept ==
  /\ link = "open" /\ inHeld = <<>> /\ socketIn # <<>>
  /\ inHeld' = stdin \o <<Head(socketIn)>>
  /\ socketIn' = Tail(socketIn)
  /\ UNCHANGED <<clientSide, stdin, agentSide, outLoop, link>>
ReadSocket ==
  /\ link = "open" /\ inHeld = <<>> /\ socketIn # <<>>
  /\ inHeld' = <<Head(socketIn)>>
  /\ socketIn' = Tail(socketIn)
  /\ UNCHANGED <<clientSide, stdin, agentSide, outLoop, link>>

WriteStdin ==
  /\ link = "open" /\ inHeld # <<>> /\ agentAlive /\ Room(stdin)
  /\ stdin' = stdin \o inHeld
  /\ inHeld' = <<>>
  /\ UNCHANGED <<clientSide, socketIn, agentSide, outLoop, link>>

(* child_to_socket                                                           *)
ReadStdout ==
  /\ link = "open" /\ outHeld = <<>> /\ stdout # <<>>
  /\ outHeld' = <<Head(stdout)>>
  /\ stdout' = Tail(stdout)
  /\ UNCHANGED <<clientSide, inLoop, agentSide, socketOut, link>>

WriteSocket ==
  /\ link = "open" /\ outHeld # <<>> /\ Room(socketOut)
  /\ socketOut' = socketOut \o outHeld
  /\ outHeld' = <<>>
  /\ UNCHANGED <<clientSide, inLoop, agentSide, stdout, link>>

-----------------------------------------------------------------------------
(* The select!: one loop is over, the other is dropped with the line it      *)
(* holds, the agent is killed and the socket closed.                         *)
EndsOrphan(why) ==
  /\ link = "open"
  /\ link' = why
  /\ UNCHANGED <<clientSide, inLoop, agentSide, outLoop>>
Ends(why) ==
  /\ link = "open"
  /\ link' = why
  /\ agentAlive' = FALSE
  /\ UNCHANGED <<clientSide, inLoop, agentGot, agentSaid, outLoop>>

(* n == 0 from the socket.                                                   *)
ClientGone == inHeld = <<>> /\ socketIn = <<>> /\ ~clientOpen /\ Ends("client")

(* n == 0 from the agent: its pipe is read to the end.                       *)
AgentGoneUnread == ~agentAlive /\ Ends("agent")
AgentGone == outHeld = <<>> /\ stdout = <<>> /\ ~agentAlive /\ Ends("agent")

(* EPIPE: the agent has exited and socket_to_child writes to it.             *)
WriteToDead == inHeld # <<>> /\ ~agentAlive /\ Ends("error")

(* A read fails, of a socket that is reset or a line above the limit, or the *)
(* write to the socket does.                                                 *)
LoopFails ==
  /\ inHeld = <<>> \/ outHeld # <<>> \/ stdout # <<>>
  /\ Ends("error")

Copy == ReadSocket \/ WriteStdin \/ ReadStdout \/ WriteSocket \/ ClientGone \/ AgentGone
  \/ WriteToDead

CopyNext ==
  \/ ClientSends \/ ClientCloses \/ ClientReads \/ AgentReads \/ AgentSpeaks \/ AgentExits
  \/ Copy \/ LoopFails

CopySpec == CopyInit /\ [][CopyNext]_copyVars

-----------------------------------------------------------------------------
Counts(lines) == \A i \in 1 .. Len(lines) : lines[i] = i

CopyTypeOK ==
  /\ clientSent \in Nat /\ agentSaid \in Nat
  /\ {socketIn, inHeld, stdin, agentGot, stdout, outHeld, socketOut, clientGot}
       \subseteq Seq(Nat)
  /\ clientOpen \in BOOLEAN /\ agentAlive \in BOOLEAN
  /\ link \in {"open", "client", "agent", "error"}
  /\ Len(inHeld) <= 1 /\ Len(outHeld) <= 1

(* Wherever the connection is cut, what either side has read is what the     *)
(* other had sent, in order and without a gap; and when it ended because the *)
(* agent was done, nothing the agent had said is missing.                    *)
InOrder ==
  /\ Counts(agentGot \o stdin \o inHeld)
  /\ Counts(clientGot \o socketOut \o outHeld)
  /\ link = "agent" => Len(clientGot \o socketOut) = agentSaid

(* While both sides read, a connection whose one side has gone comes to its  *)
(* end, and the agent with it.                                               *)
Ended == (~clientOpen \/ ~agentAlive) ~> (link # "open" /\ ~agentAlive)
===============================================================================
