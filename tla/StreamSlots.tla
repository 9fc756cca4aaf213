------------------------------ MODULE StreamSlots ------------------------------
(***************************************************************************)
(* The stream slots of the agents (gatewayd/src/registry.rs): a semaphore  *)
(* per agent, shared by the connections of every transport.  A slot is     *)
(* taken without waiting, or the stream is refused, and comes back when    *)
(* the permit is dropped.                                                  *)
(***************************************************************************)
EXTENDS Naturals, FiniteSets

CONSTANTS
  Agent,        \* configured agents
  StreamLimit   \* max_concurrent_streams

VARIABLE free   \* available permits of each agent

ASSUME StreamSlotsAssumption == StreamLimit \in Nat

SlotsInit == free = [a \in Agent |-> StreamLimit]

HasSlot(a) == free[a] > 0

TakeSlot(a) == HasSlot(a) /\ free' = [free EXCEPT ![a] = @ - 1]

ReturnSlot(a) == free' = [free EXCEPT ![a] = @ + 1]

(* Registry::stream_usage, what the health check reports.                    *)
SlotsInUse(a) == StreamLimit - free[a]
===============================================================================
