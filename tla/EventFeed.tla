------------------------------ MODULE EventFeed ------------------------------
(***************************************************************************)
(* What the delivery of a task's events promises its clients, however the  *)
(* log, the hub and the connections behave: the stream yields events one   *)
(* after the other, and a client gets some of those already yielded, in    *)
(* their order and each at most once.                                      *)
(***************************************************************************)
EXTENDS Naturals, Sequences

CONSTANT Client

VARIABLES
  feed,   \* how many events the stream has yielded
  got     \* per client, the events it has received

FeedInit == feed = 0 /\ got = [c \in Client |-> <<>>]

Newest(c) == IF got[c] = <<>> THEN 0 ELSE got[c][Len(got[c])]

Yield == feed' = feed + 1 /\ UNCHANGED got

Get(c) ==
  /\ \E e \in Newest(c) + 1 .. feed : got' = [got EXCEPT ![c] = Append(@, e)]
  /\ UNCHANGED feed

FeedNext == Yield \/ \E c \in Client : Get(c)

FeedSpec == FeedInit /\ [][FeedNext]_<<feed, got>>

=============================================================================
