-------------------------- MODULE MC_StreamDelivery --------------------------
(* One streamed task with its sender and a second connection of the client.  *)
EXTENDS StreamDelivery

=============================================================================
