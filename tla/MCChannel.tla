----------------------------- MODULE MCChannel -----------------------------
(***************************************************************************)
(* Instances of Channel for TLC, and the refinement of ChannelContract.    *)
(***************************************************************************)
EXTENDS Channel

Contract == INSTANCE ChannelContract WITH
    open <- ~closed,
    offered <- ToSet(sendWaiters),
    stored <- ToSet(buffer),
    got <- value

\* Every step of the channel is a step of ChannelContract or changes nothing
\* it can see: try_send, try_recv, the two registrations and close() keep the
\* promise in every interleaving.
KeepsContract == Contract!Spec

=============================================================================
