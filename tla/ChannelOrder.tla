---------------------------- MODULE ChannelOrder ----------------------------
(***************************************************************************)
(* Channel with a history of the order in which values come in and go out. *)
(***************************************************************************)
EXTENDS Channel

VARIABLES
    entered,  \* values in the order the channel accepted them
    left      \* values in the order takers received them

orderVars == <<vars, entered, left>>

OrderInit == Init /\ entered = <<>> /\ left = <<>>

\* One step accepts at most one value and delivers at most one.
OrderNext ==
    /\ Next
    /\ entered' = entered \o SetToSeq(InFlight' \ InFlight)
    /\ left' = left \o SetToSeq(Got' \ Got)

OrderSpec == OrderInit /\ [][OrderNext]_orderVars

\* Values are received in the order they were accepted: "Use list for FIFO"
\* (channel.h:239).
Fifo == IsPrefix(left, entered)

=============================================================================
