---------------------------- MODULE MCUdpSession ----------------------------
(***************************************************************************)
(* Values for the model checker.  Sizes are in units of an ack: a datagram *)
(* holds two client pushes (small fragments) or one server push (fragments *)
(* of full size), or acks in their place.  The bounds on appended          *)
(* fragments make the stream under test longer than the window: the        *)
(* client's by two, because it sends one fragment past the window.         *)
(***************************************************************************)
EXTENDS UdpSession

MCPushSize == [client |-> 1, server |-> 2]

MCUplink   == [client |-> 4, server |-> 0]
MCDownlink == [client |-> 1, server |-> 3]
MCLive     == [client |-> 1, server |-> 2]
MCReset    == [client |-> 2, server |-> 1]
=============================================================================
